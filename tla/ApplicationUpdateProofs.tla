----------------------- MODULE ApplicationUpdateProofs -----------------------
(***************************************************************************)
(* ApplicationUpdate implements Installation, for any number of launches   *)
(* and also when helpers overlap; what the helper puts in place is always  *)
(* a complete unit, and it does so only after its parent's exit.           *)
(*                                                                         *)
(* The invariant has two halves.  Handover follows the staged unit from    *)
(* the copy to the helper: who may write staged[a] at which point.  Kept   *)
(* says where the copies are: a helper between setting the unit aside and  *)
(* starting the new one holds a usable backup, or some ended helper does   *)
(* for good (Stuck), and what is held by helpers that are about to discard *)
(* it (Discarding) is never the only usable copy.                          *)
(*                                                                         *)
(* That a failure is told rests on News: one helper is at work at a time,  *)
(* and the record of an attempt whose news no launch has taken up stays    *)
(* until one does, unless the new version is installed and stays so; a     *)
(* launch that has taken it up holds it until its window asks.             *)
(*                                                                         *)
(* The gates of a release are pure.  Of them it is shown that versions are *)
(* totally ordered, that the check reads the whole history and offers the  *)
(* newest release, that staging accepts what was built for it and nothing  *)
(* else, and that what is handed over is apart from all other paths.       *)
(***************************************************************************)
EXTENDS ApplicationUpdate, SequenceTheorems, WellFoundedInduction, TLAPS

States == {"Idle", "Checking", "Current", "Available", "Deferred", "ReadyToRestart",
           "Applying", "Failed"} \cup Preparing
Steps == {"None", "Waiting", "SetAside", "Promote", "Relaunch", "Withdraw", "Restore",
          "Resume", "Record", "MarkApplied", "Discard", "Done", "Crashed"}
Works == {"None", "Check", "Download", "Copy", "Prepared", "Unprepared", "Handover", "Journaled"}

Stages == {"None", "Check", "Download", "Verify", "Stage", "Apply", "Relaunch", "Recovery",
           "Interrupted"}
Phases == {"Off", "Starting", "Clearing", "Up", "Quitting"}

Processes == [launch : 0..MaxLaunch, phase : Phases, version : Units, by : 0..MaxLaunch]
Managers == [state : States, revision : Nat, progress : Nat, failure : Stages,
             operation : BOOLEAN, prepared : BOOLEAN, accepted : BOOLEAN]
Records == [attempt : 0..MaxLaunch, state : {"None", "Applying", "Applied", "Failed"},
            stage : Stages]
Helpers == [pc : Steps, cause : Stages, lost : BOOLEAN]

Types ==
  /\ installed \in Units
  /\ staged \in [Attempts -> Units]
  /\ backup \in [Attempts -> Units]
  /\ record \in Records
  /\ process \in Processes
  /\ manager \in Managers
  /\ work \in Works
  /\ helper \in [Attempts -> Helpers]

Alive == process.phase # "Off"

Handover ==
  /\ Alive => process.launch \in Attempts
  /\ work # "None" => Running /\ helper[process.launch].pc = "None"
  /\ work \in {"Download", "Copy", "Prepared", "Unprepared"} => manager.state \in Preparing
  /\ work \in {"Handover", "Journaled"} => manager.state = "Applying"
  /\ work = "Prepared" => staged[process.launch] = "New"
  /\ Running /\ manager.state \in {"ReadyToRestart", "Applying"} => staged[process.launch] = "New"
  /\ Alive /\ helper[process.launch].pc # "None" => manager.state = "Applying"
  /\ process.phase \in {"Starting", "Clearing"}
       => helper[process.launch].pc = "None" /\ manager.state \in {"Idle", "Failed"}
  /\ \A a \in Attempts :
       /\ helper[a].pc \in {"Waiting", "SetAside", "Promote"} => staged[a] = "New"
       /\ a > process.launch => helper[a].pc = "None"
       /\ helper[a].pc \notin {"None", "Waiting", "Record", "Done", "Crashed"} => ParentGone(a)
       /\ helper[a].pc \in {"None", "Waiting"} => backup[a] = "None"
       /\ ~ParentGone(a) => backup[a] = "None"

Stuck(a) == helper[a].pc \in {"Record", "Done", "Crashed"} /\ backup[a] \in Usable
Discarding(a) == helper[a].pc \in {"MarkApplied", "Discard"}

Kept ==
  /\ \A a \in Attempts : helper[a].pc \in {"Promote", "Relaunch", "Withdraw", "Restore"}
       => backup[a] \in Usable \/ \E c \in Attempts : Stuck(c)
  /\ installed = "Partial" => \E c \in Attempts : Stuck(c)
  /\ \/ installed \in Usable
     \/ \E b \in Attempts : backup[b] \in Usable /\ ~Discarding(b)

Inv == Types /\ Handover /\ Kept

-----------------------------------------------------------------------------
LEMMA InitiallyInv == Init => Inv
  <1>1. ASSUME Init PROVE Types
    BY <1>1, BoundsAssumption
    DEF Init, Types, Processes, Managers, Records, Helpers, Phases, Stages, Units, Usable, NoRecord, IdleManager, NoHelper, States, Preparing, Works,
        Steps, Attempts
  <1>2. ASSUME Init PROVE Handover
    BY <1>2, BoundsAssumption
    DEF Init, Handover, Alive, IdleManager, NoHelper, Running, ParentGone, Attempts
  <1>3. ASSUME Init PROVE Kept
    BY <1>3 DEF Init, Kept, Usable, NoHelper, Attempts
  <1>. QED  BY <1>1, <1>2, <1>3 DEF Inv

(* What the gates of ReleaseContract let through. *)
LEMMA CheckAnswers ==
  process.version \in Units => CheckOutcomes \subseteq {"Failed", "Current", "Available"}
  BY DEF CheckOutcomes, Answers, Check, Offered

LEMMA PreparedUnits == \A unit \in Prepared : unit = "New"
  BY DEF Prepared, UnitOf, Accepts

(* What the building blocks of the actions do to the types. *)
LEMMA ManagerSteps ==
  ASSUME NEW m \in Managers
  PROVE  /\ \A s \in States : Transition(m, s) => manager' \in Managers
         /\ \A stage \in Stages : Fail(m, stage) => manager' \in Managers
         /\ [m EXCEPT !.operation = FALSE] \in Managers
         /\ [m EXCEPT !.operation = TRUE] \in Managers
         /\ [m EXCEPT !.operation = FALSE, !.prepared = TRUE] \in Managers
         /\ [m EXCEPT !.operation = TRUE, !.prepared = FALSE, !.progress = 0,
                      !.failure = "None", !.accepted = TRUE] \in Managers
         /\ \A p \in Nat : [m EXCEPT !.progress = p] \in Managers
  <1>1. \A stage \in Stages : [m EXCEPT !.failure = stage, !.operation = FALSE] \in Managers
    BY DEF Managers
  <1>2. ASSUME NEW n \in Managers, NEW s \in States, Transition(n, s)
        PROVE  manager' \in Managers
    <2>1. n.revision + 1 \in Nat
      BY DEF Managers
    <2>2. [n EXCEPT !.state = s, !.revision = n.revision + 1] \in Managers
      BY <2>1 DEF Managers
    <2>. QED  BY <1>2, <2>2 DEF Transition
  <1>3. "Failed" \in States
    BY DEF States
  <1>4. \A stage \in Stages : Fail(m, stage) => manager' \in Managers
    BY <1>1, <1>2, <1>3 DEF Fail
  <1>5. /\ [m EXCEPT !.operation = FALSE] \in Managers
        /\ [m EXCEPT !.operation = TRUE] \in Managers
        /\ [m EXCEPT !.operation = FALSE, !.prepared = TRUE] \in Managers
        /\ \A p \in Nat : [m EXCEPT !.progress = p] \in Managers
    BY DEF Managers
  <1>6. [m EXCEPT !.operation = TRUE, !.prepared = FALSE, !.progress = 0,
                  !.failure = "None", !.accepted = TRUE] \in Managers
    BY DEF Managers, Stages
  <1>. QED  BY <1>2, <1>4, <1>5, <1>6

LEMMA ReportSteps ==
  ASSUME Types, NEW s \in Preparing, NEW p \in Nat, Reported(s, p)
  PROVE  manager' \in Managers
  <1>1. s \in States  BY DEF States
  <1>2. [manager EXCEPT !.progress = p] \in Managers  BY ManagerSteps DEF Types
  <1>. QED  BY <1>1, <1>2, ManagerSteps DEF Types, Reported

LEMMA HelperSteps ==
  ASSUME Types, NEW a \in Attempts
  PROVE  /\ \A pc \in Steps : Goes(a, pc) => helper' \in [Attempts -> Helpers]
         /\ \A cause \in Stages, lost \in BOOLEAN, pc \in Steps :
              Gives(a, cause, lost, pc) => helper' \in [Attempts -> Helpers]
         /\ helper[a].cause \in Stages
  BY DEF Types, Helpers, Goes, Gives

LEMMA ProcessSteps ==
  ASSUME Types
  PROVE  /\ \A phase \in Phases : [process EXCEPT !.phase = phase] \in Processes
         /\ \A by \in 0..MaxLaunch :
              Started(by) => process' \in Processes /\ manager' \in Managers
         /\ process.launch \in 0..MaxLaunch
  <1>. USE BoundsAssumption DEF Types, Processes, Phases
  <1>1. \A phase \in Phases : [process EXCEPT !.phase = phase] \in Processes
    OBVIOUS
  <1>2. IdleManager \in Managers
    BY DEF IdleManager, Managers, States, Stages
  <1>3. ASSUME NEW by \in 0..MaxLaunch, Started(by)
        PROVE  process' \in Processes /\ manager' \in Managers
    BY <1>2, <1>3 DEF Started
  <1>. QED  BY <1>1, <1>3

(* The actions of the application itself keep the types. *)
LEMMA TypesOfApplication ==
  ASSUME Types, Launching \/ Deciding \/ Background \/ ReportPreparation
  PROVE  Types'
  <1>. USE DEF Types, disk
  <1>s. States = {"Idle", "Checking", "Current", "Available", "Deferred", "ReadyToRestart",
                  "Applying", "Failed", "Downloading", "Verifying", "Staging"}
    BY DEF States, Preparing
  <1>1. CASE LaunchByHand
    <2>1. 0 \in 0..MaxLaunch  BY BoundsAssumption
    <2>. QED  BY <1>1, <2>1, ProcessSteps DEF LaunchByHand
  <1>2. CASE ReadRecovery
    <2>1. Outcome \in Stages
      BY DEF Outcome, Records, Stages
    <2>2. FailedManager(Outcome) \in Managers
      BY <2>1 DEF FailedManager, IdleManager, Managers, States, Stages
    <2>3. process' \in Processes
      BY <1>2, ProcessSteps DEF ReadRecovery, RecordIsInert, Phases
    <2>. QED  BY <1>2, <2>2, <2>3 DEF ReadRecovery, RecordIsInert
  <1>3. CASE RemoveRecovery
    <2>1. NoRecord \in Records  BY BoundsAssumption DEF NoRecord, Records, Stages
    <2>. QED  BY <1>3, <2>1, ProcessSteps DEF RemoveRecovery, Phases
  <1>4. CASE Quit
    BY <1>4, ProcessSteps DEF Quit, Phases
  <1>5. CASE Exit
    BY <1>5, ProcessSteps DEF Exit, Phases, Works
  <1>6. CASE Status
    BY <1>6, <1>s, ManagerSteps DEF Status, Works
  <1>7. CASE DeferOffer
    BY <1>7, <1>s, ManagerSteps DEF DeferOffer
  <1>8. CASE AcceptOffer
    BY <1>8, <1>s, ManagerSteps DEF AcceptOffer, Works
  <1>9. CASE ApproveRestart
    BY <1>9, <1>s, ManagerSteps DEF ApproveRestart, Works
  <1>10. CASE RunCheck
    <2>1. CheckOutcomes \subseteq {"Failed", "Current", "Available"}
      BY CheckAnswers DEF Processes
    <2>. QED  BY <1>10, <1>s, <2>1, ManagerSteps DEF RunCheck, Works, Stages
  <1>11. CASE DownloadEnds
    <2>1. manager' \in Managers
      BY <1>11, ReportSteps DEF DownloadEnds, DownloadFails, Preparing, Managers
    <2>2. staged' \in [Attempts -> Units]
      BY <1>11 DEF DownloadEnds, DownloadFails, Units
    <2>. QED  BY <1>11, <2>1, <2>2 DEF DownloadEnds, DownloadFails, Works
  <1>12. CASE StageUnit
    <2>1. staged' \in [Attempts -> Units]
      BY <1>12, PreparedUnits DEF StageUnit, Units, Usable
    <2>. QED  BY <1>12, <2>1 DEF StageUnit, Works
  <1>13. CASE CompletePreparation
    <2>1. PreparationStage \in Stages  BY DEF PreparationStage, Stages
    <2>. QED  BY <1>13, <1>s, <2>1, ManagerSteps DEF CompletePreparation, Works, Stages
  <1>14. CASE WriteApplying
    <2>1. Applying(process.launch) \in Records
      BY ProcessSteps DEF Applying, Records, Stages
    <2>. QED  BY <1>14, <2>1, ManagerSteps DEF WriteApplying, RestartFails, Works, Stages
  <1>15. CASE StartHelper
    <2>1. Failed(process.launch, "Apply") \in Records
      BY ProcessSteps DEF Failed, Records, Stages
    <2>2. helper' \in [Attempts -> Helpers]
      BY <1>15 DEF StartHelper, Helpers, Steps
    <2>3. process' \in Processes
      BY <1>15, ProcessSteps DEF StartHelper, Phases
    <2>. QED  BY <1>15, <2>1, <2>2, <2>3, ManagerSteps DEF StartHelper, RestartFails, Works, Stages
  <1>16. CASE ReportPreparation
    <2>1. manager' \in Managers
      BY <1>16, ReportSteps, BoundsAssumption DEF ReportPreparation, Listening, Preparing
    <2>. QED  BY <1>16, <2>1 DEF ReportPreparation, Listening
  <1>. QED
    BY <1>1, <1>2, <1>3, <1>4, <1>5, <1>6, <1>7, <1>8, <1>9, <1>10, <1>11, <1>12, <1>13,
       <1>14, <1>15, <1>16 DEF Launching, Deciding, Background

(* So do the steps of a helper. *)
LEMMA TypesOfHelper ==
  ASSUME Types, NEW a \in Attempts,
         \/ ApplyPreparedApplication(a)
         \/ Crash(a) /\ UNCHANGED <<work, told>>
  PROVE  Types'
  <1>. USE HelperSteps DEF Types, disk
  <1>s. Steps = {"None", "Waiting", "SetAside", "Promote", "Relaunch", "Withdraw", "Restore",
                 "Resume", "Record", "MarkApplied", "Discard", "Done", "Crashed"}
    BY DEF Steps
  <1>a. a \in 0..MaxLaunch  BY BoundsAssumption DEF Attempts
  <1>1. CASE WaitEnds(a) /\ UNCHANGED <<work, told>>
    BY <1>1, <1>s DEF WaitEnds
  <1>2. CASE WaitTimesOut(a) /\ UNCHANGED <<work, told>>
    BY <1>2, <1>s DEF WaitTimesOut, Stages
  <1>3. CASE SetAside(a) /\ UNCHANGED <<work, told>>
    BY <1>3, <1>s DEF SetAside, Units, Stages
  <1>4. CASE Promote(a) /\ UNCHANGED <<work, told>>
    BY <1>4, <1>s DEF Promote, Units, Stages
  <1>5. CASE Relaunch(a) /\ UNCHANGED <<work, told>>
    BY <1>5, <1>s, <1>a, ProcessSteps DEF Relaunch, Stages
  <1>6. CASE Withdraw(a) /\ UNCHANGED <<work, told>>
    BY <1>6, <1>s DEF Withdraw, Units
  <1>7. CASE Restore(a) /\ UNCHANGED <<work, told>>
    BY <1>7, <1>s DEF Restore, Units
  <1>8. CASE Resume(a) /\ UNCHANGED <<work, told>>
    BY <1>8, <1>s, <1>a, ProcessSteps DEF Resume
  <1>9. CASE RecordFailure(a) /\ UNCHANGED <<work, told>>
    <2>1. RestoredFailure(a) \in Records
      BY <1>a DEF RestoredFailure, Failed, Records, Stages
    <2>. QED  BY <1>9, <1>s, <2>1 DEF RecordFailure
  <1>10. CASE MarkApplied(a) /\ UNCHANGED <<work, told>>
    <2>1. Applied(a) \in Records  BY <1>a DEF Applied, Records, Stages
    <2>. QED  BY <1>10, <1>s, <2>1 DEF MarkApplied
  <1>11. CASE DiscardBackup(a) /\ UNCHANGED <<work, told>>
    BY <1>11, <1>s DEF DiscardBackup, Units, Stages
  <1>12. CASE Crash(a) /\ UNCHANGED <<work, told>>
    BY <1>12, <1>s DEF Crash
  <1>. QED
    BY <1>1, <1>2, <1>3, <1>4, <1>5, <1>6, <1>7, <1>8, <1>9, <1>10, <1>11, <1>12
    DEF ApplyPreparedApplication

-----------------------------------------------------------------------------
(* What the building blocks do to the fields that Handover and Kept read. *)
LEMMA StateAfter ==
  ASSUME NEW m \in Managers
  PROVE  /\ \A s : Transition(m, s) => manager'.state = s
         /\ \A stage : Fail(m, stage) => manager'.state = "Failed"
         /\ [m EXCEPT !.operation = FALSE].state = m.state
  BY DEF Managers, Transition, Fail

LEMMA ReportedState ==
  ASSUME Types, NEW s \in Preparing, NEW p \in Nat, Reported(s, p)
  PROVE  \/ manager' = manager
         \/ manager.state \in Preparing /\ manager'.state = s
  <1>1. [manager EXCEPT !.progress = p] \in Managers  BY ManagerSteps DEF Types
  <1>. QED  BY <1>1, StateAfter DEF Reported, Advances

LEMMA StepAfter ==
  ASSUME Types, NEW a \in Attempts
  PROVE  /\ \A pc : Goes(a, pc) =>
              helper'[a].pc = pc /\ \A b \in Attempts \ {a} : helper'[b] = helper[b]
         /\ \A r : helper' = [helper EXCEPT ![a] = r] =>
              helper'[a] = r /\ \A b \in Attempts \ {a} : helper'[b] = helper[b]
  BY DEF Types, Helpers, Goes, Gives

LEMMA PhaseAfter ==
  ASSUME Types
  PROVE  \A phase \in Phases :
           /\ [process EXCEPT !.phase = phase].phase = phase
           /\ [process EXCEPT !.phase = phase].launch = process.launch
  BY DEF Types, Processes

(* The actions of the application that leave the helpers alone. *)
LEMMA HandoverOfApplication ==
  ASSUME Inv, Launching \/ Deciding \/ Background \/ ReportPreparation
  PROVE  Handover'
  <1>. USE DEF Inv, Handover, Alive, Running, ParentGone, disk
  <1>t. manager \in Managers /\ process.launch \in 0..MaxLaunch
    BY ProcessSteps DEF Types
  <1>p. Preparing = {"Downloading", "Verifying", "Staging"}
    BY DEF Preparing
  <1>1. CASE LaunchByHand
    BY <1>1, BoundsAssumption, <1>t DEF LaunchByHand, Started, IdleManager, Attempts
  <1>2. CASE ReadRecovery
    <2>1. process'.launch = process.launch /\ process'.phase \in {"Clearing", "Up"}
      BY <1>2, PhaseAfter DEF ReadRecovery, RecordIsInert, Phases
    <2>2. manager' = manager \/ manager'.state = "Failed"
      BY <1>2 DEF ReadRecovery, RecordIsInert, FailedManager, IdleManager
    <2>. QED  BY <1>2, <1>p, <2>1, <2>2 DEF ReadRecovery, RecordIsInert
  <1>3. CASE RemoveRecovery
    BY <1>3, PhaseAfter DEF RemoveRecovery, Phases
  <1>4. CASE Quit
    BY <1>4, PhaseAfter DEF Quit, Phases
  <1>5. CASE Exit
    BY <1>5, PhaseAfter DEF Exit, Phases
  <1>6. CASE Status
    BY <1>6, <1>t, <1>p, StateAfter DEF Status
  <1>7. CASE DeferOffer
    BY <1>7, <1>t, <1>p, StateAfter DEF DeferOffer
  <1>8. CASE AcceptOffer
    <2>1. manager'.state = "Downloading"
      BY <1>8, <1>t, StateAfter, ManagerSteps DEF AcceptOffer
    <2>. QED  BY <1>8, <1>p, <2>1 DEF AcceptOffer
  <1>9. CASE ApproveRestart
    <2>1. manager'.state = "Applying"
      BY <1>9, <1>t, StateAfter, ManagerSteps DEF ApproveRestart
    <2>. QED  BY <1>9, <1>p, <2>1 DEF ApproveRestart
  <1>10. CASE RunCheck
    <2>1. CheckOutcomes \subseteq {"Failed", "Current", "Available"}
      BY CheckAnswers DEF Types, Processes
    <2>. QED  BY <1>10, <1>t, <1>p, <2>1, StateAfter DEF RunCheck
  <1>11. CASE DownloadEnds
    <2>1. manager'.state \in Preparing
      BY <1>11, <1>p, <1>t, ReportedState DEF DownloadEnds, DownloadFails, Managers
    <2>2. \A b \in Attempts \ {process.launch} : staged'[b] = staged[b]
      BY <1>11 DEF DownloadEnds, DownloadFails, Types
    <2>. QED  BY <1>11, <1>p, <2>1, <2>2 DEF DownloadEnds, DownloadFails
  <1>12. CASE StageUnit
    <2>1. \A b \in Attempts \ {process.launch} : staged'[b] = staged[b]
      BY <1>12 DEF StageUnit, Types
    <2>2. work' = "Prepared" => staged'[process.launch] = "New"
      BY <1>12, PreparedUnits DEF StageUnit, Types
    <2>. QED  BY <1>12, <1>p, <2>1, <2>2 DEF StageUnit
  <1>13. CASE CompletePreparation
    <2>1. manager'.state \in {"ReadyToRestart", "Failed"}
      BY <1>13, <1>t, <1>p, StateAfter, ManagerSteps DEF CompletePreparation
    <2>2. manager'.state = "ReadyToRestart" => work = "Prepared"
      BY <1>13, <1>t, <1>p, StateAfter, ManagerSteps DEF CompletePreparation
    <2>. QED  BY <1>13, <1>p, <2>1, <2>2 DEF CompletePreparation
  <1>14. CASE WriteApplying
    BY <1>14, <1>t, <1>p, StateAfter DEF WriteApplying, RestartFails
  <1>15. CASE StartHelper
    <2>1. CASE /\ helper' = [helper EXCEPT ![process.launch].pc = "Waiting"]
               /\ process' = [process EXCEPT !.phase = "Quitting"]
               /\ manager' = [manager EXCEPT !.operation = FALSE]
               /\ work' = "None"
      <3>1. process'.launch = process.launch /\ process'.phase = "Quitting"
        BY <2>1, PhaseAfter DEF Phases
      <3>2. manager'.state = "Applying"
        BY <1>15, <2>1, <1>t, StateAfter DEF StartHelper
      <3>3. helper'[process.launch].pc = "Waiting"
            /\ \A b \in Attempts \ {process.launch} : helper'[b] = helper[b]
        BY <1>15, <2>1 DEF StartHelper, Types, Helpers
      <3>4. process.launch \in Attempts /\ staged[process.launch] = "New"
            /\ backup[process.launch] = "None"
        BY <1>15 DEF StartHelper
      <3>5. UNCHANGED <<staged, backup>>
        BY <1>15 DEF StartHelper
      <3>6. ASSUME NEW b \in Attempts
            PROVE  /\ helper'[b].pc \in {"Waiting", "SetAside", "Promote"} => staged'[b] = "New"
                   /\ b > process'.launch => helper'[b].pc = "None"
                   /\ helper'[b].pc \notin {"None", "Waiting", "Record", "Done", "Crashed"}
                        => ParentGone(b)'
                   /\ helper'[b].pc \in {"None", "Waiting"} => backup'[b] = "None"
                   /\ ~ParentGone(b)' => backup'[b] = "None"
        <4>1. CASE b = process.launch
          BY <4>1, <3>1, <3>3, <3>4, <3>5, <1>t
        <4>2. CASE b # process.launch
          BY <4>2, <3>1, <3>3, <3>5
        <4>. QED  BY <4>1, <4>2
      <3>. QED  BY <2>1, <3>1, <3>2, <3>3, <3>4, <3>5, <3>6, <1>p
    <2>2. CASE RestartFails /\ UNCHANGED <<process, helper>>
      BY <1>15, <2>2, <1>t, <1>p, StateAfter DEF StartHelper, RestartFails
    <2>. QED  BY <1>15, <2>1, <2>2 DEF StartHelper
  <1>16. CASE ReportPreparation
    <2>1. \/ manager' = manager
          \/ manager.state \in Preparing /\ manager'.state \in Preparing
      <3>1. PICK state \in {"Downloading", "Verifying"}, progress \in 0..MaxProgress :
              Reported(state, progress)
        BY <1>16 DEF ReportPreparation, Listening
      <3>2. state \in Preparing /\ progress \in Nat
        BY <1>p, BoundsAssumption
      <3>. HIDE DEF Handover
      <3>3. Types
        OBVIOUS
      <3>. QED  BY ONLY <3>1, <3>2, <3>3, ReportedState
    <2>. QED  BY <1>16, <1>p, <2>1 DEF ReportPreparation, Listening
  <1>. QED
    BY <1>1, <1>2, <1>3, <1>4, <1>5, <1>6, <1>7, <1>8, <1>9, <1>10, <1>11, <1>12, <1>13,
       <1>14, <1>15, <1>16 DEF Launching, Deciding, Background
(* The steps of a helper: those that keep the process, and the two that start one. *)
LEMMA HandoverOfHelper ==
  ASSUME Inv, NEW a \in Attempts,
         \/ ApplyPreparedApplication(a)
         \/ Crash(a) /\ UNCHANGED <<work, told>>
  PROVE  Handover'
  <1>. USE DEF Inv, Alive, Running, ParentGone
  <1>t. /\ process.launch \in 0..MaxLaunch
        /\ staged \in [Attempts -> Units] /\ backup \in [Attempts -> Units]
        /\ a \in Nat
    BY ProcessSteps, BoundsAssumption DEF Types, Attempts
  <1>1. ASSUME UNCHANGED <<process, manager, work>>,
               \A b \in Attempts \ {a} : /\ helper'[b] = helper[b]
                                        /\ staged'[b] = staged[b]
                                        /\ backup'[b] = backup[b],
               helper[a].pc \notin {"None", "Done", "Crashed"},
               helper'[a].pc \notin {"None", "Waiting"},
               helper'[a].pc \in {"SetAside", "Promote"} =>
                 staged'[a] = "New" /\ ParentGone(a),
               helper'[a].pc \notin {"Record", "Done", "Crashed"} => ParentGone(a),
               ~ParentGone(a) => staged'[a] = staged[a] /\ backup'[a] = backup[a]
        PROVE  Handover'
    <2>1. process.launch \in Attempts /\ process.launch # a =>
            /\ helper'[process.launch] = helper[process.launch]
            /\ staged'[process.launch] = staged[process.launch]
      BY <1>1
    <2>2. process.phase # "Off" /\ process.launch = a => ~ParentGone(a)
      OBVIOUS
    <2>3. ASSUME NEW b \in Attempts
          PROVE  /\ helper'[b].pc \in {"Waiting", "SetAside", "Promote"} => staged'[b] = "New"
                 /\ b > process'.launch => helper'[b].pc = "None"
                 /\ helper'[b].pc \notin {"None", "Waiting", "Record", "Done", "Crashed"}
                      => ParentGone(b)'
                 /\ helper'[b].pc \in {"None", "Waiting"} => backup'[b] = "None"
                 /\ ~ParentGone(b)' => backup'[b] = "None"
      <3>1. CASE b = a
        BY <1>1, <3>1 DEF Handover
      <3>2. CASE b # a
        BY <1>1, <3>2 DEF Handover
      <3>. QED  BY <3>1, <3>2
    <2>4. CASE process.phase = "Off"
      BY <1>1, <2>3, <2>4 DEF Handover
    <2>5. CASE process.phase # "Off" /\ process.launch # a
      BY <1>1, <2>1, <2>3, <2>5 DEF Handover
    <2>6. CASE process.phase # "Off" /\ process.launch = a
      BY <1>1, <2>2, <2>3, <2>6 DEF Handover
    <2>. QED  BY <2>4, <2>5, <2>6
  <1>2. ASSUME Started(a), UNCHANGED <<staged, backup, work>>,
               \A b \in Attempts \ {a} : helper'[b] = helper[b],
               helper[a].pc \in {"Relaunch", "Resume"},
               helper'[a].pc \in {"Record", "MarkApplied"}
        PROVE  Handover'
    <2>1. CASE UNCHANGED process
      <3>2. UNCHANGED manager
        BY <1>2, <2>1, <1>t DEF Started, Types, Processes
      <3>. QED  BY <1>1, <1>2, <2>1, <3>2 DEF Handover
    <2>2. CASE /\ process.phase = "Off" /\ process.launch < MaxLaunch
               /\ process' = [launch |-> process.launch + 1, phase |-> "Starting",
                              version |-> installed, by |-> a]
               /\ manager' = IdleManager
      <3>1. /\ process'.launch = process.launch + 1 /\ process'.phase = "Starting"
            /\ manager'.state = "Idle"
        BY <2>2 DEF IdleManager
      <3>2. process'.launch \in Attempts /\ process'.launch > process.launch
        BY <2>2, <3>1, <1>t, BoundsAssumption DEF Attempts
      <3>3. helper[process'.launch].pc = "None" /\ backup[process'.launch] = "None"
        BY <3>2 DEF Handover
      <3>4. process'.launch # a
        BY <1>2, <3>3
      <3>5. work = "None"
        BY <2>2 DEF Handover
      <3>6. ASSUME NEW b \in Attempts
            PROVE  /\ helper'[b].pc \in {"Waiting", "SetAside", "Promote"} => staged'[b] = "New"
                   /\ b > process'.launch => helper'[b].pc = "None"
                   /\ helper'[b].pc \notin {"None", "Waiting", "Record", "Done", "Crashed"}
                        => ParentGone(b)'
                   /\ helper'[b].pc \in {"None", "Waiting"} => backup'[b] = "None"
                   /\ ~ParentGone(b)' => backup'[b] = "None"
        <4>0. b \in Nat  BY BoundsAssumption DEF Attempts
        <4>1. CASE b = a
          <5>1. a <= process.launch
            BY <1>2, <1>t DEF Handover
          <5>. QED  BY <1>2, <4>1, <3>1, <3>4, <5>1, <1>t DEF Handover
        <4>2. CASE b # a
          BY <1>2, <4>0, <4>2, <3>1, <3>2, <3>3, <1>t DEF Handover
        <4>. QED  BY <4>1, <4>2
      <3>. QED  BY <1>2, <3>1, <3>2, <3>3, <3>4, <3>5, <3>6 DEF Handover
    <2>. QED  BY <1>2, <2>1, <2>2 DEF Started
  <1>. USE StepAfter DEF At, disk
  <1>3. CASE WaitEnds(a) /\ UNCHANGED <<work, told>>
    BY <1>1, <1>3 DEF WaitEnds, Handover
  <1>4. CASE WaitTimesOut(a) /\ UNCHANGED <<work, told>>
    <2>1. helper'[a].pc = "Record" /\ \A b \in Attempts \ {a} : helper'[b] = helper[b]
      <3>1. helper' = [helper EXCEPT ![a] = [pc |-> "Record", cause |-> "Apply", lost |-> FALSE]]
        BY ONLY <1>4 DEF WaitTimesOut, Gives
      <3>2. helper \in [Attempts -> Helpers]
        BY DEF Types
      <3>. QED  BY ONLY <3>1, <3>2, a \in Attempts
    <2>. QED  BY ONLY <1>1, <1>4, <2>1 DEF WaitTimesOut, At, disk
  <1>5. CASE SetAside(a) /\ UNCHANGED <<work, told>>
    <2>1. \A b \in Attempts \ {a} : backup'[b] = backup[b]
      BY <1>5, <1>t DEF SetAside
    <2>. QED  BY <1>1, <1>5, <2>1 DEF SetAside, Handover, Gives
  <1>6. CASE Promote(a) /\ UNCHANGED <<work, told>>
    <2>1. \A b \in Attempts \ {a} : staged'[b] = staged[b]
      BY <1>6, <1>t DEF Promote
    <2>. QED  BY <1>1, <1>6, <2>1 DEF Promote, Handover, Gives
  <1>7. CASE Relaunch(a) /\ UNCHANGED <<work, told>>
    <2>1. CASE Started(a) /\ Goes(a, "MarkApplied")
      BY <1>2, <1>7, <2>1 DEF Relaunch
    <2>2. CASE Gives(a, "Relaunch", FALSE, "Withdraw") /\ UNCHANGED <<process, manager, asked>>
      BY <1>1, <1>7, <2>2 DEF Relaunch, Handover, Gives
    <2>. QED  BY <1>7, <2>1, <2>2 DEF Relaunch
  <1>8. CASE Withdraw(a) /\ UNCHANGED <<work, told>>
    BY <1>1, <1>8 DEF Withdraw, Handover, Gives
  <1>9. CASE Restore(a) /\ UNCHANGED <<work, told>>
    <2>1. \A b \in Attempts \ {a} : backup'[b] = backup[b]
      BY <1>9, <1>t DEF Restore
    <2>. QED  BY <1>1, <1>9, <2>1 DEF Restore, Handover, Gives
  <1>10. CASE Resume(a) /\ UNCHANGED <<work, told>>
    <2>1. CASE Started(a) /\ Goes(a, "Record")
      BY <1>2, <1>10, <2>1 DEF Resume
    <2>2. CASE Gives(a, helper[a].cause, TRUE, "Record") /\ UNCHANGED <<process, manager, asked>>
      BY <1>1, <1>10, <2>2 DEF Resume, Handover, Gives
    <2>. QED  BY <1>10, <2>1, <2>2 DEF Resume
  <1>11. CASE RecordFailure(a) /\ UNCHANGED <<work, told>>
    BY <1>1, <1>11 DEF RecordFailure
  <1>12. CASE MarkApplied(a) /\ UNCHANGED <<work, told>>
    BY <1>1, <1>12 DEF MarkApplied, Handover
  <1>13. CASE DiscardBackup(a) /\ UNCHANGED <<work, told>>
    <2>1. \A b \in Attempts \ {a} : backup'[b] = backup[b]
      BY <1>13, <1>t DEF DiscardBackup
    <2>2. /\ helper'[a].pc \in {"Done", "Record"}
          /\ \A b \in Attempts \ {a} : helper'[b] = helper[b]
      BY <1>13 DEF DiscardBackup, Gives
    <2>3. ParentGone(a)
      BY <1>13 DEF DiscardBackup, Handover
    <2>. QED  BY ONLY <1>1, <1>13, <2>1, <2>2, <2>3 DEF DiscardBackup, At
  <1>14. CASE Crash(a) /\ UNCHANGED <<work, told>>
    BY <1>1, <1>14 DEF Crash, Working, Ended
  <1>. QED
    BY <1>3, <1>4, <1>5, <1>6, <1>7, <1>8, <1>9, <1>10, <1>11, <1>12, <1>13, <1>14
    DEF ApplyPreparedApplication

(* Nothing but a helper moves a unit; a new helper waits first. *)
LEMMA KeptOfApplication ==
  ASSUME Inv, Launching \/ Deciding \/ Background \/ ReportPreparation
  PROVE  Kept' /\ UNCHANGED <<installed, backup>>
  <1>1. UNCHANGED <<installed, backup>>
    BY DEF Launching, LaunchByHand, ReadRecovery, RecordIsInert, RemoveRecovery, Quit, Exit, Deciding, Status,
           DeferOffer, AcceptOffer, ApproveRestart, Background, RunCheck, DownloadEnds, DownloadFails, StageUnit,
           CompletePreparation, WriteApplying, StartHelper, ReportPreparation, Listening, disk
  <1>2. \/ UNCHANGED helper
        \/ work = "Journaled" /\ helper' = [helper EXCEPT ![process.launch].pc = "Waiting"]
    BY DEF Launching, LaunchByHand, ReadRecovery, RecordIsInert, RemoveRecovery, Quit, Exit, Deciding, Status,
           DeferOffer, AcceptOffer, ApproveRestart, Background, RunCheck, DownloadEnds, DownloadFails, StageUnit,
           CompletePreparation, WriteApplying, StartHelper, ReportPreparation, Listening, disk
  <1>3. CASE UNCHANGED helper
    BY <1>1, <1>3 DEF Inv, Kept, Stuck, Discarding
  <1>4. CASE work = "Journaled" /\ helper' = [helper EXCEPT ![process.launch].pc = "Waiting"]
    <2>1. process.launch \in Attempts /\ helper[process.launch].pc = "None"
      BY <1>4 DEF Inv, Handover, Running, Alive
    <2>2. /\ helper'[process.launch].pc = "Waiting"
          /\ \A b \in Attempts \ {process.launch} : helper'[b] = helper[b]
      BY <1>4, <2>1 DEF Inv, Types, Helpers
    <2>. QED  BY <1>1, <2>1, <2>2 DEF Inv, Kept, Stuck, Discarding
  <1>. QED  BY <1>1, <1>2, <1>3, <1>4

(* The steps of a helper that move no unit. *)
LEMMA KeptInPlace ==
  ASSUME Kept, NEW a \in Attempts, UNCHANGED <<installed, backup>>,
         \A b \in Attempts \ {a} : helper'[b] = helper[b],
         helper[a].pc \in {"Record", "Crashed"} => helper'[a].pc \in {"Record", "Done", "Crashed"},
         helper[a].pc # "Done",
         helper'[a].pc \in {"Promote", "Relaunch", "Withdraw", "Restore"} =>
           helper[a].pc \in {"Promote", "Relaunch", "Withdraw", "Restore"},
         helper'[a].pc \in {"MarkApplied", "Discard"} =>
           helper[a].pc \in {"MarkApplied", "Discard"} \/ installed \in Usable
  PROVE  Kept'
  <1>1. ASSUME NEW c \in Attempts, Stuck(c) PROVE Stuck(c)'
    BY <1>1 DEF Stuck
  <1>2. \A b \in Attempts : Discarding(b)' => Discarding(b) \/ installed \in Usable
    BY DEF Discarding
  <1>. QED  BY <1>1, <1>2 DEF Kept

(* The argument of the others: once some helper is stuck, its backup is there *)
(* for good; otherwise the helper that moves a unit holds a usable backup.    *)
LEMMA KeptOfHelper ==
  ASSUME Inv, NEW a \in Attempts,
         \/ ApplyPreparedApplication(a)
         \/ Crash(a) /\ UNCHANGED <<work, told>>
  PROVE  Kept' /\ (Replacement!Next \/ UNCHANGED <<installed, backup>>)
  <1>. USE DEF At, disk
  <1>t. /\ backup \in [Attempts -> Units] /\ installed \in Units
        /\ helper[a].pc = "Promote" => staged[a] = "New"
        /\ Kept /\ Types
    BY DEF Inv, Types, Handover
  <1>u. Usable = {"Old", "New"} /\ Units = {"Old", "New", "None", "Partial"}
    BY DEF Usable, Units
  <1>g. ASSUME NEW r, helper' = [helper EXCEPT ![a] = r]
        PROVE  helper'[a] = r /\ \A b \in Attempts \ {a} : helper'[b] = helper[b]
    BY <1>g, StepAfter, <1>t
  <1>h. ASSUME NEW pc, Goes(a, pc)
        PROVE  helper'[a].pc = pc /\ \A b \in Attempts \ {a} : helper'[b] = helper[b]
    BY <1>h, StepAfter, <1>t
  <1>i. ASSUME NEW cause, NEW lost, NEW pc, Gives(a, cause, lost, pc)
        PROVE  helper'[a].pc = pc /\ \A b \in Attempts \ {a} : helper'[b] = helper[b]
    <2>1. helper' = [helper EXCEPT ![a] = [pc |-> pc, cause |-> cause, lost |-> lost]]
      BY <1>i DEF Gives
    <2>. QED  BY ONLY <2>1, <1>g
  <1>s. ASSUME NEW c \in Attempts, Stuck(c), helper'[c] = helper[c], backup'[c] = backup[c]
        PROVE  Kept'
    BY <1>s DEF Kept, Stuck, Discarding
  <1>1. CASE WaitEnds(a) \/ WaitTimesOut(a) \/ Relaunch(a) \/ Resume(a) \/ RecordFailure(a)
             \/ MarkApplied(a) \/ Crash(a)
    <2>1. UNCHANGED <<installed, backup>>
      BY <1>1 DEF WaitEnds, WaitTimesOut, Relaunch, Resume, RecordFailure, MarkApplied, Crash
    <2>2. Kept'
      <3>1. CASE WaitEnds(a)
        BY <3>1, <2>1, <1>t, <1>h, KeptInPlace DEF WaitEnds
      <3>2. CASE WaitTimesOut(a)
        <4>1. Gives(a, "Apply", FALSE, "Record") /\ helper[a].pc = "Waiting"
          BY <3>2 DEF WaitTimesOut
        <4>2. helper'[a].pc = "Record" /\ \A b \in Attempts \ {a} : helper'[b] = helper[b]
          BY ONLY <4>1, <1>i
        <4>. QED  BY ONLY <4>1, <4>2, <2>1, <1>t, KeptInPlace, a \in Attempts
      <3>3. CASE Relaunch(a)
        <4>1. CASE installed \in Usable /\ Goes(a, "MarkApplied")
          BY <3>3, <4>1, <2>1, <1>t, <1>h, KeptInPlace DEF Relaunch
        <4>2. CASE Gives(a, "Relaunch", FALSE, "Withdraw")
          <5>1. helper'[a].pc = "Withdraw" /\ \A b \in Attempts \ {a} : helper'[b] = helper[b]
            BY ONLY <4>2, <1>i
          <5>. QED  BY <5>1, <3>3, <2>1, <1>t, KeptInPlace DEF Relaunch
        <4>. QED  BY <3>3, <4>1, <4>2 DEF Relaunch
      <3>4. CASE Resume(a)
        <4>1. CASE Goes(a, "Record")
          BY <3>4, <4>1, <2>1, <1>t, <1>h, KeptInPlace DEF Resume
        <4>2. CASE Gives(a, helper[a].cause, TRUE, "Record")
          <5>1. helper'[a].pc = "Record" /\ \A b \in Attempts \ {a} : helper'[b] = helper[b]
            BY ONLY <4>2, <1>i
          <5>. QED  BY <5>1, <3>4, <2>1, <1>t, KeptInPlace DEF Resume
        <4>. QED  BY <3>4, <4>1, <4>2 DEF Resume
      <3>5. CASE RecordFailure(a)
        BY <3>5, <2>1, <1>t, <1>h, KeptInPlace DEF RecordFailure
      <3>6. CASE MarkApplied(a)
        <4>1. helper'[a].pc \in {"Discard", "Done"}
              /\ \A b \in Attempts \ {a} : helper'[b] = helper[b]
          BY <3>6, <1>h DEF MarkApplied
        <4>2. helper[a].pc = "MarkApplied"
          BY <3>6 DEF MarkApplied
        <4>. QED  BY ONLY <4>1, <4>2, <2>1, <1>t, KeptInPlace, a \in Attempts
      <3>7. CASE Crash(a)
        BY <3>7, <2>1, <1>t, <1>h, KeptInPlace DEF Crash, Working, Ended
      <3>. QED  BY <1>1, <3>1, <3>2, <3>3, <3>4, <3>5, <3>6, <3>7
    <2>. QED  BY <2>1, <2>2
  <1>2. CASE SetAside(a)
    <2>1. CASE /\ installed # "None" /\ backup[a] = "None"
               /\ backup' = [backup EXCEPT ![a] = installed] /\ installed' = "None"
               /\ Goes(a, "Promote")
      <3>1. Replacement!SetAside(a)
        BY <2>1 DEF Replacement!SetAside
      <3>2. /\ backup'[a] = installed /\ helper'[a].pc = "Promote"
            /\ \A b \in Attempts \ {a} : helper'[b] = helper[b] /\ backup'[b] = backup[b]
        BY <2>1, <1>h, <1>t
      <3>3. CASE installed \in Usable
        <4>1. ASSUME NEW c \in Attempts, Stuck(c) PROVE Stuck(c)'
          BY <4>1, <3>2, <1>2 DEF Stuck, SetAside
        <4>2. \A b \in Attempts : helper'[b].pc \in {"Promote", "Relaunch", "Withdraw", "Restore"}
                => backup'[b] \in Usable \/ \E c \in Attempts : Stuck(c)'
          <5>1. ASSUME NEW b \in Attempts \ {a},
                       helper'[b].pc \in {"Promote", "Relaunch", "Withdraw", "Restore"}
                PROVE  backup'[b] \in Usable \/ \E c \in Attempts : Stuck(c)'
            BY <5>1, <3>2, <4>1, <1>t DEF Kept
          <5>. QED  BY <5>1, <3>2, <3>3
        <4>3. backup'[a] \in Usable /\ ~Discarding(a)'
          BY <3>2, <3>3 DEF Discarding
        <4>4. installed' # "Partial"
          BY <2>1
        <4>5. Kept'
          BY ONLY <4>2, <4>3, <4>4, a \in Attempts DEF Kept, Usable
        <4>. QED  BY <4>5, <3>1 DEF Replacement!Next
      <3>4. CASE installed = "Partial"
        <4>1. PICK c \in Attempts : Stuck(c)
          BY <3>4, <1>t DEF Kept
        <4>2. c # a
          BY <4>1, <1>2 DEF Stuck, SetAside
        <4>. QED  BY <4>1, <4>2, <3>2, <1>s, <3>1 DEF Replacement!Next
      <3>. QED  BY <2>1, <3>1, <3>3, <3>4, <1>t, <1>u DEF Replacement!Next
    <2>2. CASE Gives(a, "Apply", FALSE, "Record") /\ UNCHANGED <<installed, backup>>
      <3>1. helper'[a].pc = "Record" /\ \A b \in Attempts \ {a} : helper'[b] = helper[b]
        BY ONLY <2>2, <1>i
      <3>. QED  BY <3>1, <2>2, <1>2, <1>t, KeptInPlace DEF SetAside
    <2>. QED  BY <1>2, <2>1, <2>2 DEF SetAside
  <1>3. CASE Promote(a)
    <2>1. CASE installed = "None" /\ installed' = staged[a] /\ Goes(a, "Relaunch")
      <3>1. installed' = "New" /\ UNCHANGED backup /\ helper[a].pc = "Promote"
        BY <2>1, <1>3, <1>t DEF Promote
      <3>2. Replacement!Place
        BY <2>1, <3>1 DEF Replacement!Place, Replacement!Usable
      <3>3. helper'[a].pc = "Relaunch" /\ \A b \in Attempts \ {a} : helper'[b] = helper[b]
        BY <2>1, <1>h
      <3>4. ASSUME NEW c \in Attempts, Stuck(c) PROVE Stuck(c)'
        BY <3>1, <3>3, <3>4 DEF Stuck
      <3>. QED  BY <3>1, <3>2, <3>3, <3>4, <1>t, <1>u DEF Kept, Replacement!Next
    <2>2. CASE Gives(a, "Apply", FALSE, "Restore") /\ UNCHANGED <<installed, staged>>
      <3>1. helper'[a].pc = "Restore" /\ \A b \in Attempts \ {a} : helper'[b] = helper[b]
        BY ONLY <2>2, <1>i
      <3>. QED  BY <3>1, <2>2, <1>3, <1>t, KeptInPlace DEF Promote
    <2>. QED  BY <1>3, <2>1, <2>2 DEF Promote
  <1>4. CASE Withdraw(a)
    <2>1. helper[a].pc = "Withdraw" /\ UNCHANGED backup
      BY <1>4 DEF Withdraw
    <2>2. /\ installed' \in {installed, "None", "Partial"}
          /\ helper'[a].pc \in {"Restore", "Record"}
          /\ helper'[a].pc = "Restore" => installed' = "None"
          /\ \A b \in Attempts \ {a} : helper'[b] = helper[b]
      <3>1. CASE installed' = "None" /\ Goes(a, "Restore")
        BY <3>1, <1>h
      <3>2. CASE installed' \in {installed, "Partial"} /\ Gives(a, helper[a].cause, TRUE, "Record")
        <4>1. Gives(a, helper[a].cause, TRUE, "Record")
          BY <3>2
        <4>2. helper'[a].pc = "Record" /\ \A b \in Attempts \ {a} : helper'[b] = helper[b]
          BY ONLY <4>1, <1>i
        <4>. QED  BY ONLY <3>2, <4>2
      <3>. QED  BY <1>4, <3>1, <3>2 DEF Withdraw
    <2>3. CASE \E c \in Attempts : Stuck(c)
      <3>1. PICK c \in Attempts : Stuck(c)
        BY <2>3
      <3>2. Kept'
        BY <3>1, <2>1, <2>2, <1>s DEF Stuck
      <3>3. installed' # installed => Replacement!Withdraw(c)
        BY <2>1, <2>2, <3>1 DEF Replacement!Withdraw, Replacement!Usable, Stuck, Usable
      <3>. QED  BY <3>2, <3>3, <2>1 DEF Replacement!Next
    <2>4. CASE backup[a] \in Usable
      <3>1. installed' # installed => Replacement!Withdraw(a)
        BY <2>1, <2>2, <2>4 DEF Replacement!Withdraw, Replacement!Usable, Usable
      <3>2. ASSUME NEW c \in Attempts, Stuck(c) PROVE Stuck(c)'
        BY <3>2, <2>1, <2>2 DEF Stuck
      <3>3. helper'[a].pc = "Record" => Stuck(a)'
        BY <2>1, <2>4 DEF Stuck
      <3>4. ~Discarding(a)'
        BY <2>2 DEF Discarding
      <3>5. Kept'
        BY <2>1, <2>2, <2>4, <3>2, <3>3, <3>4, <1>t DEF Kept, Discarding
      <3>. QED  BY <3>1, <3>5, <2>1 DEF Replacement!Next
    <2>. QED  BY <2>1, <2>3, <2>4, <1>t DEF Kept
  <1>5. CASE Restore(a)
    <2>1. CASE /\ installed = "None" /\ installed' = backup[a]
               /\ backup' = [backup EXCEPT ![a] = "None"] /\ Goes(a, "Resume")
      <3>1. Replacement!Restore(a)
        BY <2>1 DEF Replacement!Restore
      <3>2. /\ backup'[a] = "None" /\ helper'[a].pc = "Resume" /\ helper[a].pc = "Restore"
            /\ \A b \in Attempts \ {a} : helper'[b] = helper[b] /\ backup'[b] = backup[b]
        BY <2>1, <1>5, <1>h, <1>t DEF Restore
      <3>3. CASE \E c \in Attempts : Stuck(c)
        <4>1. PICK c \in Attempts : Stuck(c)
          BY <3>3
        <4>2. c # a
          BY <4>1, <3>2 DEF Stuck
        <4>3. Kept'
          BY <4>1, <4>2, <3>2, <1>s
        <4>. QED  BY <4>3, <3>1 DEF Replacement!Next
      <3>4. CASE backup[a] \in Usable
        <4>1. installed' \in Usable
          BY <2>1, <3>4
        <4>2. ASSUME NEW c \in Attempts, Stuck(c) PROVE Stuck(c)'
          BY <4>2, <3>2 DEF Stuck
        <4>. QED  BY <4>1, <4>2, <3>1, <3>2, <1>t, <1>u DEF Kept, Replacement!Next
      <3>5. backup[a] \in Usable \/ \E c \in Attempts : Stuck(c)
        BY <3>2, <1>t DEF Kept
      <3>. QED  BY <3>1, <3>3, <3>4, <3>5 DEF Replacement!Next
    <2>2. CASE Gives(a, helper[a].cause, TRUE, "Record") /\ UNCHANGED <<installed, backup>>
      <3>1. helper'[a].pc = "Record" /\ \A b \in Attempts \ {a} : helper'[b] = helper[b]
        BY ONLY <2>2, <1>i
      <3>. QED  BY <3>1, <2>2, <1>5, <1>t, KeptInPlace DEF Restore
    <2>. QED  BY <1>5, <2>1, <2>2 DEF Restore
  <1>6. CASE DiscardBackup(a)
    <2>1. /\ helper[a].pc = "Discard" /\ UNCHANGED installed
          /\ \E left \in {backup[a], "None", "Partial"} : backup' = [backup EXCEPT ![a] = left]
      BY <1>6 DEF DiscardBackup
    <2>2. /\ helper'[a].pc \in {"Done", "Record"}
          /\ \A b \in Attempts \ {a} : helper'[b] = helper[b]
      <3>1. CASE Goes(a, "Done")
        BY <3>1, <1>h
      <3>2. CASE Gives(a, "None", TRUE, "Record")
        BY ONLY <3>2, <1>i
      <3>. QED  BY <1>6, <3>1, <3>2 DEF DiscardBackup
    <2>3. \A b \in Attempts \ {a} : backup'[b] = backup[b]
      BY <2>1, <1>t
    <2>4. \/ installed \in Usable
          \/ \E b \in Attempts \ {a} : backup[b] \in Usable /\ ~Discarding(b)
      BY <2>1, <1>t DEF Kept, Discarding
    <2>5. ASSUME NEW c \in Attempts, Stuck(c) PROVE Stuck(c)'
      BY <2>1, <2>2, <2>3, <2>5 DEF Stuck
    <2>6. Kept'
      BY <2>1, <2>2, <2>3, <2>4, <2>5, <1>t DEF Kept, Discarding
    <2>7. Replacement!Discard(a) \/ UNCHANGED <<installed, backup>>
      <3>1. PICK left \in {backup[a], "None", "Partial"} : backup' = [backup EXCEPT ![a] = left]
        BY <2>1
      <3>2. CASE left = backup[a]
        <4>1. backup' = backup
          BY <3>1, <3>2, <1>t
        <4>. QED  BY <4>1, <2>1
      <3>3. CASE left \in {"None", "Partial"}
        BY <3>1, <3>3, <2>1, <2>4 DEF Replacement!Discard, Replacement!Usable, Usable
      <3>. QED  BY <3>2, <3>3
    <2>. QED  BY <2>6, <2>7 DEF Replacement!Next
  <1>. QED
    BY <1>1, <1>2, <1>3, <1>4, <1>5, <1>6 DEF ApplyPreparedApplication

-----------------------------------------------------------------------------
LEMMA EveryStep ==
  ASSUME Inv, [Next]_vars
  PROVE  Inv' /\ [Replacement!Next]_(Replacement!vars)
  <1>1. CASE Launching \/ Deciding \/ Background \/ ReportPreparation
    BY <1>1, TypesOfApplication, HandoverOfApplication, KeptOfApplication
    DEF Inv, Replacement!vars
  <1>2. ASSUME NEW a \in Attempts,
               ApplyPreparedApplication(a) \/ (Crash(a) /\ UNCHANGED <<work, told>>)
        PROVE  Inv' /\ [Replacement!Next]_(Replacement!vars)
    <2>1. Types'  BY <1>2, TypesOfHelper DEF Inv
    <2>2. Handover'  BY <1>2, HandoverOfHelper
    <2>3. Kept' /\ (Replacement!Next \/ UNCHANGED <<installed, backup>>)
      BY <1>2, KeptOfHelper
    <2>. QED  BY <2>1, <2>2, <2>3 DEF Inv, Replacement!vars
  <1>3. ASSUME UNCHANGED vars PROVE Inv' /\ [Replacement!Next]_(Replacement!vars)
    BY <1>3 DEF Inv, Types, Handover, Kept, Alive, Running, ParentGone, Stuck, Discarding,
                vars, disk, Replacement!vars
  <1>4. CASE Next
    <2>1. \/ Launching \/ Deciding \/ Background \/ ReportPreparation
          \/ \E a \in Attempts : ApplyPreparedApplication(a) \/ (Crash(a) /\ UNCHANGED <<work, told>>)
      BY <1>4 DEF Next
    <2>2. CASE \E a \in Attempts : ApplyPreparedApplication(a) \/ (Crash(a) /\ UNCHANGED <<work, told>>)
      <3>1. PICK a \in Attempts : ApplyPreparedApplication(a) \/ (Crash(a) /\ UNCHANGED <<work, told>>)
        BY <2>2
      <3>. QED  BY <3>1, <1>2
    <2>. QED  BY <2>1, <2>2, <1>1
  <1>. QED  BY <1>3, <1>4

(* The inductive invariant of the update: types, who may write which copy at *)
(* which step, and where a copy that can be started is kept.                 *)
THEOREM InvAlways == Spec => []Inv
  <1>1. Init => Inv  BY InitiallyInv
  <1>2. Inv /\ [Next]_vars => Inv'  BY EveryStep
  <1>. QED  BY <1>1, <1>2, PTL DEF Spec

(* Refinement: whatever fails, dies or is started meanwhile, the replacement *)
(* of the application is the one Installation allows (helper.go,             *)
(* applyPreparedApplication).                                                *)
THEOREM InstallationIsAlwaysKept == Spec => InstallationIsKept
  <1>1. Init => Replacement!Init
    BY DEF Init, Replacement!Init, Attempts
  <1>2. Inv /\ [Next]_vars => [Replacement!Next]_(Replacement!vars)
    BY EveryStep
  <1>. QED  BY <1>1, <1>2, InvAlways, PTL DEF Spec, InstallationIsKept, Replacement!Spec

(* What Installation promises, of the update itself: at every moment, with   *)
(* any number of launches and helpers, the installed unit or one set aside   *)
(* can be started (helper.go, applyPreparedApplication).                     *)
THEOREM ApplicationAlwaysSurvives == Spec => []Replacement!ApplicationSurvives
  <1>1. Inv => Replacement!ApplicationSurvives
    BY DEF Inv, Kept, Replacement!ApplicationSurvives, Replacement!Usable, Usable
  <1>. QED  BY <1>1, InvAlways, PTL

(* What the Overseer is asked to restart into, and what a helper is about to *)
(* put in place, is a complete unit (manager.go, completePreparation).       *)
THEOREM ReadyUnitIsAlwaysComplete == Spec => []ReadyUnitIsComplete
  <1>1. Inv => ReadyUnitIsComplete
    BY DEF Inv, Handover, ReadyUnitIsComplete
  <1>. QED  BY <1>1, InvAlways, PTL

(* A helper touches nothing while the application that started it runs       *)
(* (helper.go, waitForParent).                                               *)
THEOREM ReplacementAlwaysWaits == Spec => []ReplacementWaitsForExit
  <1>1. Inv => ReplacementWaitsForExit
    BY DEF Inv, Handover, ReplacementWaitsForExit, Working, ParentGone, Ended
  <1>. QED  BY <1>1, InvAlways, PTL

(* Both: whatever is put in place is complete, and nothing runs from there.  *)
THEOREM ReplacementAlwaysSafe == Spec => []ReplacementIsSafe
  <1>1. ReadyUnitIsComplete /\ ReplacementWaitsForExit => ReplacementIsSafe
    BY DEF ReplacementIsSafe
  <1>. QED  BY <1>1, ReadyUnitIsAlwaysComplete, ReplacementAlwaysWaits, PTL

-----------------------------------------------------------------------------
(* The manager.  That a launch's outcome stands needs Handover, which has   *)
(* the preparing states for as long as a preparation is at work, and that   *)
(* a launch which has not read the record yet has done nothing else.        *)
Unread == process.phase = "Starting" => manager.state = "Idle"

LEMMA UnreadStep == Inv /\ Unread /\ [Next]_vars => Unread'
  <1>. SUFFICES ASSUME Inv, Unread, [Next]_vars  PROVE Unread'
    OBVIOUS
  <1>. USE DEF Unread
  <1>1. ASSUME NEW by, Started(by)  PROVE Unread'
    BY <1>1 DEF Started, IdleManager
  <1>2. ASSUME \E phase \in Phases \ {"Starting"} : process' = [process EXCEPT !.phase = phase]
        PROVE  Unread'
    BY <1>2, PhaseAfter DEF Inv
  <1>3. ASSUME Launching  PROVE Unread'
    BY <1>1, <1>2, <1>3
    DEF Launching, LaunchByHand, ReadRecovery, RecordIsInert, RemoveRecovery, Quit, Exit, Phases
  <1>4. ASSUME Deciding \/ Background \/ ReportPreparation  PROVE Unread'
    <2>1. process.phase # "Starting"
      BY <1>4 DEF Deciding, Background, ReportPreparation, Listening, Status, DeferOffer, AcceptOffer,
         ApproveRestart, RunCheck, DownloadEnds, StageUnit, CompletePreparation, WriteApplying,
         StartHelper, Running
    <2>2. process' = process \/ process' = [process EXCEPT !.phase = "Quitting"]
      BY <1>4 DEF Deciding, Background, ReportPreparation, Status, DeferOffer, AcceptOffer,
         ApproveRestart, RunCheck, DownloadEnds, StageUnit, CompletePreparation, WriteApplying,
         StartHelper
    <2>. QED  BY <1>2, <2>1, <2>2 DEF Phases
  <1>5. ASSUME NEW a \in Attempts, ApplyPreparedApplication(a) \/ Crash(a)  PROVE Unread'
    BY <1>1, <1>5 DEF ApplyPreparedApplication, WaitEnds, WaitTimesOut, SetAside, Promote, Relaunch,
       Withdraw, Restore, Resume, RecordFailure, MarkApplied, DiscardBackup, Crash
  <1>6. CASE UNCHANGED vars  BY <1>6 DEF vars
  <1>. QED  BY <1>3, <1>4, <1>5, <1>6 DEF Next

(* What one step of a launch may do to its manager. *)
Stands ==
  /\ manager.state \notin Preparing \cup {"Available"} => manager'.state \notin Preparing
  /\ manager.state \in {"Failed", "Deferred", "Current"} => manager' = manager
  /\ manager'.state # manager.state /\ process.phase # "Starting"
       => manager'.revision > manager.revision

(* A transition takes the next revision and goes where it says. *)
LEMMA TransitionTakesRevision ==
  ASSUME NEW m \in Managers, NEW s, Transition(m, s)
  PROVE  manager'.state = s /\ manager'.revision = m.revision + 1
  BY DEF Transition, Managers

LEMMA OutcomeStep ==
  ASSUME Inv, Unread, [Next]_vars, process'.launch = process.launch
  PROVE  Stands
  <1>. USE DEF Stands
  <1>m. manager \in Managers /\ manager.revision \in Nat
    BY DEF Inv, Types, Managers
  <1>p. Preparing = {"Downloading", "Verifying", "Staging"}
    BY DEF Preparing
  <1>0. ASSUME UNCHANGED manager  PROVE Stands
    BY <1>0
  <1>1. ASSUME NEW m \in Managers, NEW s, Transition(m, s), m.revision = manager.revision,
               manager.state \notin {"Failed", "Deferred", "Current"},
               s \notin Preparing \/ manager.state \in Preparing \cup {"Available"}
        PROVE  Stands
    BY <1>m, <1>1, TransitionTakesRevision
  <1>2. ASSUME NEW stage \in Stages, Fail(manager, stage),
               manager.state \notin {"Failed", "Deferred", "Current"}
        PROVE  Stands
    <2>1. [manager EXCEPT !.failure = stage, !.operation = FALSE] \in Managers
      BY <1>m DEF Managers
    <2>2. [manager EXCEPT !.failure = stage, !.operation = FALSE].revision = manager.revision
      BY <1>m DEF Managers
    <2>. QED  BY <1>1, <1>2, <1>p, <2>1, <2>2 DEF Fail
  <1>3. ASSUME NEW m \in Managers, manager' = m, m.state = manager.state,
               manager.state \notin {"Failed", "Deferred", "Current"}
        PROVE  Stands
    BY <1>3
  <1>4. ASSUME NEW by, Started(by)  PROVE Stands
    <2>1. process'.launch # process.launch \/ manager' = manager
      BY <1>4 DEF Started, Inv, Types, Processes
    <2>. QED  BY <1>0, <2>1
  <1>5. ASSUME Launching  PROVE Stands
    <2>1. CASE ReadRecovery
      <3>1. manager' = manager \/ manager'.state = "Failed"
        BY <2>1 DEF ReadRecovery, RecordIsInert, FailedManager, IdleManager
      <3>2. process.phase = "Starting" /\ manager.state = "Idle"
        BY <2>1 DEF ReadRecovery, Unread
      <3>. QED  BY <1>0, <1>p, <3>1, <3>2
    <2>. QED
      BY <1>0, <1>4, <1>5, <2>1 DEF Launching, LaunchByHand, RemoveRecovery, Quit, Exit
  <1>6. ASSUME NEW s \in Preparing, NEW p \in Nat, Reported(s, p)  PROVE Stands
    <2>1. [manager EXCEPT !.progress = p] \in Managers
      BY <1>m DEF Managers
    <2>2. [manager EXCEPT !.progress = p].revision = manager.revision
      BY <1>m DEF Managers
    <2>. QED  BY <1>0, <1>1, <1>6, <1>p, <2>1, <2>2 DEF Reported, Advances
  <1>7. ASSUME Deciding  PROVE Stands
    <2>1. CASE Status
      BY <1>0, <1>1, <1>m, <1>p, <2>1 DEF Status
    <2>2. CASE DeferOffer
      BY <1>1, <1>m, <1>p, <2>2 DEF DeferOffer
    <2>3. CASE AcceptOffer
      <3>. DEFINE m == [manager EXCEPT !.operation = TRUE, !.prepared = FALSE, !.progress = 0,
                                       !.failure = "None", !.accepted = TRUE]
      <3>1. m \in Managers /\ m.revision = manager.revision
        BY <1>m DEF Managers, Stages
      <3>2. Transition(m, "Downloading") /\ manager.state = "Available"
        BY <2>3 DEF AcceptOffer
      <3>. HIDE DEF m
      <3>. QED  BY <1>1, <3>1, <3>2
    <2>4. CASE ApproveRestart
      <3>. DEFINE m == [manager EXCEPT !.operation = TRUE]
      <3>1. m \in Managers /\ m.revision = manager.revision
        BY <1>m DEF Managers
      <3>2. Transition(m, "Applying") /\ manager.state = "ReadyToRestart"
        BY <2>4 DEF ApproveRestart
      <3>. HIDE DEF m
      <3>. QED  BY <1>1, <1>p, <3>1, <3>2
    <2>. QED  BY <1>7, <2>1, <2>2, <2>3, <2>4 DEF Deciding
  <1>8. ASSUME Background  PROVE Stands
    <2>1. CASE RunCheck
      <3>1. CheckOutcomes \subseteq {"Failed", "Current", "Available"}
        BY CheckAnswers DEF Inv, Types, Processes
      <3>2. "Check" \in Stages
        BY DEF Stages
      <3>. QED  BY <1>1, <1>2, <1>m, <1>p, <2>1, <3>1, <3>2 DEF RunCheck
    <2>2. CASE DownloadEnds
      <3>1. manager.progress \in Nat
        BY <1>m DEF Managers
      <3>. QED  BY <1>0, <1>6, <1>p, <2>2, <3>1 DEF DownloadEnds, DownloadFails
    <2>3. CASE StageUnit
      BY <1>0, <2>3 DEF StageUnit
    <2>4. CASE CompletePreparation
      <3>. DEFINE m == [manager EXCEPT !.operation = FALSE, !.prepared = TRUE]
      <3>1. m \in Managers /\ m.revision = manager.revision
        BY <1>m DEF Managers
      <3>2. manager.state \in Preparing
        BY <2>4 DEF CompletePreparation, Inv, Handover
      <3>3. PreparationStage \in Stages
        BY DEF PreparationStage, Stages
      <3>4. Transition(m, "ReadyToRestart") \/ Fail(manager, PreparationStage)
        BY <2>4, <3>2 DEF CompletePreparation
      <3>. HIDE DEF m
      <3>. QED  BY <1>1, <1>2, <1>p, <3>1, <3>2, <3>3, <3>4
    <2>5. CASE WriteApplying
      <3>1. manager.state = "Applying" /\ "Apply" \in Stages
        BY <2>5 DEF WriteApplying, Inv, Handover, Stages
      <3>. QED  BY <1>0, <1>2, <2>5, <3>1 DEF WriteApplying, RestartFails
    <2>6. CASE StartHelper
      <3>1. manager.state = "Applying" /\ "Apply" \in Stages
        BY <2>6 DEF StartHelper, Inv, Handover, Stages
      <3>2. /\ [manager EXCEPT !.operation = FALSE] \in Managers
            /\ [manager EXCEPT !.operation = FALSE].state = manager.state
        BY <1>m DEF Managers
      <3>. QED  BY <1>2, <1>3, <2>6, <3>1, <3>2 DEF StartHelper, RestartFails
    <2>. QED  BY <1>8, <2>1, <2>2, <2>3, <2>4, <2>5, <2>6 DEF Background
  <1>9. ASSUME ReportPreparation  PROVE Stands
    BY <1>6, <1>9, BoundsAssumption DEF ReportPreparation, Listening, Preparing
  <1>10. ASSUME NEW a \in Attempts, ApplyPreparedApplication(a) \/ Crash(a)  PROVE Stands
    BY <1>0, <1>4, <1>10 DEF ApplyPreparedApplication, WaitEnds, WaitTimesOut, SetAside, Promote,
       Relaunch, Withdraw, Restore, Resume, RecordFailure, MarkApplied, DiscardBackup, Crash
  <1>11. CASE UNCHANGED vars  BY <1>0, <1>11 DEF vars
  <1>. QED  BY <1>5, <1>7, <1>8, <1>9, <1>10, <1>11 DEF Next

(* A late progress event, a second answer of the window or a restart that     *)
(* fails never reopens an outcome (manager.go, reportPreparation,             *)
(* transitionLocked).                                                         *)
THEOREM OutcomesAlwaysStand == Spec => OutcomeStands
  <1>1. Init => Unread
    BY DEF Init, Unread
  <1>2. Inv /\ Unread /\ [Next]_vars => [process'.launch = process.launch => Stands]_vars
    BY OutcomeStep
  <1>. QED  BY <1>1, <1>2, InvAlways, UnreadStep, PTL DEF Spec, OutcomeStands, Stands

-----------------------------------------------------------------------------
(* What a failure leaves: an application, and the news of it.                *)

(* One step of a helper, row by row: where it goes, what it knows of a       *)
(* failure, and what becomes of the installed unit.                          *)
Passes(a, from, to) ==
  /\ helper[a].pc = from
  /\ helper'[a].pc = to /\ helper'[a].cause = helper[a].cause /\ helper'[a].lost = helper[a].lost
Stops(a, from, to, cause, lost) ==
  /\ helper[a].pc = from
  /\ helper'[a].pc = to /\ helper'[a].cause = cause /\ helper'[a].lost = lost

Rows(a) ==
  \/ /\ \/ Passes(a, "Waiting", "SetAside") \/ Stops(a, "Waiting", "Record", "Apply", FALSE)
        \/ Stops(a, "SetAside", "Record", "Apply", FALSE) \/ Stops(a, "Promote", "Restore", "Apply", FALSE)
        \/ Stops(a, "Relaunch", "Withdraw", "Relaunch", FALSE)
        \/ Stops(a, "Restore", "Record", helper[a].cause, TRUE)
        \/ Stops(a, "Resume", "Record", helper[a].cause, TRUE)
        \/ Passes(a, "Record", "Done") \/ Passes(a, "MarkApplied", "Discard")
        \/ Passes(a, "MarkApplied", "Done") \/ Passes(a, "Discard", "Done")
        \/ Stops(a, "Discard", "Record", "None", TRUE)
        \/ Working(a) /\ Passes(a, helper[a].pc, "Crashed")
     /\ installed' = installed
  \/ Passes(a, "SetAside", "Promote")
  \/ Passes(a, "Promote", "Relaunch") /\ installed' = staged[a]
  \/ Passes(a, "Relaunch", "MarkApplied") /\ installed' = installed /\ installed \in Usable
  \/ Passes(a, "Withdraw", "Restore") \/ Stops(a, "Withdraw", "Record", helper[a].cause, TRUE)
  \/ Passes(a, "Restore", "Resume")
  \/ Passes(a, "Resume", "Record") /\ installed' = installed /\ installed \in Usable

(* The record it writes, and the process it starts. *)
Leaves(a) ==
  /\ \/ record' = record
     \/ helper[a].pc = "Record" /\ record' = RestoredFailure(a)
     \/ Passes(a, "MarkApplied", "Discard") /\ record' = Applied(a)
  /\ UNCHANGED <<process, manager, asked>> \/ (Started(a) /\ UNCHANGED <<installed, record>>)
  /\ UNCHANGED <<work, told>>
  /\ \A b \in Attempts \ {a} : helper'[b] = helper[b]

LEMMA GoesStops ==
  ASSUME Types, NEW a \in Attempts
  PROVE  /\ \A from, to : At(a, from) /\ Goes(a, to) => Passes(a, from, to)
         /\ \A from, to, cause, lost : At(a, from) /\ Gives(a, cause, lost, to) => Stops(a, from, to, cause, lost)
         /\ \A to : Goes(a, to) => \A b \in Attempts \ {a} : helper'[b] = helper[b]
         /\ \A cause, lost, to : Gives(a, cause, lost, to) => \A b \in Attempts \ {a} : helper'[b] = helper[b]
  BY DEF Types, Helpers, At, Goes, Gives, Passes, Stops

LEMMA HelperMoves ==
  ASSUME Types, NEW a \in Attempts,
         \/ ApplyPreparedApplication(a)
         \/ Crash(a) /\ UNCHANGED <<work, told>>
  PROVE  Rows(a) /\ Leaves(a)
  <1>1. UNCHANGED <<work, told>>
    BY DEF ApplyPreparedApplication
  <1>2. CASE WaitEnds(a)
    BY <1>1, <1>2, GoesStops DEF WaitEnds, Rows, Leaves, disk
  <1>3. CASE WaitTimesOut(a)
    BY <1>1, <1>3, GoesStops DEF WaitTimesOut, Rows, Leaves, disk
  <1>4. CASE SetAside(a)
    <2>1. /\ \/ Passes(a, "SetAside", "Promote")
             \/ Stops(a, "SetAside", "Record", "Apply", FALSE) /\ installed' = installed
          /\ record' = record
          /\ UNCHANGED <<process, manager, asked>>
          /\ \A b \in Attempts \ {a} : helper'[b] = helper[b]
      BY <1>4, GoesStops DEF SetAside
    <2>2. Rows(a)  BY <2>1 DEF Rows, Passes
    <2>3. Leaves(a)  BY <1>1, <2>1 DEF Leaves, Passes
    <2>. QED  BY <2>2, <2>3
  <1>5. CASE Promote(a)
    <2>1. /\ \/ Passes(a, "Promote", "Relaunch") /\ installed' = staged[a]
             \/ Stops(a, "Promote", "Restore", "Apply", FALSE) /\ installed' = installed
          /\ record' = record
          /\ UNCHANGED <<process, manager, asked>>
          /\ \A b \in Attempts \ {a} : helper'[b] = helper[b]
      BY <1>5, GoesStops DEF Promote
    <2>2. Rows(a)  BY <2>1 DEF Rows, Passes
    <2>3. Leaves(a)  BY <1>1, <2>1 DEF Leaves, Passes
    <2>. QED  BY <2>2, <2>3
  <1>6. CASE Relaunch(a)
    BY <1>1, <1>6, GoesStops DEF Relaunch, Rows, Leaves, disk
  <1>7. CASE Withdraw(a)
    <2>1. /\ \/ Passes(a, "Withdraw", "Restore")
             \/ Stops(a, "Withdraw", "Record", helper[a].cause, TRUE)
          /\ record' = record
          /\ UNCHANGED <<process, manager, asked>>
          /\ \A b \in Attempts \ {a} : helper'[b] = helper[b]
      BY <1>7, GoesStops DEF Withdraw
    <2>2. Rows(a)  BY <2>1 DEF Rows, Passes
    <2>3. Leaves(a)  BY <1>1, <2>1 DEF Leaves, Passes
    <2>. QED  BY <2>2, <2>3
  <1>8. CASE Restore(a)
    <2>1. /\ \/ Passes(a, "Restore", "Resume")
             \/ Stops(a, "Restore", "Record", helper[a].cause, TRUE) /\ installed' = installed
          /\ record' = record
          /\ UNCHANGED <<process, manager, asked>>
          /\ \A b \in Attempts \ {a} : helper'[b] = helper[b]
      BY <1>8, GoesStops DEF Restore
    <2>2. Rows(a)  BY <2>1 DEF Rows, Passes
    <2>3. Leaves(a)  BY <1>1, <2>1 DEF Leaves, Passes
    <2>. QED  BY <2>2, <2>3
  <1>9. CASE Resume(a)
    BY <1>1, <1>9, GoesStops DEF Resume, Rows, Leaves, disk
  <1>10. CASE RecordFailure(a)
    <2>1. /\ Passes(a, "Record", "Done") /\ installed' = installed
          /\ record' = record \/ record' = RestoredFailure(a)
          /\ UNCHANGED <<process, manager, asked>>
          /\ \A b \in Attempts \ {a} : helper'[b] = helper[b]
      BY <1>10, GoesStops DEF RecordFailure
    <2>2. Rows(a)  BY <2>1 DEF Rows, Passes
    <2>3. Leaves(a)  BY <1>1, <2>1 DEF Leaves, Passes
    <2>. QED  BY <2>2, <2>3
  <1>11. CASE MarkApplied(a)
    <2>1. /\ /\ Passes(a, "MarkApplied", "Discard") \/ Passes(a, "MarkApplied", "Done")
             /\ installed' = installed
          /\ \/ record' = record
             \/ Passes(a, "MarkApplied", "Discard") /\ record' = Applied(a)
          /\ UNCHANGED <<process, manager, asked>>
          /\ \A b \in Attempts \ {a} : helper'[b] = helper[b]
      BY <1>11, GoesStops DEF MarkApplied
    <2>2. Rows(a)  BY <2>1 DEF Rows, Passes
    <2>3. Leaves(a)  BY <1>1, <2>1 DEF Leaves, Passes
    <2>. QED  BY <2>2, <2>3
  <1>12. CASE DiscardBackup(a)
    BY <1>1, <1>12, GoesStops DEF DiscardBackup, Rows, Leaves
  <1>13. CASE Crash(a)
    <2>1. Passes(a, helper[a].pc, "Crashed") /\ \A b \in Attempts \ {a} : helper'[b] = helper[b]
      BY <1>13, GoesStops DEF Crash, At
    <2>. QED  BY <1>1, <1>13, <2>1 DEF Crash, Rows, Leaves, disk
  <1>. QED
    BY <1>2, <1>3, <1>4, <1>5, <1>6, <1>7, <1>8, <1>9, <1>10, <1>11, <1>12, <1>13
    DEF ApplyPreparedApplication

(* The application starts at most its own helper and moves no unit. *)
LEMMA ApplicationStarts ==
  ASSUME Inv, Launching \/ Deciding \/ Background \/ ReportPreparation
  PROVE  /\ installed' = installed
         /\ \/ UNCHANGED helper
            \/ /\ work = "Journaled" /\ process.launch \in Attempts
               /\ Passes(process.launch, "None", "Waiting")
               /\ \A b \in Attempts \ {process.launch} : helper'[b] = helper[b]
  <1>1. UNCHANGED installed
    BY KeptOfApplication
  <1>2. \/ UNCHANGED helper
        \/ work = "Journaled" /\ helper' = [helper EXCEPT ![process.launch].pc = "Waiting"]
    BY DEF Launching, LaunchByHand, ReadRecovery, RecordIsInert, RemoveRecovery, Quit, Exit, Deciding, Status,
           DeferOffer, AcceptOffer, ApproveRestart, Background, RunCheck, DownloadEnds, DownloadFails, StageUnit,
           CompletePreparation, WriteApplying, StartHelper, ReportPreparation, Listening, disk
  <1>3. CASE work = "Journaled" /\ helper' = [helper EXCEPT ![process.launch].pc = "Waiting"]
    <2>1. process.launch \in Attempts /\ helper[process.launch].pc = "None"
      BY <1>3 DEF Inv, Handover, Running, Alive
    <2>2. Goes(process.launch, "Waiting") /\ At(process.launch, "None")
      BY <1>3, <2>1 DEF Goes, At
    <2>. QED  BY <1>1, <1>3, <2>1, <2>2, GoesStops DEF Inv
  <1>. QED  BY <1>1, <1>2, <1>3

(* A helper that has lost nothing and is at none of these steps has the     *)
(* installation between its hands.                                          *)
Calm == {"None", "Waiting", "SetAside", "Relaunch", "MarkApplied", "Discard", "Record", "Done"}

Left ==
  /\ (\A b \in Attempts : ~helper[b].lost /\ helper[b].pc \in Calm) => installed \in Usable
  /\ \A b \in Attempts : helper[b].lost => helper[b].pc \in {"Record", "Done", "Crashed"}

LEMMA LeftStep == Inv /\ Left /\ [Next]_vars => Left'
  <1>. SUFFICES ASSUME Inv, Left, [Next]_vars  PROVE Left'
    OBVIOUS
  <1>1. CASE Launching \/ Deciding \/ Background \/ ReportPreparation
    BY <1>1, ApplicationStarts DEF Left, Calm, Passes
  <1>2. ASSUME NEW a \in Attempts,
               ApplyPreparedApplication(a) \/ (Crash(a) /\ UNCHANGED <<work, told>>)
        PROVE  Left'
    <2>1. Rows(a) /\ \A b \in Attempts \ {a} : helper'[b] = helper[b]
      BY <1>2, HelperMoves DEF Inv, Leaves
    <2>2. helper[a].pc = "Promote" => staged[a] \in Usable
      BY DEF Inv, Handover, Usable
    <2>3. helper'[a].lost => helper'[a].pc \in {"Record", "Done", "Crashed"}
      BY <2>1 DEF Left, Rows, Passes, Stops
    <2>4. ~helper'[a].lost /\ helper'[a].pc \in Calm =>
            \/ installed' \in Usable
            \/ installed' = installed /\ ~helper[a].lost /\ helper[a].pc \in Calm
      BY <2>1, <2>2 DEF Left, Rows, Passes, Stops, Calm
    <2>. QED  BY <2>1, <2>3, <2>4 DEF Left
  <1>3. CASE UNCHANGED vars
    BY <1>3 DEF vars, disk, Left
  <1>. QED  BY <1>1, <1>2, <1>3 DEF Next

(* A failure after which the user is told to go on with this version leaves  *)
(* a version to start, also when helpers overlap (helper.go,                 *)
(* failedHelperRecovery).                                                    *)
THEOREM FailureAlwaysLeavesAnApplication == Spec => []FailureLeavesAnApplication
  <1>1. Init => Left
    BY DEF Init, Left, Usable, NoHelper
  <1>2. Left => FailureLeavesAnApplication
    BY DEF Left, FailureLeavesAnApplication, At, Calm
  <1>. QED  BY <1>1, <1>2, InvAlways, LeftStep, PTL DEF Spec

-----------------------------------------------------------------------------
(* The news of a failure.  Without overlapping helpers only one is at work   *)
(* at a time, and while no launch has taken up the news nothing can take the *)
(* record away: a launch that finds it holds the news for its window, and    *)
(* one that runs the new version is offered nothing to replace it by.        *)

(* "New" is the last version that was released. *)
NothingNewer == \A history \in Histories : Check(history, VersionOf("New"), Target) # "Available"

Offering == Preparing \cup {"Available", "Deferred", "ReadyToRestart", "Applying"}

(* The new version is installed and the attempt knows of no failure. *)
Settled(a) ==
  /\ helper[a].cause = "None" /\ installed = "New"
  /\ helper[a].pc \in {"Discard", "Record", "Done", "Crashed"}

OneAtWork ==
  /\ \A a, c \in Attempts : c < a /\ helper[a].pc # "None" => ~Working(c)
  /\ work \in {"Handover", "Journaled"} => \A a \in Attempts : ~Working(a)
  /\ work = "Journaled" => record.attempt = process.launch /\ record.state = "Applying"
  /\ \A a, c \in Attempts : record.attempt = a =>
       /\ c > a => helper[c].pc = "None"
       /\ Working(c) => c = a

NewIsContent == Alive /\ process.version = "New" => manager.state \notin Offering

Knows ==
  /\ record.state = "None" => record.attempt = 0
  /\ record.state = "Failed" => record.stage # "None"
  /\ \A a \in Attempts :
       /\ helper[a].pc \in {"None", "Waiting", "SetAside", "Promote", "Relaunch", "MarkApplied", "Discard"}
            => helper[a].cause = "None"
       /\ helper[a].pc \in {"Withdraw", "Restore", "Resume"} => helper[a].cause # "None"
       /\ helper[a].pc = "Record" => helper[a].lost \/ helper[a].cause # "None"
       /\ helper[a].pc \in {"Relaunch", "MarkApplied"} => installed = "New"

AppliedIsSettled == \A a \in Attempts : record.state = "Applied" /\ record.attempt = a => Settled(a)

(* What the running launch has taken up: the news it holds for its window,   *)
(* and the record it could not read, which is still there.                   *)
Holds ==
  /\ process.phase = "Starting" => manager.state = "Idle" /\ ~asked
  /\ \A a \in Attempts :
       /\ told[a] \in {"No", "Held", "Shown", "Illegible", "Lost"}
       /\ told[a] = "Held" =>
            process.phase \notin {"Off", "Starting"} /\ manager.state = "Failed" /\ ~asked
       /\ told[a] = "Illegible" => Running /\ record.attempt = a

(* What is known of an attempt whose news no launch has taken up. *)
Heard(a) ==
  helper[a].pc # "None" /\ told[a] = "No" =>
    /\ record.attempt = a \/ Settled(a)
    /\ \A c \in Attempts : c > a => helper[c].pc = "None"
    /\ Alive /\ process.launch > a =>
         process.version = "New" \/ (process.phase = "Starting" /\ record.attempt = a)
    /\ process.phase = "Clearing" => Settled(a)

News == OneAtWork /\ NewIsContent /\ Knows /\ AppliedIsSettled /\ Holds /\ \A a \in Attempts : Heard(a)

(* What a running application does to the record and to its helper. *)
Writes ==
  /\ Running
  /\ process'.launch = process.launch /\ process'.version = process.version
  /\ process'.phase \in {"Up", "Quitting"}
  /\ installed' = installed
  /\ \A a \in Attempts : told'[a] = "No" => told[a] = "No"
  /\ \/ UNCHANGED <<helper, record>> /\ (work' \in {"Handover", "Journaled"} => work' = work)
     \/ ApproveRestart
     \/ /\ work = "Handover" /\ record' = Applying(process.launch)
        /\ UNCHANGED helper
     \/ /\ work = "Journaled" /\ work' = "None" /\ record' = Failed(process.launch, "Apply")
        /\ UNCHANGED helper
     \/ /\ work = "Journaled" /\ work' = "None" /\ process.launch \in Attempts
        /\ Passes(process.launch, "None", "Waiting")
        /\ \A b \in Attempts \ {process.launch} : helper'[b] = helper[b]
        /\ UNCHANGED record

LEMMA ApplicationWrites ==
  ASSUME Inv, Launching \/ Deciding \/ Background \/ ReportPreparation
  PROVE  LaunchByHand \/ ReadRecovery \/ RemoveRecovery \/ Exit \/ Writes
  <1>p. /\ process \in Processes
        /\ LET q == [process EXCEPT !.phase = "Quitting"] IN
             q.launch = process.launch /\ q.version = process.version /\ q.phase = "Quitting"
    BY DEF Inv, Types, Processes
  <1>i. UNCHANGED installed
    BY KeptOfApplication
  <1>1. CASE Quit
    BY <1>1, <1>i, <1>p DEF Quit, Writes, Running, disk
  <1>2. CASE Deciding
    <2>1. /\ UNCHANGED <<process, record, helper>> /\ process.phase = "Up"
          /\ \A a \in Attempts : told'[a] = "No" => told[a] = "No"
      BY <1>2 DEF Deciding, Status, DeferOffer, AcceptOffer, ApproveRestart, disk
    <2>2. ApproveRestart \/ work' = work \/ work' \in {"Check", "Download"}
      BY <1>2 DEF Deciding, Status, DeferOffer, AcceptOffer
    <2>. QED  BY <1>i, <2>1, <2>2 DEF Writes, Running
  <1>3. CASE RunCheck \/ DownloadEnds \/ StageUnit \/ CompletePreparation \/ ReportPreparation
    <2>1. UNCHANGED <<process, record, helper, told>> /\ Running
      BY <1>3 DEF RunCheck, DownloadEnds, StageUnit, CompletePreparation, ReportPreparation,
         Listening, disk
    <2>2. work' = work \/ work' \in {"None", "Unprepared", "Copy", "Prepared"}
      BY <1>3 DEF RunCheck, DownloadEnds, DownloadFails, StageUnit, CompletePreparation,
         ReportPreparation
    <2>. QED  BY <1>i, <2>1, <2>2 DEF Writes, Running
  <1>4. CASE WriteApplying
    BY <1>4, <1>i DEF WriteApplying, RestartFails, Writes, Running
  <1>5. CASE StartHelper
    <2>1. CASE UNCHANGED helper
      <3>1. UNCHANGED <<process, told>> /\ work' = "None"
            /\ (record' = record \/ record' = Failed(process.launch, "Apply"))
        <4>1. process.launch \in Attempts /\ helper[process.launch].pc = "None"
          BY <1>5 DEF StartHelper, Inv, Handover, Running, Alive
        <4>2. helper' # [helper EXCEPT ![process.launch].pc = "Waiting"]
          <5>1. [helper EXCEPT ![process.launch].pc = "Waiting"][process.launch].pc = "Waiting"
            BY <4>1 DEF Inv, Types, Helpers
          <5>. QED  BY <2>1, <4>1, <5>1
        <4>. QED  BY <1>5, <4>2 DEF StartHelper, RestartFails
      <3>. QED  BY <1>5, <1>i, <2>1, <3>1 DEF Writes, StartHelper, Running
    <2>2. CASE ~UNCHANGED helper
      <3>1. /\ process' = [process EXCEPT !.phase = "Quitting"]
            /\ work' = "None" /\ UNCHANGED <<record, told>>
        BY <1>5, <2>2 DEF StartHelper, RestartFails
      <3>. QED  BY <1>5, <1>i, <1>p, <2>2, <3>1, ApplicationStarts DEF Writes, StartHelper
    <2>. QED  BY <2>1, <2>2
  <1>. QED  BY <1>1, <1>2, <1>3, <1>4, <1>5 DEF Launching, Background

(* A helper at work is the only one, and it is the one a record is about. *)
LEMMA OnlyWorker ==
  ASSUME Inv, News, NEW a \in Attempts, NEW e \in Attempts, Working(e),
         helper[a].pc # "None", told[a] = "No" \/ Working(a)
  PROVE  e = a
  <1>1. a \in Nat /\ e \in Nat
    BY BoundsAssumption DEF Attempts
  <1>2. ~(e < a)
    BY DEF News, OneAtWork
  <1>3. helper[e].pc # "None"
    BY DEF Working
  <1>4. ~(a < e)
    <2>1. told[a] = "No" => ~(a < e)
      BY <1>3 DEF News, Heard
    <2>2. Working(a) => ~(a < e)
      BY <1>3 DEF News, OneAtWork
    <2>. QED  BY <2>1, <2>2
  <1>. QED  BY <1>1, <1>2, <1>4

(* A helper that moves is at work, and one that works has been at work. *)
LEMMA RowsWork ==
  ASSUME NEW a \in Attempts, Rows(a)
  PROVE  Working(a) /\ helper'[a].pc # "None"
  BY DEF Rows, Passes, Stops, Working, Ended

LEMMA OneAtWorkStep ==
  ASSUME ~HelpersMayOverlap, Inv, News, [Next]_vars
  PROVE  OneAtWork'
  <1>. USE DEF OneAtWork
  <1>1. OneAtWork
    BY DEF News
  <1>r. \A a \in Attempts : a # 0
    BY BoundsAssumption DEF Attempts
  <1>2. CASE LaunchByHand \/ ReadRecovery \/ RemoveRecovery \/ Exit
    <2>1. UNCHANGED helper /\ (record' = record \/ record'.attempt = 0)
      BY <1>2 DEF LaunchByHand, ReadRecovery, RemoveRecovery, Exit, NoRecord, disk
    <2>2. work' \notin {"Handover", "Journaled"}
      BY <1>2 DEF LaunchByHand, ReadRecovery, RemoveRecovery, Exit, Inv, Handover, Running
    <2>. QED  BY <1>1, <1>r, <2>1, <2>2 DEF Working
  <1>3. CASE Writes
    <2>w. ASSUME work \in {"Handover", "Journaled"}, NEW c \in Attempts
          PROVE  /\ ~Working(c)
                 /\ \A a \in Attempts : a = process.launch /\ c > a => helper[c].pc = "None"
      BY <1>1, <2>w DEF Inv, Handover
    <2>1. CASE UNCHANGED <<helper, record>> /\ (work' \in {"Handover", "Journaled"} => work' = work)
      BY <1>1, <1>3, <2>1 DEF Working, Writes
    <2>2. CASE ApproveRestart
      <3>1. UNCHANGED <<helper, record>> /\ work' = "Handover" /\ \A a \in Attempts : ~Working(a)
        BY <2>2 DEF ApproveRestart, disk
      <3>. QED  BY <1>1, <3>1 DEF Working
    <2>3. CASE work = "Handover" /\ record' = Applying(process.launch) /\ UNCHANGED helper
      <3>1. record'.attempt = process.launch /\ record'.state = "Applying" /\ process'.launch = process.launch
        BY <1>3, <2>3 DEF Writes, Applying
      <3>. QED  BY <1>1, <2>3, <2>w, <3>1 DEF Working
    <2>4. CASE work = "Journaled" /\ work' = "None" /\ record' = Failed(process.launch, "Apply") /\ UNCHANGED helper
      <3>1. record'.attempt = process.launch
        BY <2>4 DEF Failed
      <3>. QED  BY <1>1, <2>4, <2>w, <3>1 DEF Working
    <2>5. CASE /\ work = "Journaled" /\ work' = "None" /\ process.launch \in Attempts
               /\ Passes(process.launch, "None", "Waiting")
               /\ \A b \in Attempts \ {process.launch} : helper'[b] = helper[b]
               /\ UNCHANGED record
      <3>1. \A b \in Attempts : b > process.launch => helper'[b].pc = "None"
        <4>1. process.launch \in Nat
          BY <2>5, BoundsAssumption DEF Attempts
        <4>. QED  BY <2>5, <4>1 DEF Inv, Handover
      <3>2. \A b \in Attempts \ {process.launch} : ~Working(b)'
        BY <1>1, <2>5 DEF Working
      <3>3. record'.attempt = process.launch
        BY <1>1, <2>5
      <3>. QED  BY <2>5, <3>1, <3>2, <3>3
    <2>. QED  BY <1>3, <2>1, <2>2, <2>3, <2>4, <2>5 DEF Writes
  <1>4. ASSUME NEW e \in Attempts, Rows(e), Leaves(e)  PROVE OneAtWork'
    <2>1. Working(e) /\ helper'[e].pc # "None" /\ helper[e].pc # "None"
      BY <1>4, RowsWork DEF Working
    <2>2. \A b \in Attempts \ {e} : helper'[b] = helper[b]
      BY <1>4 DEF Leaves
    <2>3. \A b \in Attempts : Working(b)' => Working(b)
      BY <2>1, <2>2 DEF Working
    <2>4. \A b \in Attempts : helper'[b].pc # "None" => helper[b].pc # "None"
      BY <2>1, <2>2
    <2>5. work' = work /\ work \notin {"Handover", "Journaled"}
      BY <1>1, <1>4, <2>1 DEF Leaves
    <2>6. record' = record \/ record'.attempt = e
      BY <1>4 DEF Leaves, RestoredFailure, Failed, Applied
    <2>7. ASSUME NEW c \in Attempts
          PROVE  (c > e => helper[c].pc = "None") /\ (Working(c) => c = e)
      <3>1. c \in Nat /\ e \in Nat
        BY BoundsAssumption DEF Attempts
      <3>2. Working(c) => helper[c].pc # "None"
        BY DEF Working
      <3>. QED  BY <1>1, <2>1, <3>1, <3>2
    <2>8. \A a, c \in Attempts : record'.attempt = a =>
            (c > a => helper'[c].pc = "None") /\ (Working(c)' => c = a)
      BY <1>1, <2>3, <2>4, <2>6, <2>7
    <2>. QED  BY <1>1, <2>3, <2>4, <2>5, <2>8
  <1>5. CASE UNCHANGED vars
    BY <1>1, <1>5 DEF vars, disk, Working
  <1>. QED  BY <1>2, <1>3, <1>4, <1>5, ApplicationWrites, HelperMoves DEF Next, Inv

(* A helper keeps what is settled, and settles what it calls applied. *)
LEMMA HelperSettles ==
  ASSUME Inv, News, NEW e \in Attempts, Rows(e), Leaves(e)
  PROVE  /\ Settled(e) => Settled(e)'
         /\ \/ record' = record \/ record' = RestoredFailure(e)
            \/ record' = Applied(e) /\ Settled(e)'
  <1>1. Settled(e) => Settled(e)'
    BY DEF Settled, Rows, Passes, Stops, Working, Ended
  <1>2. ASSUME Passes(e, "MarkApplied", "Discard")  PROVE Settled(e)'
    <2>1. helper[e].cause = "None" /\ installed = "New"
      BY <1>2 DEF Passes, News, Knows
    <2>2. installed' = installed
      BY <1>2 DEF Rows, Passes, Stops
    <2>. QED  BY <1>2, <2>1, <2>2 DEF Passes, Settled
  <1>. QED  BY <1>1, <1>2 DEF Leaves

LEMMA AppliedIsSettledStep ==
  ASSUME Inv, News, [Next]_vars
  PROVE  AppliedIsSettled'
  <1>. USE DEF AppliedIsSettled
  <1>1. AppliedIsSettled
    BY DEF News
  <1>2. CASE LaunchByHand \/ ReadRecovery \/ RemoveRecovery \/ Exit
    <2>1. UNCHANGED <<installed, helper>> /\ (record' = record \/ record'.state = "None")
      BY <1>2 DEF LaunchByHand, ReadRecovery, RemoveRecovery, Exit, NoRecord, disk
    <2>. QED  BY <1>1, <2>1 DEF Settled
  <1>3. CASE Writes
    <2>1. /\ record' = record \/ record'.state \in {"Applying", "Failed"}
          /\ installed' = installed
      BY <1>3 DEF Writes, ApproveRestart, Applying, Failed, disk
    <2>2. \A a \in Attempts : helper'[a] = helper[a] \/ helper[a].pc = "None"
      BY <1>3 DEF Writes, Passes, ApproveRestart
    <2>. QED  BY <1>1, <2>1, <2>2 DEF Settled
  <1>4. ASSUME NEW e \in Attempts, Rows(e), Leaves(e),
               NEW a \in Attempts, record'.state = "Applied", record'.attempt = a
        PROVE  Settled(a)'
    <2>1. record'= record \/ (a = e /\ Settled(e)')
      BY <1>4, HelperSettles DEF RestoredFailure, Failed, Applied
    <2>2. record' = record => a = e
      BY <1>4, RowsWork DEF News, OneAtWork
    <2>. QED  BY <1>1, <1>4, <2>1, <2>2, HelperSettles
  <1>5. CASE UNCHANGED vars
    BY <1>1, <1>5 DEF vars, disk, Settled
  <1>. QED  BY <1>2, <1>3, <1>4, <1>5, ApplicationWrites, HelperMoves DEF Next, Inv

(* What a launch has taken up it holds until it ends, its window asks or it  *)
(* writes its own record.                                                    *)
LEMMA HoldsStep ==
  ASSUME Inv, News, [Next]_vars
  PROVE  Holds'
  <1>. USE DEF Holds
  <1>1. /\ Holds /\ OneAtWork /\ Unread
        /\ \A phase \in Phases : /\ [process EXCEPT !.phase = phase].phase = phase
                                 /\ [process EXCEPT !.phase = phase].launch = process.launch
    BY DEF News, Unread, Inv, Types, Processes
  <1>s. process'.launch = process.launch /\ manager.state = "Failed" => manager' = manager
    BY <1>1, OutcomeStep DEF Stands
  <1>2. ASSUME NEW by, Started(by), UNCHANGED told,
               \A a \in Attempts : record.attempt = a => record'.attempt = a
        PROVE  Holds'
    BY <1>1, <1>2 DEF Started, IdleManager, Running
  <1>3. CASE LaunchByHand
    BY <1>2, <1>3 DEF LaunchByHand, disk
  <1>4. CASE ReadRecovery
    <2>1. /\ process.phase = "Starting" /\ UNCHANGED <<record, asked>>
          /\ process'.phase \in {"Clearing", "Up"}
      BY <1>1, <1>4 DEF ReadRecovery, RecordIsInert, Phases, disk
    <2>2. \A a \in Attempts : told[a] \in {"No", "Shown", "Lost"}
      BY <1>1, <2>1 DEF Running
    <2>3. CASE RecordIsInert
      <3>1. process'.phase = "Up"
        BY <1>1, <2>3 DEF RecordIsInert, Phases
      <3>2. \A a \in Attempts :
              told'[a] \in {"No", "Shown", "Lost"} \/ (told'[a] = "Illegible" /\ record.attempt = a)
        BY <2>2, <2>3 DEF RecordIsInert, Notes
      <3>. QED  BY <2>1, <3>1, <3>2 DEF Running
    <2>4. CASE UNCHANGED told
      BY <2>1, <2>2, <2>4
    <2>5. CASE manager' = FailedManager(Outcome) /\ Notes("Held")
      <3>1. manager'.state = "Failed"
        BY <2>5 DEF FailedManager, IdleManager
      <3>2. \A a \in Attempts : told'[a] \in {"No", "Shown", "Lost", "Held"}
        BY <2>2, <2>5 DEF Notes
      <3>. QED  BY <1>1, <2>1, <3>1, <3>2
    <2>. QED  BY <1>4, <2>3, <2>4, <2>5 DEF ReadRecovery
  <1>5. CASE RemoveRecovery
    <2>1. process.phase = "Clearing" /\ process'.phase = "Up" /\ UNCHANGED <<manager, asked, told>>
      BY <1>1, <1>5 DEF RemoveRecovery, Phases
    <2>. QED  BY <1>1, <2>1 DEF Running
  <1>6. CASE Quit
    <2>1. /\ process.phase = "Up" /\ process'.phase = "Quitting"
          /\ UNCHANGED <<manager, asked, told, record>>
      BY <1>1, <1>6 DEF Quit, Phases, disk
    <2>. QED  BY <1>1, <2>1 DEF Running
  <1>7. CASE Exit
    <2>1. process'.phase = "Off"
      BY <1>1, <1>7 DEF Exit, Phases
    <2>2. \A a \in Attempts : told'[a] \in {"No", "Shown", "Lost"}
      BY <1>1, <1>7 DEF Exit
    <2>. QED  BY <2>1, <2>2
  <1>8. CASE Status
    <2>1. UNCHANGED <<process, record>> /\ process.phase = "Up"
      BY <1>8 DEF Status, disk
    <2>2. \A a \in Attempts :
            told'[a] \in {"No", "Shown", "Illegible", "Lost"} /\ (told'[a] = "Illegible" => told[a] = "Illegible")
      BY <1>1, <1>8 DEF Status
    <2>. QED  BY <1>1, <2>1, <2>2 DEF Running
  <1>9. CASE WriteApplying
    <2>1. UNCHANGED <<process, asked>> /\ Running
      BY <1>9 DEF WriteApplying
    <2>2. CASE UNCHANGED <<record, told>>
      BY <1>1, <1>s, <2>1, <2>2 DEF Running
    <2>3. CASE told' = [a \in Attempts |-> IF told[a] = "Illegible" THEN "Lost" ELSE told[a]]
      <3>1. \A a \in Attempts :
              told'[a] \in {"No", "Held", "Shown", "Lost"} /\ (told'[a] = "Held" => told[a] = "Held")
        BY <1>1, <2>3
      <3>. QED  BY <1>1, <1>s, <2>1, <3>1 DEF Running
    <2>. QED  BY <1>9, <2>2, <2>3 DEF WriteApplying
  <1>10. CASE StartHelper
    <2>1. /\ UNCHANGED <<asked, told>> /\ Running /\ work = "Journaled"
          /\ process' = process \/ process' = [process EXCEPT !.phase = "Quitting"]
          /\ record' = record \/ record' = Failed(process.launch, "Apply")
      BY <1>10 DEF StartHelper
    <2>2. Running' /\ process'.launch = process.launch
      BY <1>1, <2>1 DEF Running, Phases
    <2>3. record'.attempt = record.attempt
      BY <1>1, <2>1 DEF OneAtWork, Failed
    <2>. QED  BY <1>1, <1>s, <2>1, <2>2, <2>3 DEF Running
  <1>11. CASE \/ DeferOffer \/ AcceptOffer \/ ApproveRestart \/ RunCheck \/ DownloadEnds \/ StageUnit
              \/ CompletePreparation \/ ReportPreparation
    <2>1. UNCHANGED <<process, record, told, asked>> /\ Running
      BY <1>11 DEF DeferOffer, AcceptOffer, ApproveRestart, RunCheck, DownloadEnds, StageUnit,
         CompletePreparation, ReportPreparation, Listening, Running, disk
    <2>. QED  BY <1>1, <1>s, <2>1 DEF Running
  <1>12. ASSUME NEW e \in Attempts, Rows(e), Leaves(e)  PROVE Holds'
    <2>1. \A a \in Attempts : record.attempt = a => a = e
      BY <1>1, <1>12, RowsWork DEF OneAtWork
    <2>2. record' = record \/ record'.attempt = e
      BY <1>12 DEF Leaves, RestoredFailure, Failed, Applied
    <2>3. UNCHANGED told /\ \A a \in Attempts : record.attempt = a => record'.attempt = a
      BY <1>12, <2>1, <2>2 DEF Leaves
    <2>4. CASE UNCHANGED <<process, manager, asked>>
      BY <1>1, <2>3, <2>4 DEF Running
    <2>. QED  BY <1>2, <1>12, <2>3, <2>4 DEF Leaves
  <1>13. CASE UNCHANGED vars
    BY <1>1, <1>13 DEF vars, disk, Running
  <1>. QED
    BY <1>3, <1>4, <1>5, <1>6, <1>7, <1>8, <1>9, <1>10, <1>11, <1>12, <1>13, HelperMoves
    DEF Next, Launching, Deciding, Background, Inv

LEMMA KnowsStep ==
  ASSUME Inv, News, [Next]_vars
  PROVE  Knows'
  <1>. USE DEF Knows
  <1>1. Knows
    BY DEF News
  <1>2. CASE LaunchByHand \/ ReadRecovery \/ RemoveRecovery \/ Exit
    BY <1>1, <1>2 DEF LaunchByHand, ReadRecovery, RemoveRecovery, Exit, NoRecord, disk
  <1>3. CASE Writes
    <2>1. /\ record'.state = "None" => record'.attempt = 0
          /\ record'.state = "Failed" => record'.stage # "None"
      BY <1>1, <1>3 DEF Writes, Applying, Failed, ApproveRestart, disk
    <2>2. \A a \in Attempts :
            \/ helper'[a] = helper[a]
            \/ helper'[a].pc = "Waiting" /\ helper[a].pc = "None" /\ helper'[a].cause = helper[a].cause
                 /\ helper'[a].lost = helper[a].lost
      BY <1>3 DEF Writes, Passes, ApproveRestart
    <2>3. installed' = installed
      BY <1>3 DEF Writes
    <2>. QED  BY <1>1, <2>1, <2>2, <2>3
  <1>4. ASSUME NEW e \in Attempts, Rows(e), Leaves(e)  PROVE Knows'
    <2>1. \A b \in Attempts \ {e} : helper'[b] = helper[b]
      BY <1>4 DEF Leaves
    <2>2. /\ record'.state = "None" => record'.attempt = 0
          /\ record'.state = "Failed" => record'.stage # "None"
      BY <1>1, <1>4 DEF Leaves, RestoredFailure, Applied, Failed
    <2>3. helper'[e].pc \in {"None", "Waiting", "SetAside", "Promote", "Relaunch", "MarkApplied", "Discard"}
            => helper'[e].cause = "None"
      BY <1>1, <1>4 DEF Rows, Passes, Stops
    <2>4. helper'[e].pc \in {"Relaunch", "MarkApplied"} => installed' = "New"
      <3>1. helper[e].pc = "Promote" => staged[e] = "New"
        BY DEF Inv, Handover
      <3>. QED  BY <1>1, <1>4, <3>1 DEF Rows, Passes, Stops
    <2>5. ASSUME NEW b \in Attempts \ {e}  PROVE helper[b].pc \notin {"Relaunch", "MarkApplied"}
      <3>1. Working(e)
        BY <1>4, RowsWork
      <3>. QED  BY <3>1, OnlyWorker DEF Working, Ended
    <2>6. /\ helper'[e].pc \in {"Withdraw", "Restore", "Resume"} => helper'[e].cause # "None"
          /\ helper'[e].pc = "Record" => helper'[e].lost \/ helper'[e].cause # "None"
      BY <1>1, <1>4 DEF Rows, Passes, Stops
    <2>. QED  BY <1>1, <2>1, <2>2, <2>3, <2>4, <2>5, <2>6
  <1>5. CASE UNCHANGED vars
    BY <1>1, <1>5 DEF vars, disk
  <1>. QED  BY <1>2, <1>3, <1>4, <1>5, ApplicationWrites, HelperMoves DEF Next, Inv

(* A launch of the new version has nothing to prepare. *)
LEMMA NewIsContentStep ==
  ASSUME NothingNewer, Inv, News, [Next]_vars
  PROVE  NewIsContent'
  <1>p. Preparing = {"Downloading", "Verifying", "Staging"}
    BY DEF Preparing
  <1>. USE DEF NewIsContent, Alive, Offering
  <1>1. /\ NewIsContent /\ manager \in Managers
        /\ \A phase \in Phases : /\ [process EXCEPT !.phase = phase].version = process.version
                                 /\ [process EXCEPT !.phase = phase].phase = phase
    BY DEF News, Inv, Types, Processes
  <1>2. ASSUME NEW by, Started(by)  PROVE NewIsContent'
    BY <1>1, <1>2, <1>p DEF Started, IdleManager
  <1>3. CASE Launching
    <2>1. CASE ReadRecovery
      <3>1. manager' = manager \/ manager'.state = "Failed"
        BY <2>1 DEF ReadRecovery, RecordIsInert, FailedManager, IdleManager
      <3>2. process'.version = process.version /\ process.phase # "Off"
        BY <1>1, <2>1 DEF ReadRecovery, RecordIsInert, Phases
      <3>. QED  BY <1>1, <1>p, <3>1, <3>2
    <2>2. CASE RemoveRecovery \/ Quit \/ Exit
      <3>1. manager' = manager /\ process'.version = process.version
            /\ (process'.phase # "Off" => process.phase # "Off")
        BY <1>1, <2>2 DEF RemoveRecovery, Quit, Exit, Phases
      <3>. QED  BY <1>1, <3>1
    <2>. QED  BY <1>2, <1>3, <2>1, <2>2 DEF Launching, LaunchByHand
  <1>4. CASE Deciding \/ Background \/ ReportPreparation
    <2>. SUFFICES ASSUME process'.version = "New"  PROVE manager'.state \notin Offering
      OBVIOUS
    <2>1. process.phase # "Off" /\ process'.version = process.version
      BY <1>1, <1>4 DEF Deciding, Background, ReportPreparation, Listening, Status, DeferOffer, AcceptOffer,
         ApproveRestart, RunCheck, DownloadEnds, StageUnit, CompletePreparation, WriteApplying,
         StartHelper, Running, Phases
    <2>2. process.version = "New" /\ manager.state \notin Offering
      BY <1>1, <2>1
    <2>3. work \in {"None", "Check"}
      BY <2>2 DEF Inv, Types, Works, Handover
    <2>4. CASE Status
      BY <1>1, <1>p, <2>2, <2>4, StateAfter DEF Status
    <2>5. CASE RunCheck
      <3>1. CheckOutcomes \subseteq {"Failed", "Current"}
        <4>1. CheckOutcomes \subseteq {"Failed", "Current", "Available"}
          BY CheckAnswers DEF Inv, Types, Processes
        <4>2. "Available" \notin CheckOutcomes
          BY <2>2 DEF NothingNewer, CheckOutcomes, Answers, Units, Usable
        <4>. QED  BY <4>1, <4>2
      <3>. QED  BY <1>1, <1>p, <2>5, <3>1, StateAfter DEF RunCheck
    <2>6. CASE ReportPreparation
      <3>1. PICK state \in {"Downloading", "Verifying"}, progress \in 0..MaxProgress :
              Reported(state, progress)
        BY <2>6 DEF ReportPreparation
      <3>2. manager' = manager
        BY <2>2, <3>1 DEF Reported, Advances
      <3>. QED  BY <2>2, <3>2
    <2>. QED
      BY <1>4, <2>2, <2>3, <2>4, <2>5, <2>6
      DEF Deciding, Background, DeferOffer, AcceptOffer, ApproveRestart, DownloadEnds, StageUnit,
          CompletePreparation, WriteApplying, StartHelper
  <1>5. ASSUME NEW e \in Attempts, Leaves(e)  PROVE NewIsContent'
    BY <1>1, <1>2, <1>5 DEF Leaves
  <1>6. CASE UNCHANGED vars
    BY <1>1, <1>6 DEF vars
  <1>. QED  BY <1>3, <1>4, <1>5, <1>6, HelperMoves DEF Next, Inv

(* A new launch finds the record, or the new version. *)
LEMMA HeardStarted ==
  ASSUME Inv, News, NEW by, Started(by), UNCHANGED <<installed, record>>,
         NEW a \in Attempts, helper[a].pc # "None", told[a] = "No"
  PROVE  /\ Alive' /\ process'.launch > a =>
              process'.version = "New" \/ (process'.phase = "Starting" /\ record'.attempt = a)
         /\ process'.phase = "Clearing" => Settled(a)
  <1>1. Heard(a)
    BY DEF News
  <1>2. CASE UNCHANGED process
    BY <1>1, <1>2 DEF Heard, Alive
  <1>3. CASE process' = [launch |-> process.launch + 1, phase |-> "Starting",
                         version |-> installed, by |-> by]
    <2>1. process'.phase = "Starting" /\ process'.version = installed
      BY <1>3
    <2>2. record.attempt = a \/ installed = "New"
      BY <1>1 DEF Heard, Settled
    <2>. QED  BY <2>1, <2>2
  <1>. QED  BY <1>2, <1>3 DEF Started

LEMMA HeardStep ==
  ASSUME Inv, News, [Next]_vars, NEW a \in Attempts
  PROVE  Heard(a)'
  <1>. SUFFICES ASSUME helper'[a].pc # "None", told'[a] = "No"
                PROVE  /\ record'.attempt = a \/ Settled(a)'
                       /\ \A c \in Attempts : c > a => helper'[c].pc = "None"
                       /\ Alive' /\ process'.launch > a =>
                            process'.version = "New"
                              \/ (process'.phase = "Starting" /\ record'.attempt = a)
                       /\ process'.phase = "Clearing" => Settled(a)'
    BY DEF Heard
  <1>h. Heard(a)
    BY DEF News
  <1>n. a \in Nat /\ process.launch \in Nat /\ process \in Processes
    BY BoundsAssumption DEF Attempts, Inv, Types, Processes
  <1>s. ASSUME UNCHANGED <<helper, installed>>  PROVE Settled(a)' <=> Settled(a)
    BY <1>s DEF Settled
  <1>1. CASE LaunchByHand
    <2>1. UNCHANGED <<helper, told, installed, record>> /\ Started(0)
      BY <1>1 DEF LaunchByHand, disk
    <2>. QED  BY <1>h, <1>s, <2>1, HeardStarted DEF Heard
  <1>2. CASE Exit
    <2>1. UNCHANGED <<helper, installed, record>> /\ process'.phase = "Off"
      BY <1>2, <1>n DEF Exit, disk, Processes
    <2>2. told[a] = "No" \/ record.attempt = a
      BY <1>2 DEF Exit, News, Holds
    <2>3. record.attempt = a => \A c \in Attempts : c > a => helper[c].pc = "None"
      BY DEF News, OneAtWork
    <2>. QED  BY <1>h, <1>s, <2>1, <2>2, <2>3 DEF Heard, Alive
  <1>3. CASE ReadRecovery
    <2>1. /\ UNCHANGED <<helper, installed, record>> /\ process.phase = "Starting"
          /\ process'.phase \in {"Clearing", "Up"} /\ process'.version = process.version
          /\ helper[a].pc # "None"
      BY <1>3, <1>n DEF ReadRecovery, RecordIsInert, disk, Processes
    <2>4. /\ told[a] = "No"
          /\ record.attempt = a => Outcome = "None"
      BY <1>3 DEF ReadRecovery, RecordIsInert, Notes
    <2>2. process.launch > a
      BY <1>n, <2>1 DEF Inv, Handover, Alive
    <2>3. process.version = "New" /\ Settled(a)
      <3>1. CASE record.attempt = a
        <4>1. Outcome = "None" /\ record.state # "None" /\ record \in Records
          BY <1>n, <2>4, <3>1, BoundsAssumption DEF News, Knows, Attempts, Inv, Types
        <4>2. record.state = "Applied" /\ process.version = "New"
          <5>1. record.state # "Applying"
            BY <4>1 DEF Outcome
          <5>2. record.state # "Failed"
            BY <4>1 DEF Outcome, News, Knows
          <5>3. record.state = "Applied"
            BY <4>1, <5>1, <5>2 DEF Records
          <5>. QED  BY <4>1, <5>3 DEF Outcome
        <4>. QED  BY <3>1, <4>2 DEF News, AppliedIsSettled
      <3>2. CASE record.attempt # a
        BY <1>h, <2>1, <2>2, <2>4, <3>2 DEF Heard, Alive
      <3>. QED  BY <3>1, <3>2
    <2>. QED  BY <1>h, <1>s, <2>1, <2>3, <2>4 DEF Heard
  <1>4. CASE RemoveRecovery
    <2>1. /\ UNCHANGED <<helper, installed, told>> /\ process.phase = "Clearing"
          /\ process'.phase = "Up" /\ process'.version = process.version
          /\ process'.launch = process.launch
      BY <1>4, <1>n DEF RemoveRecovery, Processes
    <2>2. Settled(a)
      BY <1>h, <2>1 DEF Heard
    <2>. QED  BY <1>h, <1>s, <2>1, <2>2 DEF Heard, Alive
  <1>5. CASE Writes
    <2>1. /\ Running /\ process'.launch = process.launch /\ process'.version = process.version
          /\ process'.phase \in {"Up", "Quitting"} /\ installed' = installed /\ told[a] = "No"
      BY <1>5 DEF Writes
    <2>2. CASE UNCHANGED <<helper, record>>
      BY <1>h, <1>s, <2>1, <2>2 DEF Heard, Alive, Running
    <2>3. CASE ApproveRestart
      BY <1>h, <1>s, <2>1, <2>3 DEF Heard, Alive, Running, ApproveRestart, disk
    <2>4. ASSUME work \in {"Handover", "Journaled"}, helper[a].pc # "None"  PROVE FALSE
      <3>1. manager.state = "Applying" /\ helper[process.launch].pc = "None"
        BY <2>4 DEF Inv, Handover
      <3>2. process.version # "New"
        BY <2>1, <3>1 DEF News, NewIsContent, Alive, Running, Offering
      <3>3. ~(process.launch > a)
        BY <1>h, <2>1, <2>4, <3>2 DEF Heard, Alive, Running
      <3>4. ~(a > process.launch)
        BY <2>4 DEF Inv, Handover
      <3>. QED  BY <1>n, <2>4, <3>1, <3>3, <3>4
    <2>5. CASE /\ work = "Journaled" /\ process.launch \in Attempts
               /\ Passes(process.launch, "None", "Waiting")
               /\ \A b \in Attempts \ {process.launch} : helper'[b] = helper[b]
               /\ UNCHANGED record
      <3>1. a = process.launch
        BY <2>4, <2>5
      <3>2. record.attempt = a /\ record.state = "Applying"
        BY <2>5, <3>1 DEF News, OneAtWork
      <3>3. \A c \in Attempts : c > a => helper'[c].pc = "None"
        BY <1>n, <2>5, <3>1 DEF Inv, Handover
      <3>. QED  BY <1>n, <2>1, <2>5, <3>1, <3>2, <3>3
    <2>. QED  BY <1>5, <2>2, <2>3, <2>4, <2>5 DEF Writes
  <1>6. ASSUME NEW e \in Attempts, Rows(e), Leaves(e)
        PROVE  /\ record'.attempt = a \/ Settled(a)'
               /\ \A c \in Attempts : c > a => helper'[c].pc = "None"
               /\ Alive' /\ process'.launch > a =>
                    process'.version = "New"
                      \/ (process'.phase = "Starting" /\ record'.attempt = a)
               /\ process'.phase = "Clearing" => Settled(a)'
    <2>1. Working(e) /\ helper[e].pc # "None"
      BY <1>6, RowsWork DEF Working
    <2>2. helper[a].pc # "None" /\ told[a] = "No"
      BY <1>6, <2>1 DEF Leaves
    <2>3. e = a
      BY <2>1, <2>2, OnlyWorker
    <2>4. Settled(a) => Settled(a)'
      BY <1>6, <2>3 DEF Settled, Rows, Passes, Stops, Working, Ended
    <2>5. record' = record \/ record' = RestoredFailure(a) \/ record' = Applied(a)
      BY <1>6, <2>3 DEF Leaves
    <2>6. /\ record.attempt = a => record'.attempt = a
          /\ record' # record => record'.attempt = a
      BY <2>5 DEF RestoredFailure, Failed, Applied
    <2>7. \A c \in Attempts : c > a => helper'[c].pc = "None"
      BY <1>6, <1>h, <1>n, <2>2, <2>3 DEF Leaves, Heard
    <2>8. /\ Alive' /\ process'.launch > a =>
               process'.version = "New" \/ (process'.phase = "Starting" /\ record'.attempt = a)
          /\ process'.phase = "Clearing" => Settled(a)
      <3>1. CASE UNCHANGED process
        BY <1>h, <2>2, <2>6, <3>1 DEF Heard, Alive
      <3>2. CASE Started(e) /\ UNCHANGED <<installed, record>>
        BY <2>2, <3>2, HeardStarted
      <3>. QED  BY <1>6, <3>1, <3>2 DEF Leaves
    <2>. QED  BY <1>h, <2>2, <2>4, <2>6, <2>7, <2>8 DEF Heard
  <1>7. CASE UNCHANGED vars
    BY <1>h, <1>7 DEF Heard, vars, disk, Settled, Alive
  <1>. QED
    BY <1>1, <1>2, <1>3, <1>4, <1>5, <1>6, <1>7, ApplicationWrites, HelperMoves DEF Next, Inv

(* A failed update leaves an application, and while only one helper is at    *)
(* work the news of it: a window was shown it, or the running launch holds   *)
(* it for its window, or the record that makes the next launch take it up is *)
(* there - unless a launch had removed the record and ended before its       *)
(* window asked, or could not read it and wrote its own over it (helper.go,  *)
(* LaunchCopiedReplacementHelper, failedHelperRecovery; recovery.go).        *)
THEOREM FailuresAlwaysTold ==
  ~HelpersMayOverlap /\ NothingNewer => (Spec => []FailuresAreTold)
  <1>. SUFFICES ASSUME ~HelpersMayOverlap, NothingNewer  PROVE Spec => []FailuresAreTold
    OBVIOUS
  <1>1. Init => News
    <2>r. \A a \in Attempts : a # 0
      BY BoundsAssumption DEF Attempts
    <2>1. ASSUME Init  PROVE OneAtWork /\ NewIsContent /\ Knows /\ AppliedIsSettled /\ Holds
      BY <2>1, <2>r DEF Init, OneAtWork, NewIsContent, Knows, AppliedIsSettled, Holds, NoHelper, NoRecord, Working,
         Alive
    <2>2. ASSUME Init, NEW a \in Attempts  PROVE Heard(a)
      BY <2>2 DEF Init, Heard, NoHelper
    <2>. QED  BY <2>1, <2>2 DEF News
  <1>2. Inv /\ News /\ [Next]_vars => News'
    BY OneAtWorkStep, NewIsContentStep, KnowsStep, AppliedIsSettledStep, HoldsStep, HeardStep DEF News
  <1>3. News => NoSilentFailure
    <2>. SUFFICES ASSUME News, NEW a \in Attempts, helper[a].pc \in Ended, told[a] # "Lost"
                  PROVE  NewsIsKept(a)
      BY DEF NoSilentFailure, NewsIsKept
    <2>1. told[a] = "No" => record.attempt = a \/ Settled(a)
      BY DEF News, Heard, Ended
    <2>2. told[a] \in {"No", "Held", "Shown", "Illegible", "Lost"}
      BY DEF News, Holds
    <2>. QED  BY <2>1, <2>2 DEF News, Holds, NewsIsKept, Settled
  <1>4. NoSilentFailure /\ FailureLeavesAnApplication => FailuresAreTold
    BY DEF FailuresAreTold
  <1>. QED
    BY <1>1, <1>2, <1>3, <1>4, InvAlways, FailureAlwaysLeavesAnApplication, PTL DEF Spec

-----------------------------------------------------------------------------
(* The gates of a release.                                                  *)

LEMMA LeastIsThere ==
  ASSUME NEW S \in SUBSET Nat, S # {}
  PROVE  Least(S) \in S /\ \A y \in S : Least(S) <= y
<1> DEFINE R == OpToRel(<, Nat)
<1>1. PICK x \in S : \A y \in S : ~(<<y, x>> \in R)
  <2>1. IsWellFoundedOn(R, Nat)
    BY NatLessThanWellFounded
  <2> HIDE DEF R
  <2> QED
    BY <2>1, WFMin
<1>2. \A y \in S : x <= y
  <2> SUFFICES ASSUME NEW y \in S  PROVE ~(y < x)
    OBVIOUS
  <2>1. <<y, x>> \notin R
    BY <1>1
  <2> QED
    BY <2>1 DEF OpToRel
<1> QED
  BY <1>1, <1>2 DEF Least

-----------------------------------------------------------------------------
(* Versions as the code parses them: texts are sequences of codes, numbers   *)
(* have no leading zero.                                                     *)

Texts == Seq(Nat)
Identifiers == [numeric : BOOLEAN, text : Texts]
Versions == [core : [1 .. 3 -> Texts], pre : Seq(Identifiers)]

(* R is a strict total order of S. *)
Orders(R, S) ==
  /\ \A x \in S : <<x, x>> \notin R
  /\ \A x, y, z \in S : <<x, y>> \in R /\ <<y, z>> \in R => <<x, z>> \in R
  /\ \A x, y \in S : x # y => <<x, y>> \in R \/ <<y, x>> \in R

(* The comparison of sequences that TextBelow, CoreBelow and PreBelow share, *)
(* and the place k that decides it.                                          *)
Lexical(R, s, t) ==
  LET d == Differ(s, t) IN
  IF d = {} THEN Len(s) < Len(t) ELSE <<s[Least(d)], t[Least(d)]>> \in R

Decides(R, s, t, k) ==
  /\ \A i \in 1 .. k - 1 : i \in DOMAIN s /\ i \in DOMAIN t /\ s[i] = t[i]
  /\ k \in DOMAIN t
  /\ k \in DOMAIN s => <<s[k], t[k]>> \in R
  /\ k \notin DOMAIN s => k = Len(s) + 1

LEMMA LexicalDecides ==
  ASSUME NEW S, NEW R, Orders(R, S), NEW s \in Seq(S), NEW t \in Seq(S)
  PROVE  Lexical(R, s, t) <=> \E k \in Nat \ {0} : Decides(R, s, t, k)
<1> DEFINE d == Differ(s, t)
<1>1. d \in SUBSET Nat /\ \A i \in d : i \in 1 .. Len(s) /\ i \in 1 .. Len(t) /\ s[i] # t[i]
  BY DEF Differ
<1>2. \A i \in 1 .. Len(s) : i \in 1 .. Len(t) /\ s[i] # t[i] => i \in d
  BY DEF Differ
<1>3. DOMAIN s = 1 .. Len(s) /\ DOMAIN t = 1 .. Len(t) /\ Len(s) \in Nat /\ Len(t) \in Nat
  OBVIOUS
<1>4. Lexical(R, s, t) = IF d = {} THEN Len(s) < Len(t) ELSE <<s[Least(d)], t[Least(d)]>> \in R
  BY DEF Lexical
<1> HIDE DEF d
<1>5. CASE d = {}
  <2>1. ASSUME Len(s) < Len(t)  PROVE Decides(R, s, t, Len(s) + 1)
    BY <1>2, <1>3, <1>5, <2>1 DEF Decides
  <2>2. ASSUME NEW k \in Nat \ {0}, Decides(R, s, t, k)  PROVE Len(s) < Len(t)
    <3>1. ASSUME k \in DOMAIN s  PROVE FALSE
      <4>1. s[k] = t[k] /\ s[k] \in S
        BY <1>2, <1>3, <1>5, <2>2, <3>1 DEF Decides
      <4> QED
        BY <2>2, <3>1, <4>1 DEF Decides, Orders
    <3> QED
      BY <1>3, <2>2, <3>1 DEF Decides
  <2>3. Len(s) + 1 \in Nat \ {0}
    BY <1>3
  <2> QED
    BY <1>4, <1>5, <2>1, <2>2, <2>3
<1>6. CASE d # {}
  <2> DEFINE l == Least(d)
  <2>1. l \in d /\ \A i \in d : l <= i
    BY <1>1, <1>6, LeastIsThere
  <2> HIDE DEF l
  <2>2. l \in 1 .. Len(s) /\ l \in 1 .. Len(t) /\ s[l] # t[l]
    BY <1>1, <2>1
  <2>3. \A i \in 1 .. l - 1 : i \in DOMAIN s /\ i \in DOMAIN t /\ s[i] = t[i]
    <3> SUFFICES ASSUME NEW i \in 1 .. l - 1
                 PROVE  i \in DOMAIN s /\ i \in DOMAIN t /\ s[i] = t[i]
      OBVIOUS
    <3>1. i \in 1 .. Len(s) /\ i \in 1 .. Len(t) /\ ~(l <= i)
      BY <1>3, <2>2
    <3> QED
      BY <1>2, <1>3, <2>1, <3>1
  <2>4. ASSUME <<s[l], t[l]>> \in R  PROVE Decides(R, s, t, l)
    BY <1>3, <2>2, <2>3, <2>4 DEF Decides
  <2>5. ASSUME NEW k \in Nat \ {0}, Decides(R, s, t, k)  PROVE <<s[l], t[l]>> \in R
    <3>1. k <= l
      BY <1>3, <2>2, <2>5 DEF Decides
    <3>2. k \in DOMAIN s
      BY <1>3, <2>2, <3>1
    <3>3. k \in DOMAIN t /\ <<s[k], t[k]>> \in R
      BY <2>5, <3>2 DEF Decides
    <3>4. s[k] # t[k]
      <4>1. s[k] \in S
        BY <3>2
      <4> QED
        BY <3>3, <4>1 DEF Orders
    <3>5. l <= k
      BY <1>2, <1>3, <2>1, <3>2, <3>3, <3>4
    <3>6. k = l
      BY <1>3, <2>2, <3>1, <3>5
    <3> QED
      BY <3>3, <3>6
  <2>6. l \in Nat \ {0}
    BY <2>2
  <2> QED
    BY <1>4, <1>6, <2>4, <2>5, <2>6 DEF l
<1> QED
  BY <1>5, <1>6

LEMMA LexicalOrders ==
  ASSUME NEW S, NEW R, Orders(R, S)
  PROVE  /\ \A s \in Seq(S) : ~Lexical(R, s, s)
         /\ \A s, t, u \in Seq(S) : Lexical(R, s, t) /\ Lexical(R, t, u) => Lexical(R, s, u)
         /\ \A s, t \in Seq(S) : s # t => Lexical(R, s, t) \/ Lexical(R, t, s)
<1>1. ASSUME NEW s \in Seq(S)  PROVE ~Lexical(R, s, s)
  <2>1. Differ(s, s) = {}
    BY DEF Differ
  <2> QED
    BY <2>1 DEF Lexical
<1>2. ASSUME NEW s \in Seq(S), NEW t \in Seq(S), NEW u \in Seq(S), Lexical(R, s, t), Lexical(R, t, u)
      PROVE  Lexical(R, s, u)
  <2>1. PICK k \in Nat \ {0} : Decides(R, s, t, k)
    BY <1>2, LexicalDecides
  <2>2. PICK m \in Nat \ {0} : Decides(R, t, u, m)
    BY <1>2, LexicalDecides
  <2>3. /\ DOMAIN s = 1 .. Len(s) /\ DOMAIN t = 1 .. Len(t) /\ DOMAIN u = 1 .. Len(u)
        /\ Len(s) \in Nat /\ Len(t) \in Nat /\ Len(u) \in Nat
    OBVIOUS
  <2>4. CASE k < m
    <3>1. k \in DOMAIN u /\ u[k] = t[k]
      BY <2>2, <2>4 DEF Decides
    <3>2. \A i \in 1 .. k - 1 : i \in 1 .. m - 1
      BY <2>4
    <3>3. Decides(R, s, u, k)
      BY <2>1, <2>2, <3>1, <3>2 DEF Decides
    <3> QED
      BY <3>3, LexicalDecides
  <2>5. CASE m < k
    <3>1. m \in DOMAIN s /\ s[m] = t[m]
      BY <2>1, <2>5 DEF Decides
    <3>2. \A i \in 1 .. m - 1 : i \in 1 .. k - 1
      BY <2>5
    <3>3. m \in DOMAIN t
      BY <2>1, <2>5 DEF Decides
    <3>4. Decides(R, s, u, m)
      BY <2>1, <2>2, <3>1, <3>2, <3>3 DEF Decides
    <3> QED
      BY <3>4, LexicalDecides
  <2>6. CASE m = k
    <3>1. k \in DOMAIN t /\ k \in DOMAIN u /\ <<t[k], u[k]>> \in R
      BY <2>1, <2>2, <2>6 DEF Decides
    <3>2. k \in DOMAIN s => <<s[k], t[k]>> \in R /\ s[k] \in S
      BY <2>1 DEF Decides
    <3>3. t[k] \in S /\ u[k] \in S
      BY <3>1
    <3>4. k \in DOMAIN s => <<s[k], u[k]>> \in R
      BY <3>1, <3>2, <3>3 DEF Orders
    <3>5. Decides(R, s, u, k)
      BY <2>1, <2>2, <2>6, <3>1, <3>4 DEF Decides
    <3> QED
      BY <3>5, LexicalDecides
  <2> QED
    BY <2>4, <2>5, <2>6
<1>3. ASSUME NEW s \in Seq(S), NEW t \in Seq(S), s # t  PROVE Lexical(R, s, t) \/ Lexical(R, t, s)
  <2>1. Differ(s, t) = Differ(t, s)
    BY DEF Differ
  <2>2. CASE Differ(s, t) = {}
    <3>1. Len(s) # Len(t)
      <4> SUFFICES ASSUME Len(s) = Len(t)  PROVE s = t
        BY <1>3
      <4>1. \A i \in 1 .. Len(s) : s[i] = t[i]
        BY <2>2 DEF Differ
      <4> QED
        BY <4>1
    <3> QED
      BY <2>1, <2>2, <3>1 DEF Lexical
  <2>3. CASE Differ(s, t) # {}
    <3> DEFINE l == Least(Differ(s, t))
    <3>1. l \in Differ(s, t)
      <4>1. Differ(s, t) \in SUBSET Nat
        BY DEF Differ
      <4> QED
        BY <2>3, <4>1, LeastIsThere
    <3>2. s[l] \in S /\ t[l] \in S /\ s[l] # t[l]
      BY <3>1 DEF Differ
    <3> HIDE DEF l
    <3>3. <<s[l], t[l]>> \in R \/ <<t[l], s[l]>> \in R
      BY <3>2 DEF Orders
    <3> QED
      BY <2>1, <2>3, <3>3 DEF Lexical, l
  <2> QED
    BY <2>2, <2>3
<1> QED
  BY <1>1, <1>2, <1>3

-----------------------------------------------------------------------------

(* Each comparison as a relation. *)
CodeOrder == {p \in Nat \X Nat : p[1] < p[2]}
NumberOrder == {p \in Texts \X Texts : NumberBelow(p[1], p[2])}
IdentifierOrder == {p \in Identifiers \X Identifiers : IdentifierBelow(p[1], p[2])}

LEMMA CodesOrdered == Orders(CodeOrder, Nat)
  BY DEF Orders, CodeOrder

LEMMA TextsOrdered ==
  /\ \A s \in Texts : ~TextBelow(s, s)
  /\ \A s, t, u \in Texts : TextBelow(s, t) /\ TextBelow(t, u) => TextBelow(s, u)
  /\ \A s, t \in Texts : s # t => TextBelow(s, t) \/ TextBelow(t, s)
<1>1. ASSUME NEW s \in Texts, NEW t \in Texts  PROVE TextBelow(s, t) <=> Lexical(CodeOrder, s, t)
  <2>1. CASE Differ(s, t) = {}
    BY <2>1 DEF TextBelow, Lexical
  <2>2. CASE Differ(s, t) # {}
    <3> DEFINE l == Least(Differ(s, t))
    <3>1. l \in Differ(s, t)
      <4>1. Differ(s, t) \in SUBSET Nat
        BY DEF Differ, Texts
      <4> QED
        BY <2>2, <4>1, LeastIsThere
    <3>2. s[l] \in Nat /\ t[l] \in Nat
      BY <3>1 DEF Differ, Texts
    <3> HIDE DEF l
    <3>3. <<s[l], t[l]>> \in CodeOrder <=> s[l] < t[l]
      BY <3>2 DEF CodeOrder
    <3> QED
      BY <2>2, <3>3 DEF TextBelow, Lexical, l
  <2> QED
    BY <2>1, <2>2
<1>2. Texts = Seq(Nat)
  BY DEF Texts
<1> QED
  BY <1>1, <1>2, CodesOrdered, LexicalOrders

LEMMA NumbersOrdered == Orders(NumberOrder, Texts)
<1>1. \A s, t \in Texts : <<s, t>> \in NumberOrder <=> NumberBelow(s, t)
  BY DEF NumberOrder
<1>2. \A s \in Texts : Len(s) \in Nat
  BY DEF Texts
<1> QED
  BY <1>1, <1>2, TextsOrdered DEF Orders, NumberBelow

LEMMA IdentifiersOrdered == Orders(IdentifierOrder, Identifiers)
<1>1. \A a, b \in Identifiers : <<a, b>> \in IdentifierOrder <=> IdentifierBelow(a, b)
  BY DEF IdentifierOrder
<1>2. \A s, t \in Texts : <<s, t>> \in NumberOrder <=> NumberBelow(s, t)
  BY DEF NumberOrder
<1>3. \A a \in Identifiers : a.numeric \in BOOLEAN /\ a.text \in Texts
  BY DEF Identifiers
<1>4. \A a, b \in Identifiers : a # b => a.numeric # b.numeric \/ a.text # b.text
  BY DEF Identifiers
<1>5. \A a \in Identifiers : <<a, a>> \notin IdentifierOrder
  BY <1>1, <1>2, <1>3, TextsOrdered, NumbersOrdered DEF Orders, IdentifierBelow
<1>6. ASSUME NEW a \in Identifiers, NEW b \in Identifiers, NEW c \in Identifiers,
             IdentifierBelow(a, b), IdentifierBelow(b, c)
      PROVE  IdentifierBelow(a, c)
  <2>1. CASE a.numeric = b.numeric /\ b.numeric = c.numeric
    BY <1>2, <1>3, <1>6, <2>1, TextsOrdered, NumbersOrdered DEF Orders, IdentifierBelow
  <2>2. CASE ~(a.numeric = b.numeric /\ b.numeric = c.numeric)
    BY <1>3, <1>6, <2>2 DEF IdentifierBelow
  <2> QED
    BY <2>1, <2>2
<1>7. ASSUME NEW a \in Identifiers, NEW b \in Identifiers, a # b
      PROVE  IdentifierBelow(a, b) \/ IdentifierBelow(b, a)
  BY <1>2, <1>3, <1>4, <1>7, TextsOrdered, NumbersOrdered DEF Orders, IdentifierBelow
<1> QED
  BY <1>1, <1>5, <1>6, <1>7 DEF Orders

LEMMA CoresOrdered ==
  LET Cores == [1 .. 3 -> Texts] IN
  /\ \A s \in Cores : ~CoreBelow(s, s)
  /\ \A s, t, u \in Cores : CoreBelow(s, t) /\ CoreBelow(t, u) => CoreBelow(s, u)
  /\ \A s, t \in Cores : s # t => CoreBelow(s, t) \/ CoreBelow(t, s)
<1> DEFINE Cores == [1 .. 3 -> Texts]
<1>1. ASSUME NEW s \in Cores  PROVE s \in Seq(Texts) /\ Len(s) = 3
  <2>1. s \in Seq(Texts)
    BY SeqDef
  <2>2. DOMAIN s = 1 .. Len(s) /\ Len(s) \in Nat
    BY <2>1, LenProperties, Zenon
  <2>3. DOMAIN s = 1 .. 3
    OBVIOUS
  <2> QED
    BY <2>1, <2>2, <2>3
<1>2. ASSUME NEW s \in Cores, NEW t \in Cores
      PROVE  CoreBelow(s, t) <=> Lexical(NumberOrder, s, t)
  <2>1. CASE Differ(s, t) = {}
    BY <1>1, <2>1 DEF CoreBelow, Lexical
  <2>2. CASE Differ(s, t) # {}
    <3> DEFINE l == Least(Differ(s, t))
    <3>1. l \in Differ(s, t)
      <4>1. Differ(s, t) \in SUBSET Nat
        BY DEF Differ
      <4> QED
        BY <2>2, <4>1, LeastIsThere
    <3>2. s[l] \in Texts /\ t[l] \in Texts
      BY <3>1 DEF Differ
    <3> HIDE DEF l
    <3>3. <<s[l], t[l]>> \in NumberOrder <=> NumberBelow(s[l], t[l])
      BY <3>2 DEF NumberOrder
    <3> QED
      BY <2>2, <3>3 DEF CoreBelow, Lexical, l
  <2> QED
    BY <2>1, <2>2
<1> HIDE DEF Cores
<1>3. /\ \A s \in Cores : ~CoreBelow(s, s)
      /\ \A s, t, u \in Cores : CoreBelow(s, t) /\ CoreBelow(t, u) => CoreBelow(s, u)
      /\ \A s, t \in Cores : s # t => CoreBelow(s, t) \/ CoreBelow(t, s)
  BY <1>1, <1>2, NumbersOrdered, LexicalOrders
<1> QED
  BY <1>3 DEF Cores

LEMMA PresOrdered ==
  LET Pres == Seq(Identifiers) IN
  /\ \A s \in Pres : ~PreBelow(s, s)
  /\ \A s, t, u \in Pres : PreBelow(s, t) /\ PreBelow(t, u) => PreBelow(s, u)
  /\ \A s, t \in Pres : s # t => PreBelow(s, t) \/ PreBelow(t, s)
<1> DEFINE Pres == Seq(Identifiers)
<1>1. ASSUME NEW s \in Pres, NEW t \in Pres
      PROVE  PreBelow(s, t) <=> s # <<>> /\ (t # <<>> => Lexical(IdentifierOrder, s, t))
  <2>1. CASE Differ(s, t) = {}
    BY <2>1 DEF PreBelow, Lexical
  <2>2. CASE Differ(s, t) # {}
    <3> DEFINE l == Least(Differ(s, t))
    <3>1. l \in Differ(s, t)
      <4>1. Differ(s, t) \in SUBSET Nat
        BY DEF Differ
      <4> QED
        BY <2>2, <4>1, LeastIsThere
    <3>2. s[l] \in Identifiers /\ t[l] \in Identifiers
      BY <3>1 DEF Differ
    <3> HIDE DEF l
    <3>3. <<s[l], t[l]>> \in IdentifierOrder <=> IdentifierBelow(s[l], t[l])
      BY <3>2 DEF IdentifierOrder
    <3> QED
      BY <2>2, <3>3 DEF PreBelow, Lexical, l
  <2> QED
    BY <2>1, <2>2
<1>2. /\ \A s \in Pres : ~Lexical(IdentifierOrder, s, s)
      /\ \A s, t, u \in Pres :
           Lexical(IdentifierOrder, s, t) /\ Lexical(IdentifierOrder, t, u) => Lexical(IdentifierOrder, s, u)
      /\ \A s, t \in Pres :
           s # t => Lexical(IdentifierOrder, s, t) \/ Lexical(IdentifierOrder, t, s)
  BY IdentifiersOrdered, LexicalOrders
<1> HIDE DEF Pres
<1>3. \A s \in Pres : ~PreBelow(s, s)
  BY <1>1, <1>2
<1>4. \A s, t, u \in Pres : PreBelow(s, t) /\ PreBelow(t, u) => PreBelow(s, u)
  BY <1>1, <1>2
<1>5. \A s, t \in Pres : s # t => PreBelow(s, t) \/ PreBelow(t, s)
  BY <1>1, <1>2
<1> QED
  BY <1>3, <1>4, <1>5 DEF Pres

(* The comparison of versions is a strict total order: of two different ones *)
(* one is older, none is older than itself, and the order is transitive, for *)
(* numbers of any length and any mixture of words and numbers                *)
(* (wails_updater.go, compareApplicationSemanticVersions).                             *)
THEOREM VersionsAlwaysOrdered ==
  /\ \A v \in Versions : ~Older(v, v)
  /\ \A u, v, w \in Versions : Older(u, v) /\ Older(v, w) => Older(u, w)
  /\ \A v, w \in Versions : v # w => Older(v, w) \/ Older(w, v)
<1>1. \A v \in Versions : v.core \in [1 .. 3 -> Texts] /\ v.pre \in Seq(Identifiers)
  BY DEF Versions
<1>2. \A v, w \in Versions : v # w => v.core # w.core \/ v.pre # w.pre
  BY DEF Versions
<1>3. \A v \in Versions : ~Older(v, v)
  BY <1>1, CoresOrdered, PresOrdered DEF Older
<1>4. ASSUME NEW u \in Versions, NEW v \in Versions, NEW w \in Versions, Older(u, v), Older(v, w)
      PROVE  Older(u, w)
  BY <1>1, <1>4, CoresOrdered, PresOrdered DEF Older
<1>5. ASSUME NEW v \in Versions, NEW w \in Versions, v # w  PROVE Older(v, w) \/ Older(w, v)
  BY <1>1, <1>2, <1>5, CoresOrdered, PresOrdered DEF Older
<1> QED
  BY <1>3, <1>4, <1>5

-----------------------------------------------------------------------------
(* The check reads the whole history. *)

(* Ascending lists versions from old to new, and the service's releases are  *)
(* of those; whatever their number, order, flags and assets, and however the *)
(* service answers for each page.                                            *)
IsSequence(s) == s \in Seq({s[k] : k \in DOMAIN s})

ReleaseData ==
  /\ Ascending \in Seq(Versions)
  /\ \A i, j \in DOMAIN Ascending : i < j => Older(Ascending[i], Ascending[j])
  /\ \A history \in Histories :
       /\ IsSequence(history.releases)
       /\ \A k \in DOMAIN history.releases :
            \E i \in DOMAIN Ascending : history.releases[k].version = Ascending[i]
       /\ history.pages \in [1 .. PageLimit -> {"found", "missing", "failed"}]

LEMMA PageContents ==
  ASSUME ReleaseData, NEW history \in Histories, NEW n \in 1 .. PageLimit, history.pages[n] = "found"
  PROVE  LET s == history.releases
             start == PerPage * (n - 1)
             page == Page(history, n) IN
         /\ start \in Nat
         /\ DOMAIN page = 1 .. Len(page) /\ Len(page) \in Nat
         /\ \A i \in DOMAIN page : start + i \in DOMAIN s /\ page[i] = s[start + i]
         /\ \A k \in DOMAIN s : start < k /\ k <= start + PerPage => k - start \in DOMAIN page
         /\ Len(page) < PerPage => Len(s) < start + PerPage
<1> DEFINE s == history.releases
           start == PerPage * (n - 1)
           page == Page(history, n)
           S == {s[k] : k \in DOMAIN s}
           length == Len(s)
           stop == IF Len(s) < start + PerPage THEN Len(s) ELSE start + PerPage
<1>1. s \in Seq(S)
  BY DEF ReleaseData, IsSequence
<1>2. PerPage \in Nat \ {0} /\ PageLimit \in Nat
  BY PagesAssumption
<1>3. start \in Nat
  BY <1>2
<1>4. page = SubSeq(s, start + 1, stop)
  BY DEF Page
<1> HIDE DEF start, page, S, s
<1>5. length \in Nat /\ DOMAIN s = 1 .. length
  BY <1>1, LenProperties, Zenon
<1> HIDE DEF length
<1>e. /\ stop \in Int /\ stop <= length /\ stop <= start + PerPage
      /\ stop = length \/ stop = start + PerPage
  <2>1. stop = IF length < start + PerPage THEN length ELSE start + PerPage
    BY DEF length
  <2> HIDE DEF stop
  <2> QED
    BY <1>2, <1>3, <1>5, <2>1
<1> HIDE DEF stop
<1>6. \A i \in start + 1 .. stop : s[i] \in S
  BY <1>1, <1>3, <1>5, <1>e
<1>7. /\ page \in Seq(S)
      /\ Len(page) = IF start + 1 <= stop THEN stop - (start + 1) + 1 ELSE 0
      /\ \A i \in 1 .. stop - (start + 1) + 1 : page[i] = s[start + 1 + i - 1]
  <2>1. start + 1 \in Int
    BY <1>3
  <2> QED
    BY <1>4, <1>e, <1>6, <2>1, SubSeqProperties
<1>8. DOMAIN page = 1 .. Len(page) /\ Len(page) \in Nat
  BY <1>7
<1>l. Len(page) = IF start < stop THEN stop - start ELSE 0
  BY <1>3, <1>e, <1>7
<1>9. ASSUME NEW i \in DOMAIN page  PROVE start + i \in DOMAIN s /\ page[i] = s[start + i]
  <2>1. i \in 1 .. stop - (start + 1) + 1
    BY <1>3, <1>e, <1>l, <1>8
  <2>2. start + 1 + i - 1 = start + i /\ start + i \in 1 .. length
    BY <1>3, <1>5, <1>e, <2>1
  <2> QED
    BY <1>5, <1>7, <2>1, <2>2
<1>10. ASSUME NEW k \in DOMAIN s, start < k, k <= start + PerPage  PROVE k - start \in DOMAIN page
  BY <1>2, <1>3, <1>5, <1>e, <1>l, <1>8, <1>10
<1>11. Len(page) < PerPage => length < start + PerPage
  BY <1>2, <1>3, <1>5, <1>e, <1>l
<1> QED
  BY <1>3, <1>8, <1>9, <1>10, <1>11 DEF s, start, page, length

LEMMA WholeHistory ==
  ASSUME ReleaseData, NEW history \in Histories,
         \A n \in 1 .. PageLimit : history.pages[n] # "missing",
         ~Unreadable(history)
  PROVE  Releases(history) = {history.releases[k] : k \in DOMAIN history.releases}
<1> DEFINE s == history.releases
           m == Least(Short(history))
<1>1. PerPage \in Nat \ {0} /\ PageLimit \in Nat \ {0}
  BY PagesAssumption
<1>2. m \in Short(history) /\ \A n \in Short(history) : m <= n
  <2>1. Short(history) \in SUBSET Nat /\ Short(history) # {}
    BY <1>1 DEF Short, Unreadable
  <2> QED
    BY <2>1, LeastIsThere
<1>3. Asked(history) = 1 .. m
  BY DEF Asked
<1> HIDE DEF m
<1>4. m \in 1 .. PageLimit /\ Len(Page(history, m)) < PerPage
  BY <1>2 DEF Short
<1>5. \A n \in 1 .. m : n \in 1 .. PageLimit
  BY <1>1, <1>4
<1>6. \A n \in 1 .. m : history.pages[n] = "found"
  <2> SUFFICES ASSUME NEW n \in 1 .. m  PROVE history.pages[n] = "found"
    OBVIOUS
  <2>1. history.pages[n] # "failed" /\ n \in 1 .. PageLimit
    BY <1>3, <1>5 DEF Unreadable
  <2>2. history.pages \in [1 .. PageLimit -> {"found", "missing", "failed"}]
    BY DEF ReleaseData
  <2> QED
    BY <2>1, <2>2
<1>7. Len(s) \in Nat /\ DOMAIN s = 1 .. Len(s)
  <2>1. s \in Seq({s[k] : k \in DOMAIN s})
    BY DEF ReleaseData, IsSequence
  <2> QED
    BY <2>1
<1>8. \A r \in Releases(history) : \E k \in DOMAIN s : r = s[k]
  <2> SUFFICES ASSUME NEW n \in 1 .. m, NEW i \in DOMAIN Page(history, n)
               PROVE  \E k \in DOMAIN s : Page(history, n)[i] = s[k]
    BY <1>3 DEF Releases
  <2> QED
    BY <1>5, <1>6, PageContents
<1>9. ASSUME NEW k \in DOMAIN s  PROVE s[k] \in Releases(history)
  <2> DEFINE Reaching == {n \in Nat \ {0} : k <= PerPage * (n - 1) + PerPage}
             n == Least(Reaching)
  <2>1. m \in Reaching
    BY <1>1, <1>4, <1>5, <1>6, <1>7, PageContents
  <2>2. n \in Reaching /\ n <= m
    BY <2>1, LeastIsThere
  <2>3. n \in 1 .. m
    BY <1>1, <1>4, <2>2
  <2>4. PerPage * (n - 1) < k
    <3>1. CASE n = 1
      BY <1>1, <1>7, <3>1
    <3>2. CASE n # 1
      <4>1. n - 1 \notin Reaching
        <5>1. \A j \in Reaching : n <= j
          BY <2>1, LeastIsThere
        <5> HIDE DEF Reaching, n
        <5> QED
          BY <2>3, <1>4, <5>1
      <4>2. n - 1 \in Nat \ {0}
        BY <2>3, <1>4, <3>2
      <4> HIDE DEF n
      <4>3. ~(k <= PerPage * (n - 1 - 1) + PerPage)
        BY <4>1, <4>2
      <4>4. PerPage * (n - 1 - 1) + PerPage = PerPage * (n - 1)
        BY <1>1, <4>2
      <4>5. PerPage * (n - 1) \in Nat /\ k \in Nat
        BY <1>1, <1>7, <4>2
      <4> QED
        BY <4>3, <4>4, <4>5
    <3> QED
      BY <3>1, <3>2
  <2>5. k <= PerPage * (n - 1) + PerPage
    BY <2>2
  <2> HIDE DEF n, Reaching
  <2>6. /\ k - PerPage * (n - 1) \in DOMAIN Page(history, n)
        /\ Page(history, n)[k - PerPage * (n - 1)] = s[PerPage * (n - 1) + (k - PerPage * (n - 1))]
    BY <1>5, <1>6, <2>3, <2>4, <2>5, PageContents
  <2>7. PerPage * (n - 1) + (k - PerPage * (n - 1)) = k
    BY <1>1, <1>4, <1>7, <2>3
  <2>8. Page(history, n)[k - PerPage * (n - 1)] \in Releases(history)
    BY <1>3, <2>3, <2>6 DEF Releases
  <2> QED
    BY <2>6, <2>7, <2>8
<1> QED
  BY <1>8, <1>9

LEMMA PlacesInOrder ==
  ASSUME ReleaseData
  PROVE  /\ VersionsAreOrdered
         /\ \A i \in DOMAIN Ascending : Precedence(Ascending[i]) = i
<1>1. \A i \in DOMAIN Ascending : Ascending[i] \in Versions /\ i \in Nat
  <2>1. Ascending \in [1 .. Len(Ascending) -> Versions] /\ Len(Ascending) \in Nat
    BY LenProperties, Zenon DEF ReleaseData
  <2> QED
    BY <2>1
<1>2. ASSUME NEW i \in DOMAIN Ascending, NEW j \in DOMAIN Ascending
      PROVE  Older(Ascending[i], Ascending[j]) <=> i < j
  <2>1. i < j => Older(Ascending[i], Ascending[j])
    BY DEF ReleaseData
  <2>2. j < i => Older(Ascending[j], Ascending[i])
    BY DEF ReleaseData
  <2>3. ~Older(Ascending[i], Ascending[i])
    BY <1>1, VersionsAlwaysOrdered
  <2>4. ~(Older(Ascending[i], Ascending[j]) /\ Older(Ascending[j], Ascending[i]))
    BY <1>1, <2>3, VersionsAlwaysOrdered
  <2>5. i < j \/ j < i \/ i = j
    BY <1>1
  <2> QED
    BY <1>1, <2>1, <2>2, <2>3, <2>4, <2>5
<1>3. ASSUME NEW i \in DOMAIN Ascending, NEW j \in DOMAIN Ascending, Ascending[i] = Ascending[j]
      PROVE  i = j
  <2>1. ~(i < j) /\ ~(j < i)
    BY <1>1, <1>2, <1>3, VersionsAlwaysOrdered
  <2> QED
    BY <1>1, <2>1
<1>4. ASSUME NEW i \in DOMAIN Ascending  PROVE Precedence(Ascending[i]) = i
  BY <1>3 DEF Precedence
<1> QED
  BY <1>2, <1>4 DEF VersionsAreOrdered

LEMMA NewestIsLast ==
  ASSUME ReleaseData, NEW releases, releases # {},
         \A r \in releases : \E i \in DOMAIN Ascending : r.version = Ascending[i]
  PROVE  /\ Newest(releases) \in releases
         /\ \A s \in releases : Precedence(s.version) <= Precedence(Newest(releases).version)
<1> DEFINE place(r) == Precedence(r.version)
           Above == {Len(Ascending) - place(r) : r \in releases}
<1>1. Len(Ascending) \in Nat /\ DOMAIN Ascending = 1 .. Len(Ascending)
  BY LenProperties, Zenon DEF ReleaseData
<1>2. ASSUME NEW r \in releases  PROVE place(r) \in DOMAIN Ascending /\ Ascending[place(r)] = r.version
  BY PlacesInOrder
<1>3. ASSUME NEW r \in releases, NEW s \in releases
      PROVE  Older(r.version, s.version) <=> place(r) < place(s)
  BY <1>2, PlacesInOrder DEF VersionsAreOrdered
<1> HIDE DEF place
<1>4. Above \in SUBSET Nat /\ Above # {}
  BY <1>1, <1>2
<1>5. PICK r \in releases : Least(Above) = Len(Ascending) - place(r)
  BY <1>4, LeastIsThere
<1>6. \A s \in releases : place(s) <= place(r)
  <2> SUFFICES ASSUME NEW s \in releases  PROVE place(s) <= place(r)
    OBVIOUS
  <2>1. Len(Ascending) - place(r) <= Len(Ascending) - place(s)
    <3>1. Len(Ascending) - place(s) \in Above
      OBVIOUS
    <3> HIDE DEF Above
    <3>2. Least(Above) <= Len(Ascending) - place(s)
      BY <1>4, <3>1, LeastIsThere
    <3> QED
      BY <1>5, <3>2
  <2> QED
    BY <1>1, <1>2, <2>1
<1>7. \A s \in releases : ~Older(r.version, s.version)
  BY <1>1, <1>2, <1>3, <1>6
<1>8. Newest(releases) \in releases /\ \A s \in releases : ~Older(Newest(releases).version, s.version)
  BY <1>7 DEF Newest
<1>9. \A s \in releases : place(s) <= place(Newest(releases))
  BY <1>1, <1>2, <1>3, <1>8
<1> QED
  BY <1>8, <1>9 DEF place

(* An installation is offered the newest release it may see, never its own   *)
(* or an older one, for any history of releases, pages of any size and any   *)
(* answers of the service (wails_updater.go, Check).                         *)
THEOREM OffersAlwaysNewest == ReleaseData => VersionsAreOrdered /\ OffersAreNewest
<1> SUFFICES ASSUME ReleaseData,
                    NEW history \in Histories, \A n \in 1 .. PageLimit : history.pages[n] # "missing",
                    NEW i \in DOMAIN Ascending, NEW target \in ReleaseAssets
             PROVE  LET answer == Check(history, Ascending[i], target)
                        all == {history.releases[k] : k \in DOMAIN history.releases}
                        visible == {r \in all : ~r.draft /\ (r.prerelease => Ascending[i].pre # <<>>)}
                        newer == {r \in visible : Precedence(r.version) > i} IN
                    /\ answer = "Current" => newer = {}
                    /\ answer = "Available" =>
                         \E r \in newer : /\ CompleteInventory(r)
                                         /\ \A s \in newer : Precedence(s.version) <= Precedence(r.version)
  BY PlacesInOrder DEF OffersAreNewest
<1> DEFINE current == Ascending[i]
           answer == Check(history, current, target)
           all == {history.releases[k] : k \in DOMAIN history.releases}
           visible == {r \in all : ~r.draft /\ (r.prerelease => current.pre # <<>>)}
           newer == {r \in visible : Precedence(r.version) > i}
<1>1. CASE answer = "Failed"
  BY <1>1
<1>2. CASE answer # "Failed"
  <2>1. ~Unreadable(history) /\ answer = Offered(Eligible(history, current), target)
    BY <1>2 DEF Check
  <2>2. Releases(history) = all
    BY <2>1, WholeHistory
  <2> HIDE DEF current
  <2>3. \A r \in all : \E j \in DOMAIN Ascending : r.version = Ascending[j]
    BY DEF ReleaseData
  <2>4. \A r \in all : Older(current, r.version) <=> Precedence(r.version) > i
    BY <2>3, PlacesInOrder DEF VersionsAreOrdered, current
  <2> HIDE DEF all, answer
  <2>5. Eligible(history, current) = newer
    BY <2>2, <2>4 DEF Eligible
  <2>6. \A r \in newer : \E j \in DOMAIN Ascending : r.version = Ascending[j]
    BY <2>3
  <2> HIDE DEF newer
  <2>7. answer = "Current" => newer = {}
    BY <2>1, <2>5 DEF Offered
  <2>8. answer = "Available" => newer # {} /\ CompleteInventory(Newest(newer))
    BY <2>1, <2>5 DEF Offered
  <2>9. answer = "Available" =>
          \E r \in newer : /\ CompleteInventory(r)
                          /\ \A s \in newer : Precedence(s.version) <= Precedence(r.version)
    BY <2>6, <2>8, NewestIsLast
  <2> QED
    BY <2>7, <2>9 DEF newer, answer, all, current
<1> QED
  BY <1>1, <1>2

-----------------------------------------------------------------------------
(* The unit's neighbours have names nobody else uses, because they hold the  *)
(* attempt's identifier (helper.go, helperBackupPath; staging.go,            *)
(* stageApplicationUnit); nothing is assumed of where the paths lie.         *)
LayoutData ==
  /\ IsSequence(TempDir)
  /\ \A layout \in Layouts :
       /\ IsSequence(layout.unit) /\ IsSequence(layout.recovery) /\ layout.unit # <<>>
       /\ \A k \in DOMAIN layout.recovery : layout.recovery[k] \notin {"update", "backup"}
  /\ \A k \in DOMAIN TempDir : TempDir[k] \notin {"update", "backup"}

LEMMA WithinIsPrefix ==
  ASSUME NEW S, NEW path \in Seq(S), NEW parent \in Seq(S)
  PROVE  Within(path, parent) <=>
           Len(parent) <= Len(path) /\ \A i \in 1 .. Len(parent) : path[i] = parent[i]
<1> DEFINE start == SubSeq(path, 1, Len(parent))
<1>1. Len(path) \in Nat /\ Len(parent) \in Nat
  BY LenProperties
<1>2. ASSUME Len(parent) <= Len(path)
      PROVE  start \in Seq(S) /\ Len(start) = Len(parent) /\ \A i \in 1 .. Len(parent) : start[i] = path[i]
  <2>1. \A i \in 1 .. Len(parent) : path[i] \in S
    BY <1>1, <1>2, ElementOfSeq
  <2>2. /\ start \in Seq(S)
        /\ Len(start) = IF 1 <= Len(parent) THEN Len(parent) - 1 + 1 ELSE 0
        /\ \A i \in 1 .. Len(parent) - 1 + 1 : start[i] = path[1 + i - 1]
    <3>1. 1 \in Int /\ Len(parent) \in Int
      BY <1>1
    <3> QED
      BY <2>1, <3>1, SubSeqProperties
  <2>3. Len(start) = Len(parent) /\ Len(parent) - 1 + 1 = Len(parent)
    BY <1>1, <2>2
  <2>4. \A i \in 1 .. Len(parent) : 1 + i - 1 = i
    BY <1>1
  <2> QED
    BY <2>2, <2>3, <2>4
<1> HIDE DEF start
<1>3. Len(parent) <= Len(path) =>
        (start = parent <=> \A i \in 1 .. Len(parent) : path[i] = parent[i])
  BY <1>2, SeqEqual
<1> QED
  BY <1>3 DEF Within, start

LEMMA BesideUnit ==
  ASSUME NEW S, NEW unit \in Seq(S), unit # <<>>, NEW name \in S
  PROVE  LET path == Append(Parent(unit), name) IN
         /\ path \in Seq(S) /\ Len(path) = Len(unit) /\ Len(unit) \in Nat \ {0}
         /\ \A i \in 1 .. Len(unit) - 1 : path[i] = unit[i]
         /\ path[Len(unit)] = name
<1> DEFINE parent == Parent(unit)
           path == Append(parent, name)
<1>1. Len(unit) \in Nat \ {0}
  BY EmptySeq
<1>2. \A i \in 1 .. Len(unit) - 1 : unit[i] \in S
  BY <1>1, ElementOfSeq
<1>3. /\ parent \in Seq(S)
      /\ Len(parent) = IF 1 <= Len(unit) - 1 THEN Len(unit) - 1 - 1 + 1 ELSE 0
      /\ \A i \in 1 .. Len(unit) - 1 - 1 + 1 : parent[i] = unit[1 + i - 1]
  <2>1. 1 \in Int /\ Len(unit) - 1 \in Int
    BY <1>1
  <2> QED
    BY <1>2, <2>1, SubSeqProperties DEF Parent
<1> HIDE DEF parent
<1>4. Len(parent) = Len(unit) - 1 /\ \A i \in 1 .. Len(unit) - 1 : parent[i] = unit[i]
  <2> DEFINE depth == Len(unit)
  <2>a. depth \in Nat \ {0} /\ Len(parent) = IF 1 <= depth - 1 THEN depth - 1 - 1 + 1 ELSE 0
    BY <1>1, <1>3
  <2> HIDE DEF depth
  <2>b. Len(parent) = depth - 1 /\ depth - 1 - 1 + 1 = depth - 1
    BY <2>a
  <2>1. Len(parent) = Len(unit) - 1 /\ Len(unit) - 1 - 1 + 1 = Len(unit) - 1
    BY <2>b DEF depth
  <2>2. \A i \in 1 .. Len(unit) - 1 : 1 + i - 1 = i
    BY <1>1
  <2> QED
    BY <1>3, <2>1, <2>2
<1>5. /\ path \in Seq(S) /\ Len(path) = Len(parent) + 1
      /\ \A i \in 1 .. Len(parent) : path[i] = parent[i]
      /\ path[Len(parent) + 1] = name
  BY <1>3, AppendProperties
<1> HIDE DEF path
<1>6. Len(path) = Len(unit) /\ path[Len(unit)] = name
  BY <1>1, <1>4, <1>5
<1>7. \A i \in 1 .. Len(unit) - 1 : path[i] = unit[i]
  BY <1>4, <1>5
<1> QED
  BY <1>1, <1>5, <1>6, <1>7 DEF path, parent

(* What the helper renames and removes is apart from the record it writes    *)
(* and from the directory it runs in, at whatever depth unit, record and     *)
(* temporary files are; and a unit that is apart from both is handed over    *)
(* (helper.go, validateHelperRequest).                                       *)
THEOREM HandoverAlwaysContained ==
  LayoutData =>
    /\ HandoverIsContained
    /\ \A target \in {t \in ReleaseAssets : t.os # "windows"}, layout \in Layouts :
         ~Within(layout.recovery, layout.unit) /\ ~Within(layout.unit, HelperDirectory) =>
           HandsOver(target, layout)
<1> SUFFICES ASSUME LayoutData, NEW layout \in Layouts
             PROVE  /\ \A target \in Targets :
                         HandsOver(target, layout) /\ ~Within(TempDir, layout.unit) =>
                           \A path \in {layout.unit, Staged(layout), Backup(layout)} :
                             /\ ~Within(layout.recovery, path)
                             /\ ~Within(path, HelperDirectory) /\ ~Within(HelperDirectory, path)
                    /\ \A target \in {t \in ReleaseAssets : t.os # "windows"} :
                         ~Within(layout.recovery, layout.unit) /\ ~Within(layout.unit, HelperDirectory) =>
                           HandsOver(target, layout)
  BY DEF HandoverIsContained
<1> DEFINE unit == layout.unit
           recovery == layout.recovery
           In(s) == {s[k] : k \in DOMAIN s}
           S == In(unit) \cup In(recovery) \cup In(TempDir) \cup {"update", "backup", "helper"}
           depth == Len(unit)
           top == Len(TempDir)
<1>1. unit \in Seq(S) /\ recovery \in Seq(S) /\ TempDir \in Seq(S) /\ unit # <<>>
  <2>1. unit \in Seq(In(unit)) /\ recovery \in Seq(In(recovery)) /\ TempDir \in Seq(In(TempDir))
    BY DEF LayoutData, IsSequence
  <2>2. In(unit) \subseteq S /\ In(recovery) \subseteq S /\ In(TempDir) \subseteq S
    OBVIOUS
  <2> HIDE DEF S, In, unit, recovery
  <2>3. unit \in Seq(S) /\ recovery \in Seq(S) /\ TempDir \in Seq(S)
    BY <2>1, <2>2, SeqMonotonic
  <2> QED
    BY <2>3 DEF LayoutData, unit
<1>2. "update" \in S /\ "backup" \in S /\ "helper" \in S
  OBVIOUS
<1>3. /\ \A k \in DOMAIN recovery : recovery[k] \notin {"update", "backup"}
      /\ \A k \in DOMAIN TempDir : TempDir[k] \notin {"update", "backup"}
  BY DEF LayoutData
<1> HIDE DEF S, unit, recovery
<1>4. /\ top \in Nat /\ DOMAIN TempDir = 1 .. top
      /\ Len(recovery) \in Nat /\ DOMAIN recovery = 1 .. Len(recovery)
  BY <1>1, LenProperties, Zenon
<1>5. /\ HelperDirectory \in Seq(S) /\ Len(HelperDirectory) = top + 1
      /\ \A i \in 1 .. top : HelperDirectory[i] = TempDir[i]
      /\ HelperDirectory[top + 1] = "helper"
  BY <1>1, <1>2, AppendProperties DEF HelperDirectory
<1>6. /\ Staged(layout) \in Seq(S) /\ Len(Staged(layout)) = depth /\ depth \in Nat \ {0}
      /\ \A i \in 1 .. depth - 1 : Staged(layout)[i] = unit[i]
      /\ Staged(layout)[depth] = "update"
  BY <1>1, <1>2, BesideUnit DEF Staged, unit
<1>7. /\ Backup(layout) \in Seq(S) /\ Len(Backup(layout)) = depth
      /\ \A i \in 1 .. depth - 1 : Backup(layout)[i] = unit[i]
      /\ Backup(layout)[depth] = "backup"
  BY <1>1, <1>2, BesideUnit DEF Backup, unit
<1> HIDE DEF depth, top
<1>8. ASSUME NEW path \in {Staged(layout), Backup(layout)}
      PROVE  /\ ~Within(recovery, path)
             /\ ~Within(unit, HelperDirectory) => ~Within(path, HelperDirectory)
             /\ ~Within(HelperDirectory, path)
  <2>1. /\ path \in Seq(S) /\ Len(path) = depth
        /\ \A i \in 1 .. depth - 1 : path[i] = unit[i]
        /\ path[depth] \in {"update", "backup"}
    BY <1>6, <1>7
  <2>2. ~Within(recovery, path)
    <3> SUFFICES ASSUME Within(recovery, path)  PROVE FALSE
      OBVIOUS
    <3>1. depth <= Len(recovery) /\ \A i \in 1 .. depth : recovery[i] = path[i]
      BY <1>1, <2>1, WithinIsPrefix
    <3>2. depth \in 1 .. Len(recovery) /\ depth \in 1 .. depth
      BY <1>4, <1>6, <3>1
    <3> QED
      BY <1>3, <1>4, <2>1, <3>1, <3>2
  <2>3. ASSUME Within(path, HelperDirectory)  PROVE Within(unit, HelperDirectory)
    <3>1. top + 1 <= depth /\ \A i \in 1 .. top + 1 : path[i] = HelperDirectory[i]
      BY <1>5, <2>1, <2>3, WithinIsPrefix
    <3>2. top + 1 # depth
      <4>1. path[top + 1] = "helper"
        BY <1>4, <1>5, <3>1
      <4> QED
        BY <2>1, <4>1
    <3>3. \A i \in 1 .. top + 1 : i \in 1 .. depth - 1
      BY <1>4, <1>6, <3>1, <3>2
    <3>4. \A i \in 1 .. top + 1 : unit[i] = HelperDirectory[i]
      BY <2>1, <3>1, <3>3
    <3> QED
      BY <1>1, <1>5, <3>1, <3>4, WithinIsPrefix DEF depth
  <2>4. ~Within(HelperDirectory, path)
    <3> SUFFICES ASSUME Within(HelperDirectory, path)  PROVE FALSE
      OBVIOUS
    <3>1. depth <= top + 1 /\ \A i \in 1 .. depth : HelperDirectory[i] = path[i]
      BY <1>5, <2>1, WithinIsPrefix
    <3>2. HelperDirectory[depth] \in {"update", "backup"}
      BY <1>6, <2>1, <3>1
    <3>3. depth \in 1 .. top \/ depth = top + 1
      BY <1>4, <1>6, <3>1
    <3> QED
      BY <1>3, <1>4, <1>5, <3>2, <3>3
  <2> QED
    BY <2>2, <2>3, <2>4
<1>9. ASSUME Within(HelperDirectory, unit)  PROVE Within(TempDir, unit) \/ Within(unit, HelperDirectory)
  <2>1. depth <= top + 1 /\ \A i \in 1 .. depth : HelperDirectory[i] = unit[i]
    BY <1>1, <1>5, <1>9, WithinIsPrefix DEF depth
  <2>2. CASE depth <= top
    <3>1. \A i \in 1 .. depth : TempDir[i] = unit[i]
      BY <1>4, <1>5, <1>6, <2>1, <2>2
    <3> QED
      BY <1>1, <2>2, <3>1, WithinIsPrefix DEF depth, top
  <2>3. CASE depth = top + 1
    <3>1. \A i \in 1 .. top + 1 : unit[i] = HelperDirectory[i]
      BY <2>1, <2>3
    <3>2. top + 1 <= depth
      BY <1>4, <2>3
    <3> QED
      BY <1>1, <1>5, <3>1, <3>2, WithinIsPrefix DEF depth
  <2> QED
    BY <1>4, <1>6, <2>1, <2>2, <2>3
<1>10. ASSUME NEW target \in Targets, HandsOver(target, layout), ~Within(TempDir, unit),
              NEW path \in {unit, Staged(layout), Backup(layout)}
       PROVE  /\ ~Within(recovery, path)
              /\ ~Within(path, HelperDirectory) /\ ~Within(HelperDirectory, path)
  <2>1. ~Within(recovery, unit) /\ ~Within(unit, HelperDirectory)
    BY <1>10 DEF HandsOver, unit, recovery
  <2> QED
    BY <1>8, <1>9, <1>10, <2>1
<1>11. ASSUME NEW target \in {t \in ReleaseAssets : t.os # "windows"},
              ~Within(recovery, unit), ~Within(unit, HelperDirectory)
       PROVE  HandsOver(target, layout)
  <2>1. target \in HelperTargets
    BY DEF HelperTargets, ReleaseAssets, Targets
  <2> QED
    BY <1>1, <1>8, <1>11, <2>1 DEF HandsOver, unit, recovery
<1> QED
  BY <1>10, <1>11 DEF unit, recovery

-----------------------------------------------------------------------------
(* The release workflow packs every version for every target, and its        *)
(* manifest describes exactly the files of the target.  An archive of which  *)
(* that is true comes from the workflow: any other is damaged somewhere.     *)
IsArchive(archive) ==
  /\ archive = [identity |-> archive.identity, regular |-> archive.regular, orderly |-> archive.orderly,
                listed |-> archive.listed, files |-> archive.files]
  /\ archive.files \in [DOMAIN archive.files -> [mode : STRING, content : STRING]]

Intact(archive) ==
  LET required == Required(archive.identity.target) IN
  /\ archive.identity.sound = TRUE /\ archive.regular /\ archive.orderly
  /\ DOMAIN archive.files = DOMAIN required /\ archive.listed = archive.files
  /\ \A path \in DOMAIN archive.files :
       archive.files[path].mode = required[path] /\ archive.files[path].content # "empty"

ArchiveData ==
  /\ \A archive \in Archives :
       /\ IsArchive(archive)
       /\ Intact(archive) =>
            \E i \in DOMAIN Ascending, target \in ReleaseAssets : archive = Builds[i][target]
  /\ \A i \in DOMAIN Ascending, target \in ReleaseAssets :
       LET build == Builds[i][target] IN
       Intact(build) /\ build.identity = [version |-> Ascending[i], target |-> target, sound |-> TRUE]

LEMMA UnpackedAsPacked ==
  ASSUME NEW archive, IsArchive(archive), NEW os, os # "windows"
  PROVE  Unpacked(archive, os) = archive
<1> DEFINE files == archive.files
           unpacked == [path \in DOMAIN files |-> [files[path] EXCEPT !.mode = Permissions(os, files[path].mode)]]
<1>1. ASSUME NEW path \in DOMAIN files
      PROVE  [files[path] EXCEPT !.mode = Permissions(os, files[path].mode)] = files[path]
  <2>1. files[path] \in [mode : STRING, content : STRING]
    BY DEF IsArchive
  <2>2. Permissions(os, files[path].mode) = files[path].mode
    BY DEF Permissions
  <2> HIDE DEF files
  <2> QED
    BY <2>1, <2>2
<1>2. unpacked = files
  <2>1. files = [path \in DOMAIN files |-> files[path]]
    BY DEF IsArchive
  <2> HIDE DEF files
  <2> QED
    BY <1>1, <2>1
<1>3. Unpacked(archive, os) = [archive EXCEPT !.files = unpacked]
  BY DEF Unpacked
<1> HIDE DEF unpacked
<1>4. archive = [identity |-> archive.identity, regular |-> archive.regular, orderly |-> archive.orderly,
                 listed |-> archive.listed, files |-> archive.files]
  BY DEF IsArchive
<1> QED
  BY <1>2, <1>3, <1>4

LEMMA GenuineIsAccepted ==
  ASSUME ReleaseData, ArchiveData,
         NEW target \in ReleaseAssets, target.os # "windows",
         NEW archive \in Archives, NEW i \in DOMAIN Ascending
  PROVE  Accepts(Ascending[i], target, Unpacked(archive, target.os)) <=> archive = Builds[i][target]
<1>1. Unpacked(archive, target.os) = archive
  BY UnpackedAsPacked DEF ArchiveData
<1>2. ASSUME archive = Builds[i][target]  PROVE Accepts(Ascending[i], target, archive)
  <2>1. target \in StagingTargets
    BY DEF StagingTargets, ReleaseAssets
  <2>2. Intact(archive) /\ archive.identity = [version |-> Ascending[i], target |-> target, sound |-> TRUE]
    BY <1>2 DEF ArchiveData
  <2>3. archive.identity.target = target
    BY <2>2
  <2> QED
    BY <2>1, <2>2, <2>3 DEF Accepts, Intact
<1>3. ASSUME Accepts(Ascending[i], target, archive)  PROVE archive = Builds[i][target]
  <2>1. archive.identity = [version |-> Ascending[i], target |-> target, sound |-> TRUE]
    BY <1>3 DEF Accepts
  <2>2. archive.identity.target = target /\ archive.identity.sound = TRUE /\ archive.identity.version = Ascending[i]
    BY <2>1
  <2>3. Intact(archive)
    BY <1>3, <2>2 DEF Accepts, Intact
  <2>4. PICK j \in DOMAIN Ascending, other \in ReleaseAssets : archive = Builds[j][other]
    BY <2>3 DEF ArchiveData
  <2>5. archive.identity = [version |-> Ascending[j], target |-> other, sound |-> TRUE]
    BY <2>4 DEF ArchiveData
  <2>6. other = target /\ Ascending[j] = Ascending[i]
    BY <2>2, <2>5
  <2>7. Precedence(Ascending[j]) = j /\ Precedence(Ascending[i]) = i
    BY PlacesInOrder
  <2>8. j = i
    BY <2>6, <2>7
  <2> QED
    BY <2>4, <2>6, <2>8
<1> QED
  BY <1>1, <1>2, <1>3

(* Only the newest release is offered, only the package built for it is      *)
(* staged, and only a unit apart from everything else is replaced: for any   *)
(* versions, histories, archives and layouts (wails_updater.go, Check;       *)
(* staging.go, validateExtractedManifest; helper.go, validateHelperRequest). *)
THEOREM ReleasesAlwaysTrusted ==
  ReleaseData /\ ArchiveData /\ LayoutData => (Spec => []ReleasesAreTrusted)
<1> SUFFICES ASSUME ReleaseData, ArchiveData, LayoutData  PROVE Spec => []ReleasesAreTrusted
  OBVIOUS
<1>1. VersionsAreOrdered /\ OffersAreNewest
  BY OffersAlwaysNewest
<1>2. GatesAgree /\ HandoverIsContained
  BY GenuineIsAccepted, HandoverAlwaysContained DEF GatesAgree
<1>3. ReleasesAreTrusted
  BY <1>1, <1>2 DEF ReleasesAreTrusted
<1> QED
  BY <1>3, PTL
=============================================================================
