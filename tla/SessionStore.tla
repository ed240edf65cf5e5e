---------------------------- MODULE SessionStore ----------------------------
(***************************************************************************)
(* The owner of the session file: internal/session/service.go.  Saves of   *)
(* the editor and the mutations of command states are accepted under two   *)
(* locks and handed to one save worker, which writes the newest payload of *)
(* the oldest document and answers everybody that payload covers.  Group   *)
(* replacements and player config associations write the file themselves,  *)
(* past the queue.  commandMu is the variable command: whoever holds it.   *)
(* A holder that changes command states or groups holds documentMu too,    *)
(* which a Save needs for the instant of its acceptance.  WriteAtomic      *)
(* replaces the file or fails and leaves it.  A call that is refused       *)
(* changes nothing and is no action.  Dialogs are answered before the      *)
(* operation starts.                                                       *)
(***************************************************************************)
EXTENDS Naturals, Sequences, FiniteSets

CONSTANTS
  Path,         \* session files
  Command,      \* ids of state-changing commands
  Groups,       \* terminal group sets
  Config,       \* player config references
  Saves,        \* calls of App.SaveSession; a call is the revision the App numbers it with
  Authored,     \* Authored[r]: the document the editor sends with call r
  Starter,      \* the document of a new session
  MaxRevision,  \* bound: saved revision up to which command states are mutated
  MaxDirect,    \* bound: saved revision up to which the file is written past the queue
  MaxEpoch,     \* bound: documents opened
  None

\* What the editor sends: its text, what has become of each command, the player config.
AuthoredDocument ==
  [text : Nat, commands : [Command -> {"stateful", "plain", "absent"}], config : Config \cup {None}]

\* stamp orders the accepted edits; it is in no file and no comparison.
Document ==
  [text : Nat, commands : [Command -> {"stateful", "plain", "absent"}], config : Config \cup {None},
   completed : SUBSET Command, groups : Groups, stamp : Nat]

Active  == [path : Path, doc : Document, requested : Nat, saved : Nat, state : {"saving", "saved", "failed"}]
Prior   == [doc : Document, requested : Nat]
Payload == [epoch : 1 .. MaxEpoch, path : Path, revision : Nat, doc : Document, prior : Prior \cup {None}]
Waiter  == [epoch : 1 .. MaxEpoch, revision : Nat, who : Saves \cup {0}]   \* 0 is the holder of commandMu
Call    == [outcome : {"waiting", "ok", "failed"}, path : Path, stamp : Nat]

Operation ==
  [kind : {"states", "groups", "config", "open"},
   stage : {"read", "waiting", "written", "saved", "failed"},
   path : Path, doc : Document, from : Document, saved : Nat]

ASSUME SessionAssumption ==
  /\ Saves \subseteq Nat \ {0}
  /\ Authored \in [Saves -> AuthoredDocument]
  /\ Starter \in Document /\ Starter.completed = {} /\ Starter.stamp = 0
  /\ MaxRevision \in Nat /\ MaxDirect \in Nat /\ MaxEpoch \in Nat
  /\ None \notin Document \cup Config \cup Active \cup Prior \cup Payload \cup Call \cup Operation

VARIABLES
  disk,       \* the document in each session file
  active,     \* Service.active
  epoch,      \* Service.epoch: the number of documents opened
  durable,    \* Service.durable: the newest written revision of each epoch
  closed,     \* Service.closed
  pending,    \* Service.pending: accepted payloads, oldest first
  waiters,    \* Service.waiters
  wake,       \* a token waits in Service.wake
  worker,     \* where runSaveWorker is
  inHand,     \* the payload it writes
  command,    \* the operation that holds commandMu, and how far it has come
  call,       \* how each call of SaveSession went
  stamp,      \* accepted edits so far
  overlapped  \* history: a file was read or written past the queue while work for it was queued

queue == <<pending, waiters, wake>>
vars  == <<disk, active, epoch, durable, closed, queue, worker, inHand, command, call, stamp, overlapped>>

-----------------------------------------------------------------------------
Init ==
  /\ disk = [p \in Path |-> Starter]
  /\ active = None /\ epoch = 0 /\ durable = [e \in 0 .. MaxEpoch |-> 0]
  /\ closed = FALSE
  /\ pending = <<>> /\ waiters = {} /\ wake = FALSE
  /\ worker = "asleep" /\ inHand = None
  /\ command = None
  /\ call = [r \in Saves |-> None]
  /\ stamp = 0 /\ overlapped = FALSE

Opened == active # None /\ ~closed

\* Mutant of DocumentLocked: a command state mutation lets go while it waits for its answer.
LockedForGroupsOnly == command # None /\ command.kind = "groups"

\* documentMu is held by a command state mutation and by a group replacement.
DocumentLocked == command # None /\ command.kind \in {"states", "groups"}

\* Some accepted payload for the file is not finished.
Queued(p) == \E i \in 1 .. Len(pending) : pending[i].path = p
Busy(p)   == Queued(p) \/ (inHand # None /\ inHand.path = p)

\* sessionsEqual
SameDocument(x, y) == [x EXCEPT !.stamp = 0] = [y EXCEPT !.stamp = 0]

\* mergeCanonicalSessionState: command states and groups come from the document at hand,
\* states of deleted commands go, and a completed command must stay a state-changing one.
Mergeable(r) == \A c \in active.doc.completed : Authored[r].commands[c] # "plain"

Merged(r) ==
  [text |-> Authored[r].text, commands |-> Authored[r].commands, config |-> Authored[r].config,
   completed |-> {c \in active.doc.completed : Authored[r].commands[c] = "stateful"},
   groups |-> active.doc.groups, stamp |-> stamp + 1]

-----------------------------------------------------------------------------
(* Saves of the editor.  Calls run concurrently, so they arrive in any      *)
(* order, and the App numbers them without regard to the open document.     *)

\* Mutant of Accepted: the worker is not signalled.
AcceptedSilently(doc, revision, prior, who) ==
  /\ pending' = Append(pending, [epoch |-> epoch, path |-> active.path, revision |-> revision,
                                 doc |-> doc, prior |-> prior])
  /\ waiters' = waiters \cup {[epoch |-> epoch, revision |-> revision, who |-> who]}
  /\ active' = [active EXCEPT !.doc = doc, !.requested = revision, !.state = "saving"]
  /\ UNCHANGED wake

\* Append a payload and its waiter and signal the worker.
Accepted(doc, revision, prior, who) ==
  /\ pending' = Append(pending, [epoch |-> epoch, path |-> active.path, revision |-> revision,
                                 doc |-> doc, prior |-> prior])
  /\ waiters' = waiters \cup {[epoch |-> epoch, revision |-> revision, who |-> who]}
  /\ wake' = TRUE
  /\ active' = [active EXCEPT !.doc = doc, !.requested = revision, !.state = "saving"]

EffectiveRevision(r) == IF r <= active.requested THEN active.requested + 1 ELSE r

SaveAccepted(r) ==
  /\ call[r] = None /\ ~DocumentLocked
  /\ Opened /\ Mergeable(r)
  /\ ~(durable[epoch] >= r /\ SameDocument(Merged(r), active.doc))
  /\ Accepted(Merged(r), EffectiveRevision(r), None, r)
  /\ call' = [call EXCEPT ![r] = [outcome |-> "waiting", path |-> active.path, stamp |-> stamp + 1]]
  /\ stamp' = stamp + 1
  /\ UNCHANGED <<disk, epoch, durable, closed, worker, inHand, command, overlapped>>

\* A call whose revision is durable and that changes nothing succeeds at once.
SaveReplayed(r) ==
  /\ call[r] = None /\ ~DocumentLocked
  /\ Opened /\ Mergeable(r)
  /\ durable[epoch] >= r /\ SameDocument(Merged(r), active.doc)
  /\ call' = [call EXCEPT ![r] = [outcome |-> "ok", path |-> active.path, stamp |-> active.doc.stamp]]
  /\ UNCHANGED <<disk, active, epoch, durable, closed, queue, worker, inHand, command, stamp, overlapped>>

-----------------------------------------------------------------------------
(* Command states: accepted like a Save, with both locks held until the     *)
(* answer is there.                                                         *)

\* The first revision above those asked for and those on disk.
NextRevision ==
  IF active.requested + 1 <= active.saved THEN active.saved + 1 ELSE active.requested + 1

\* mutateCommandStates, where the mutation changes something.
MutateCommandStates(completed) ==
  LET doc == [active.doc EXCEPT !.completed = completed] IN
  /\ command = None /\ Opened
  /\ active.saved < MaxRevision
  /\ Accepted(doc, NextRevision, [doc |-> active.doc, requested |-> active.requested], 0)
  /\ command' = [kind |-> "states", stage |-> "waiting", path |-> active.path,
                 doc |-> doc, from |-> active.doc, saved |-> active.saved]
  /\ UNCHANGED <<disk, epoch, durable, closed, worker, inHand, call, stamp, overlapped>>

ExecuteCommandState(c) ==
  /\ active # None
  /\ active.doc.commands[c] = "stateful" /\ c \notin active.doc.completed
  /\ MutateCommandStates(active.doc.completed \cup {c})

ResetCommandState(c) ==
  /\ active # None
  /\ active.doc.commands[c] = "stateful" /\ c \in active.doc.completed
  /\ MutateCommandStates(active.doc.completed \ {c})

\* ResetTerminalCommandStates, with all commands in one terminal.
ResetTerminalCommandStates ==
  /\ active # None
  /\ active.doc.completed # {}
  /\ MutateCommandStates({})

MutationReturns ==
  /\ command # None /\ command.kind = "states" /\ command.stage \in {"saved", "failed"}
  /\ command' = None
  /\ UNCHANGED <<disk, active, epoch, durable, closed, queue, worker, inHand, call, stamp, overlapped>>

-----------------------------------------------------------------------------
(* Writes past the queue: read the active document, write the file, install *)
(* what was written.                                                        *)

\* ReplaceTerminalGroups; its caller saw the revision that is saved.
ReadForGroups(groups) ==
  /\ command = None /\ Opened
  /\ groups # active.doc.groups /\ active.saved < MaxDirect
  /\ command' = [kind |-> "groups", stage |-> "read", path |-> active.path,
                 doc |-> [active.doc EXCEPT !.groups = groups], from |-> active.doc, saved |-> active.saved]
  /\ UNCHANGED <<disk, active, epoch, durable, closed, queue, worker, inHand, call, stamp, overlapped>>

\* AssociatePlayerConfig.  Bound: not of the config the document already has.
ReadForConfig(config) ==
  /\ command = None /\ Opened
  /\ config # active.doc.config /\ active.saved < MaxDirect
  /\ command' = [kind |-> "config", stage |-> "read", path |-> active.path,
                 doc |-> [active.doc EXCEPT !.config = config], from |-> active.doc, saved |-> active.saved]
  /\ UNCHANGED <<disk, active, epoch, durable, closed, queue, worker, inHand, call, stamp, overlapped>>

Direct(stage) == command # None /\ command.kind \in {"groups", "config"} /\ command.stage = stage

WriteDirectly ==
  /\ Direct("read")
  /\ \/ /\ disk' = [disk EXCEPT ![command.path] = command.doc]
        /\ command' = [command EXCEPT !.stage = "written"]
     \/ command' = None /\ UNCHANGED disk
  /\ overlapped' = (overlapped \/ Busy(command.path) \/ active.doc # command.from)
  /\ UNCHANGED <<active, epoch, durable, closed, queue, worker, inHand, call, stamp>>

\* commandMu keeps epoch and path; a replacement also insists on the revision it read.
StillInstallable ==
  /\ ~closed
  /\ command.kind = "groups" => active.saved = command.saved

\* Mutant of DirectRevision: an association, too, counts on from the revision it read.
RevisionRead == command.saved + 1

DirectRevision == IF command.kind = "groups" THEN command.saved + 1 ELSE NextRevision

InstallDirectly ==
  /\ Direct("written")
  /\ IF StillInstallable
     THEN /\ active' = [active EXCEPT !.doc = command.doc, !.requested = DirectRevision,
                                      !.saved = DirectRevision, !.state = "saved"]
          /\ durable' = [durable EXCEPT ![epoch] = DirectRevision]
     ELSE UNCHANGED <<active, durable>>
  /\ command' = None
  /\ overlapped' = (overlapped \/ ~StillInstallable \/ Busy(command.path)
                    \/ active.doc # command.from \/ disk[command.path] # command.doc)
  /\ UNCHANGED <<disk, epoch, closed, queue, worker, inHand, call, stamp>>

-----------------------------------------------------------------------------
(* Another document becomes the active one.                                 *)

Opening(p, doc) ==
  [kind |-> "open", stage |-> "read", path |-> p, doc |-> doc, from |-> doc, saved |-> 0]

\* Open
ReadToOpen(p) ==
  /\ command = None /\ ~closed /\ epoch < MaxEpoch
  /\ command' = Opening(p, disk[p])
  /\ UNCHANGED <<disk, active, epoch, durable, closed, queue, worker, inHand, call, stamp, overlapped>>

\* Create and CopyDemo write the file first.
WriteToCreate(p) ==
  LET doc == [Starter EXCEPT !.stamp = stamp + 1] IN
  /\ command = None /\ ~closed /\ epoch < MaxEpoch
  /\ disk' = [disk EXCEPT ![p] = doc]
  /\ command' = Opening(p, doc)
  /\ stamp' = stamp + 1
  /\ overlapped' = (overlapped \/ Busy(p))
  /\ UNCHANGED <<active, epoch, durable, closed, queue, worker, inHand, call>>

Activate ==
  /\ command # None /\ command.kind = "open"
  /\ IF closed THEN UNCHANGED <<active, epoch, durable>>
     ELSE /\ epoch' = epoch + 1
          /\ active' = [path |-> command.path, doc |-> command.doc,
                        requested |-> 0, saved |-> 0, state |-> "saved"]
          /\ durable' = [durable EXCEPT ![epoch + 1] = 0]
  /\ command' = None
  /\ overlapped' = (overlapped \/ Busy(command.path) \/ disk[command.path] # command.doc)
  /\ UNCHANGED <<disk, closed, queue, worker, inHand, call, stamp>>

Shutdown ==
  /\ ~closed
  /\ closed' = TRUE /\ wake' = TRUE
  /\ UNCHANGED <<disk, active, epoch, durable, pending, waiters, worker, inHand, command, call, stamp, overlapped>>

-----------------------------------------------------------------------------
(* The save worker.                                                         *)

WakeUp ==
  /\ worker = "asleep" /\ wake
  /\ worker' = "draining" /\ wake' = FALSE
  /\ UNCHANGED <<disk, active, epoch, durable, closed, pending, waiters, inHand, command, call, stamp, overlapped>>

\* How many payloads at the head of the queue belong to its oldest document.
Batch ==
  Cardinality({n \in 1 .. Len(pending) : \A i \in 1 .. n : pending[i].epoch = pending[1].epoch})

NextPayload ==
  /\ worker = "draining" /\ pending # <<>>
  /\ inHand' = pending[Batch]
  /\ pending' = SubSeq(pending, Batch + 1, Len(pending))
  /\ worker' = "writing"
  /\ active' = IF inHand'.epoch = epoch THEN [active EXCEPT !.state = "saving"] ELSE active
  /\ UNCHANGED <<disk, epoch, durable, closed, waiters, wake, command, call, stamp, overlapped>>

QueueEmpty ==
  /\ worker = "draining" /\ pending = <<>>
  /\ worker' = IF closed THEN "stopped" ELSE "asleep"
  /\ UNCHANGED <<disk, active, epoch, durable, closed, queue, inHand, command, call, stamp, overlapped>>

WritePayload ==
  /\ worker = "writing"
  /\ \/ worker' = "written" /\ disk' = [disk EXCEPT ![inHand.path] = inHand.doc]
     \/ worker' = "unwritten" /\ UNCHANGED disk
  /\ UNCHANGED <<active, epoch, durable, closed, queue, inHand, command, call, stamp, overlapped>>

\* The document that was written becomes the active one; a failed mutation is taken
\* back, unless something newer has been accepted.
ActiveAfter(written, revision) ==
  CASE written ->
         [active EXCEPT !.saved = revision, !.doc = inHand.doc,
                        !.state = IF active.requested <= revision THEN "saved" ELSE "saving"]
    [] ~written /\ inHand.prior # None /\ active.requested = inHand.revision ->
         [active EXCEPT !.saved = revision, !.doc = inHand.prior.doc,
                        !.requested = inHand.prior.requested, !.state = "failed"]
    [] OTHER -> [active EXCEPT !.saved = revision, !.state = "failed"]

\* Mutant of DurableAfter: a write that failed counts too.
DurableRegardless(written) ==
  IF inHand.revision > durable[inHand.epoch] THEN inHand.revision ELSE durable[inHand.epoch]

\* The revision that counts as durable once the payload in hand is finished.
DurableAfter(written) ==
  IF written /\ inHand.revision > durable[inHand.epoch] THEN inHand.revision ELSE durable[inHand.epoch]

\* finishPayload
FinishPayload ==
  LET written  == worker = "written"
      revision == DurableAfter(written)
      answered == {w \in waiters : w.epoch = inHand.epoch /\ w.revision <= inHand.revision}
      outcome(who) == LET w == CHOOSE w \in answered : w.who = who IN
                      IF revision >= w.revision THEN "ok" ELSE "failed" IN
  /\ worker \in {"written", "unwritten"}
  /\ durable' = [durable EXCEPT ![inHand.epoch] = revision]
  /\ active' = IF inHand.epoch = epoch THEN ActiveAfter(written, revision) ELSE active
  /\ waiters' = waiters \ answered
  /\ call' = [r \in Saves |-> IF \E w \in answered : w.who = r
                              THEN [call[r] EXCEPT !.outcome = outcome(r)] ELSE call[r]]
  /\ command' = IF \E w \in answered : w.who = 0
                THEN [command EXCEPT !.stage = IF outcome(0) = "ok" THEN "saved" ELSE "failed"]
                ELSE command
  /\ worker' = "draining" /\ inHand' = None
  /\ UNCHANGED <<disk, epoch, closed, pending, wake, stamp, overlapped>>

-----------------------------------------------------------------------------
Editor == \E r \in Saves : SaveAccepted(r) \/ SaveReplayed(r)

CommandStart ==
  \/ \E c \in Command : ExecuteCommandState(c) \/ ResetCommandState(c)
  \/ ResetTerminalCommandStates
  \/ \E groups \in Groups : ReadForGroups(groups)
  \/ \E config \in Config : ReadForConfig(config)
  \/ \E p \in Path : ReadToOpen(p) \/ WriteToCreate(p)

CommandStep == MutationReturns \/ WriteDirectly \/ InstallDirectly \/ Activate

WorkerStep == WakeUp \/ NextPayload \/ QueueEmpty \/ WritePayload \/ FinishPayload

Next == Editor \/ CommandStart \/ CommandStep \/ WorkerStep \/ Shutdown

\* The worker's goroutine and the one that holds commandMu keep running.
Fairness == WF_vars(WorkerStep) /\ WF_vars(CommandStep)

Spec == Init /\ [][Next]_vars /\ Fairness

-----------------------------------------------------------------------------
(* Properties.                                                             *)

\* Every variable has its type; the worker has a payload exactly while it writes.
TypeOK ==
  /\ disk \in [Path -> Document]
  /\ active \in Active \cup {None}
  /\ epoch \in 0 .. MaxEpoch /\ (epoch = 0 <=> active = None)
  /\ durable \in [0 .. MaxEpoch -> Nat] /\ closed \in BOOLEAN
  /\ pending \in Seq(Payload) /\ waiters \subseteq Waiter /\ wake \in BOOLEAN
  /\ worker \in {"asleep", "draining", "writing", "written", "unwritten", "stopped"}
  /\ inHand \in Payload \cup {None}
  /\ inHand # None <=> worker \in {"writing", "written", "unwritten"}
  /\ command \in Operation \cup {None}
  /\ call \in [Saves -> Call \cup {None}]
  /\ stamp \in Nat /\ overlapped \in BOOLEAN

\* When nothing is under way and the store says "saved", the file holds the active
\* document, whatever was coalesced, rolled back or put back before.
SettledSessionIsOnDisk ==
  ~overlapped /\ Opened /\ command = None /\ pending = <<>> /\ inHand = None /\ active.state = "saved"
    => disk[active.path] = active.doc

\* A command state mutation says "saved" only when the file has it, although the worker
\* may have merged its payload with others.
SavedStatesAreInTheFile ==
  ~overlapped /\ command # None /\ command.kind = "states" /\ command.stage = "saved"
    => disk[command.path].completed = command.doc.completed

\* What is called saved is in the file: the document at rest, and the states a command is
\* waiting for in the middle of everything else.
SavedIsInTheFile == SettledSessionIsOnDisk /\ SavedStatesAreInTheFile

\* A mutation that failed has left no trace in the active document, so that no later
\* save can make it durable after all.
FailedMutationLeavesNoTrace ==
  ~overlapped /\ command # None /\ command.kind = "states" /\ command.stage = "failed"
    => active.doc.completed = command.from.completed

\* The revision reported as saved never goes back while a document is open: windows
\* drop events of older revisions.
SavedRevisionNeverGoesBack ==
  [][active # None /\ epoch' = epoch => active'.saved >= active.saved]_vars

Awaited(r) == call[r] # None /\ call[r].outcome = "waiting"

\* Call r waits for a revision of the open document above the newest one asked for.
SetBack(r) == \E w \in waiters : w.who = r /\ w.epoch = epoch /\ w.revision > active.requested

\* Whoever holds commandMu lets go of it, and with it of documentMu: a mutation cannot
\* wait for an answer for ever and keep every Save out.  A Save is answered too, unless the
\* revision asked for is set back below its own while it waits (ReplaceTerminalGroups at
\* service.go:692), and nothing else sets it back.
CallersAreAnswered ==
  /\ (command # None) ~> (command = None)
  /\ \A r \in Saves : []~SetBack(r) => (Awaited(r) ~> ~Awaited(r))
  /\ [][(\E r \in Saves : ~SetBack(r) /\ SetBack(r)') => InstallDirectly /\ command.kind = "groups"]_vars

-----------------------------------------------------------------------------
(* What the documents say and the code does not keep.                      *)

\* Comment on Service in service.go: every accepted caller waits until its revision or a
\* newer one is durable, so the file holds what was acknowledged or a later edit.
AcknowledgedEditsReachTheFile ==
  ~overlapped => \A r \in Saves :
    call[r] # None /\ call[r].outcome = "ok" => disk[call[r].path].stamp >= call[r].stamp

\* Comments on Service and on Shutdown in service.go: every accepted caller waits until its
\* revision or a newer one is durable, and what is accepted is drained.  After a group
\* replacement has set the revision back, the last payload of a batch may be below an
\* earlier one: finishPayload answers nobody above it, and that Save waits for ever.
EverySaveIsAnswered == \A r \in Saves : Awaited(r) ~> ~Awaited(r)

\* specs/020-terminal-grouping/data-model.md, Generic save: a stale full-session payload
\* cannot replace the canonical groups.  The code writes what was queued before the
\* replacement after it, so this does not hold.
SavesLeaveGroupsAlone ==
  [][WritePayload => \A p \in Path : disk'[p].groups = disk[p].groups]_vars

=============================================================================
