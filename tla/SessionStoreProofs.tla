------------------------- MODULE SessionStoreProofs -------------------------
(* Proofs about SessionStore for any files, commands, calls and bounds.     *)
EXTENDS SessionStore, FiniteSetTheorems, TLAPS

\* Whoever waits is known: a call of SaveSession, or the one mutation that holds commandMu.
WaitersAreKnown ==
  /\ \A w \in waiters :
       /\ w.who \in Saves => call[w.who] # None
       /\ w.who = 0 => command # None /\ command.kind = "states" /\ command.stage = "waiting"
  /\ \A v, w \in waiters : v.who = 0 /\ w.who = 0 => v = w

\* An operation on the document has one, and an opening has an epoch left.
OperationsHaveADocument ==
  command # None =>
    /\ command.kind # "open" => active # None
    /\ command.kind = "open" => epoch < MaxEpoch

\* The revision shown for the open document is the one recorded for its epoch.
SavedIsDurable == active # None => active.saved = durable[epoch]

Consistent == TypeOK /\ WaitersAreKnown /\ OperationsHaveADocument /\ SavedIsDurable

\* Initially the parts of the invariant hold: no document is open and nobody waits.
LEMMA InitConsistent == Init => Consistent
  <1> SUFFICES ASSUME Init PROVE Consistent
    OBVIOUS
  <1> USE SessionAssumption DEF Init
  <1>1. closed \in BOOLEAN /\ wake \in BOOLEAN /\ overlapped \in BOOLEAN
    OBVIOUS
  <1>2. disk \in [Path -> Document] /\ durable \in [0 .. MaxEpoch -> Nat] /\ epoch \in 0 .. MaxEpoch
    OBVIOUS
  <1>3. call \in [Saves -> Call \cup {None}] /\ pending \in Seq(Payload)
    OBVIOUS
  <1>4. TypeOK
    BY <1>1, <1>2, <1>3 DEF TypeOK
  <1>5. WaitersAreKnown /\ OperationsHaveADocument /\ SavedIsDurable
    BY DEF WaitersAreKnown, OperationsHaveADocument, SavedIsDurable
  <1> QED
    BY <1>4, <1>5 DEF Consistent

\* Appending a payload with its waiter keeps the queue's types.
LEMMA AcceptedKeepsTypes ==
  ASSUME TypeOK, active # None, NEW doc \in Document, NEW revision \in Nat,
         NEW prior \in Prior \cup {None}, NEW who \in Saves \cup {0},
         Accepted(doc, revision, prior, who)
  PROVE  /\ pending' \in Seq(Payload) /\ waiters' \subseteq Waiter /\ wake' = TRUE
         /\ active' \in Active /\ active'.saved = active.saved
         /\ \A w \in waiters' : w \in waiters \/ w.who = who
  <1> USE SessionAssumption
  <1>1. active \in Active /\ epoch \in 1 .. MaxEpoch
    BY DEF TypeOK
  <1>2. [epoch |-> epoch, path |-> active.path, revision |-> revision, doc |-> doc, prior |-> prior] \in Payload
    BY <1>1 DEF Payload, Active
  <1>3. [epoch |-> epoch, revision |-> revision, who |-> who] \in Waiter
    BY <1>1 DEF Waiter
  <1>4. active' \in Active /\ active'.saved = active.saved
    BY <1>1 DEF Accepted, Active
  <1> QED
    BY <1>2, <1>3, <1>4 DEF Accepted, TypeOK

\* What a call sends and the open document holds merge to a document.
LEMMA MergedIsDocument ==
  ASSUME TypeOK, active # None, NEW r \in Saves
  PROVE  Merged(r) \in Document /\ EffectiveRevision(r) \in Nat
  <1> USE SessionAssumption
  <1>1. active \in Active /\ Authored[r] \in AuthoredDocument /\ r \in Nat /\ stamp + 1 \in Nat
    BY DEF TypeOK
  <1>2. active.doc \in Document /\ active.requested \in Nat
    BY <1>1 DEF Active
  <1>3. {c \in active.doc.completed : Authored[r].commands[c] = "stateful"} \in SUBSET Command
    BY <1>2 DEF Document
  <1>4. Merged(r) \in Document
    BY <1>1, <1>2, <1>3 DEF Merged, Document, AuthoredDocument
  <1> QED
    BY <1>1, <1>2, <1>4 DEF EffectiveRevision

\* An accepted Save keeps the invariant.
LEMMA SaveAcceptedConsistent ==
  ASSUME Consistent, NEW r \in Saves, SaveAccepted(r)
  PROVE  Consistent'
  <1> USE SessionAssumption
  <1>1. TypeOK /\ active # None
    BY DEF Consistent, SaveAccepted, Opened
  <1>2. /\ pending' \in Seq(Payload) /\ waiters' \subseteq Waiter /\ wake' = TRUE
        /\ active' \in Active /\ active'.saved = active.saved
        /\ \A w \in waiters' : w \in waiters \/ w.who = r
    BY <1>1, MergedIsDocument, AcceptedKeepsTypes DEF SaveAccepted
  <1>3. [outcome |-> "waiting", path |-> active.path, stamp |-> stamp + 1] \in Call
    BY <1>1 DEF TypeOK, Active, Call
  <1>4. call' \in [Saves -> Call \cup {None}] /\ call'[r] # None
        /\ \A q \in Saves : call[q] # None => call'[q] # None
    BY <1>1, <1>3 DEF SaveAccepted, TypeOK
  <1>5. wake' \in BOOLEAN
    BY <1>2
  <1>6. TypeOK'
    BY <1>1, <1>2, <1>4, <1>5 DEF SaveAccepted, TypeOK
  <1>7. r # 0
    OBVIOUS
  <1>8. WaitersAreKnown'
    BY <1>2, <1>4, <1>7 DEF SaveAccepted, WaitersAreKnown, Consistent
  <1>9. OperationsHaveADocument' /\ SavedIsDurable'
    BY <1>1, <1>2 DEF SaveAccepted, OperationsHaveADocument, SavedIsDurable, Consistent
  <1> QED
    BY <1>6, <1>8, <1>9 DEF Consistent

\* An accepted mutation of command states keeps it: its waiter is the only one of its kind.
LEMMA MutationConsistent ==
  ASSUME Consistent, NEW completed \in SUBSET Command, MutateCommandStates(completed)
  PROVE  Consistent'
  <1> DEFINE doc == [active.doc EXCEPT !.completed = completed]
             prior == [doc |-> active.doc, requested |-> active.requested]
  <1> USE SessionAssumption
  <1>1. TypeOK /\ active # None /\ command = None /\ active \in Active
    BY DEF Consistent, MutateCommandStates, Opened, TypeOK
  <1>2. doc \in Document /\ prior \in Prior /\ NextRevision \in Nat
    BY <1>1 DEF Active, Document, Prior, NextRevision
  <1>3. Accepted(doc, NextRevision, prior, 0)
    BY DEF MutateCommandStates
  <1> HIDE DEF doc, prior
  <1>4. /\ pending' \in Seq(Payload) /\ waiters' \subseteq Waiter /\ wake' = TRUE
        /\ active' \in Active /\ active'.saved = active.saved
        /\ \A w \in waiters' : w \in waiters \/ w.who = 0
    BY <1>1, <1>2, <1>3, AcceptedKeepsTypes
  <1>5. /\ command' = [kind |-> "states", stage |-> "waiting", path |-> active.path,
                       doc |-> doc, from |-> active.doc, saved |-> active.saved]
        /\ UNCHANGED <<disk, epoch, durable, closed, worker, inHand, call, stamp, overlapped>>
    BY DEF MutateCommandStates, doc
  <1>6. command' \in Operation /\ command'.kind = "states" /\ command'.stage = "waiting" /\ command' # None
    BY <1>1, <1>2, <1>5 DEF Operation, Active
  <1>7. wake' \in BOOLEAN
    BY <1>4
  <1>8. TypeOK'
    BY <1>1, <1>4, <1>5, <1>6, <1>7 DEF TypeOK
  <1>9. \A w \in waiters : w.who # 0
    BY <1>1 DEF Consistent, WaitersAreKnown
  <1>10. \A v, w \in waiters' : v.who = 0 /\ w.who = 0 => v = w
    BY <1>3, <1>9 DEF Accepted
  <1>11. WaitersAreKnown'
    BY <1>4, <1>5, <1>6, <1>10 DEF WaitersAreKnown, Consistent
  <1>12. OperationsHaveADocument' /\ SavedIsDurable'
    BY <1>1, <1>4, <1>5, <1>6 DEF OperationsHaveADocument, SavedIsDurable, Consistent
  <1> QED
    BY <1>8, <1>11, <1>12 DEF Consistent

\* A call that succeeds at once keeps it: only its outcome is new.
LEMMA SaveReplayedConsistent ==
  ASSUME Consistent, NEW r \in Saves, SaveReplayed(r)
  PROVE  Consistent'
  <1>1. TypeOK /\ active \in Active
    BY DEF Consistent, SaveReplayed, Opened, TypeOK
  <1>2. [outcome |-> "ok", path |-> active.path, stamp |-> active.doc.stamp] \in Call
    BY <1>1 DEF Active, Document, Call
  <1>3. call' \in [Saves -> Call \cup {None}] /\ \A q \in Saves : call[q] # None => call'[q] # None
    BY <1>1, <1>2, SessionAssumption DEF SaveReplayed, TypeOK
  <1>4. TypeOK'
    BY <1>1, <1>3 DEF SaveReplayed, TypeOK, queue
  <1> QED
    BY <1>3, <1>4 DEF SaveReplayed, Consistent, WaitersAreKnown, OperationsHaveADocument, SavedIsDurable, queue

\* The reads that start an operation keep it: nobody waits for the holder of commandMu.
LEMMA ReadConsistent ==
  ASSUME Consistent,
         \/ \E groups \in Groups : ReadForGroups(groups)
         \/ \E config \in Config : ReadForConfig(config)
         \/ \E p \in Path : ReadToOpen(p)
  PROVE  Consistent'
  <1> USE SessionAssumption
  <1>1. TypeOK /\ command = None
        /\ UNCHANGED <<disk, active, epoch, durable, closed, queue, worker, inHand, call, stamp, overlapped>>
    BY DEF Consistent, ReadForGroups, ReadForConfig, ReadToOpen
  <1>2. /\ command' \in Operation
        /\ command'.kind # "open" => active # None
        /\ command'.kind = "open" => epoch < MaxEpoch
    <2>1. ASSUME NEW groups \in Groups, ReadForGroups(groups)
          PROVE  command' \in Operation /\ command'.kind = "groups" /\ active # None
      <3>1. active \in Active /\ active # None
        BY <1>1, <2>1 DEF ReadForGroups, Opened, TypeOK
      <3>2. [active.doc EXCEPT !.groups = groups] \in Document
        BY <3>1 DEF Active, Document
      <3> QED
        BY <2>1, <3>1, <3>2 DEF ReadForGroups, Operation, Active
    <2>2. ASSUME NEW config \in Config, ReadForConfig(config)
          PROVE  command' \in Operation /\ command'.kind = "config" /\ active # None
      <3>1. active \in Active /\ active # None
        BY <1>1, <2>2 DEF ReadForConfig, Opened, TypeOK
      <3>2. [active.doc EXCEPT !.config = config] \in Document
        BY <3>1 DEF Active, Document
      <3> QED
        BY <2>2, <3>1, <3>2 DEF ReadForConfig, Operation, Active
    <2>3. ASSUME NEW p \in Path, ReadToOpen(p)
          PROVE  command' \in Operation /\ command'.kind = "open" /\ epoch < MaxEpoch
      <3>1. disk[p] \in Document
        BY <1>1 DEF TypeOK
      <3> QED
        BY <2>3, <3>1 DEF ReadToOpen, Opening, Operation
    <2> QED
      BY <2>1, <2>2, <2>3
  <1>3. TypeOK'
    BY <1>1, <1>2 DEF TypeOK, queue
  <1>4. WaitersAreKnown'
    BY <1>1 DEF Consistent, WaitersAreKnown, queue
  <1> QED
    BY <1>1, <1>2, <1>3, <1>4 DEF Consistent, OperationsHaveADocument, SavedIsDurable, queue

\* Creating a file keeps it.
LEMMA CreateConsistent ==
  ASSUME Consistent, NEW p \in Path, WriteToCreate(p)
  PROVE  Consistent'
  <1> DEFINE doc == [Starter EXCEPT !.stamp = stamp + 1]
  <1> USE SessionAssumption
  <1>1. TypeOK /\ command = None
    BY DEF Consistent, WriteToCreate
  <1>2. doc \in Document
    <2>1. Starter \in Document
      OBVIOUS
    <2>2. stamp + 1 \in Nat
      BY <1>1 DEF TypeOK
    <2> QED
      BY ONLY <2>1, <2>2 DEF Document, doc
  <1>3. /\ disk' = [disk EXCEPT ![p] = doc] /\ command' = Opening(p, doc) /\ stamp' = stamp + 1
        /\ epoch < MaxEpoch
        /\ UNCHANGED <<active, epoch, durable, closed, queue, worker, inHand, call>>
        /\ overlapped' = (overlapped \/ Busy(p))
    BY DEF WriteToCreate
  <1>4. overlapped' \in BOOLEAN
    BY <1>3
  <1> HIDE DEF doc
  <1>5. command' \in Operation /\ command'.kind = "open"
    BY <1>2, <1>3 DEF Opening, Operation
  <1>6. disk' \in [Path -> Document] /\ stamp' \in Nat
    BY <1>1, <1>2, <1>3 DEF TypeOK
  <1>7. TypeOK'
    BY <1>1, <1>3, <1>4, <1>5, <1>6 DEF TypeOK, queue
  <1>8. WaitersAreKnown'
    BY <1>1, <1>3 DEF Consistent, WaitersAreKnown, queue
  <1> QED
    BY <1>3, <1>5, <1>7, <1>8 DEF Consistent, OperationsHaveADocument, SavedIsDurable

\* A write past the queue keeps it, whether it succeeds or fails.
LEMMA WriteDirectlyConsistent ==
  ASSUME Consistent, WriteDirectly
  PROVE  Consistent'
  <1> USE SessionAssumption
  <1>1. TypeOK /\ command \in Operation /\ command # None /\ command.kind \in {"groups", "config"}
    BY DEF Consistent, WriteDirectly, Direct, TypeOK
  <1>2. command.path \in Path /\ command.doc \in Document
    BY <1>1 DEF Operation
  <1>3. disk' \in [Path -> Document]
    BY <1>1, <1>2 DEF WriteDirectly, TypeOK
  <1>4. command' = None \/ (command' \in Operation /\ command' # None /\ command'.kind = command.kind)
    <2>1. [command EXCEPT !.stage = "written"] \in Operation
      BY <1>1 DEF Operation
    <2> QED
      BY <1>1, <2>1 DEF WriteDirectly, Operation
  <1>5. overlapped' \in BOOLEAN
    BY <1>1 DEF WriteDirectly, TypeOK
  <1>6. TypeOK'
    BY <1>1, <1>3, <1>4, <1>5 DEF WriteDirectly, TypeOK, queue
  <1>7. WaitersAreKnown'
    BY <1>1 DEF Consistent, WriteDirectly, WaitersAreKnown, queue
  <1> QED
    BY <1>1, <1>4, <1>6, <1>7 DEF WriteDirectly, Consistent, OperationsHaveADocument, SavedIsDurable

\* Installing what was written past the queue keeps it: both revisions move together.
LEMMA InstallDirectlyConsistent ==
  ASSUME Consistent, InstallDirectly
  PROVE  Consistent'
  <1> USE SessionAssumption
  <1>1. /\ TypeOK /\ command \in Operation /\ command.kind \in {"groups", "config"}
        /\ active \in Active /\ epoch \in 0 .. MaxEpoch /\ active # None
    BY DEF Consistent, InstallDirectly, Direct, TypeOK, OperationsHaveADocument
  <1>2. command.doc \in Document /\ DirectRevision \in Nat
    BY <1>1 DEF Operation, Active, DirectRevision, NextRevision
  <1>3. /\ active' \in Active /\ active' # None /\ durable' \in [0 .. MaxEpoch -> Nat]
        /\ active'.saved = durable'[epoch]
    <2>1. CASE StillInstallable
      <3>1. [active EXCEPT !.doc = command.doc, !.requested = DirectRevision,
                           !.saved = DirectRevision, !.state = "saved"] \in Active
        BY <1>1, <1>2 DEF Active
      <3>2. /\ active' = [active EXCEPT !.doc = command.doc, !.requested = DirectRevision,
                                        !.saved = DirectRevision, !.state = "saved"]
            /\ durable' = [durable EXCEPT ![epoch] = DirectRevision]
        BY <2>1 DEF InstallDirectly
      <3>3. durable \in [0 .. MaxEpoch -> Nat]
        BY <1>1 DEF TypeOK
      <3>4. durable' \in [0 .. MaxEpoch -> Nat] /\ durable'[epoch] = DirectRevision
        BY ONLY <1>1, <1>2, <3>2, <3>3
      <3>5. active' \in Active /\ active'.saved = DirectRevision
        BY ONLY <1>1, <3>1, <3>2 DEF Active
      <3> QED
        BY ONLY <3>4, <3>5, SessionAssumption
    <2>2. CASE ~StillInstallable
      BY <1>1, <2>2 DEF InstallDirectly, TypeOK, Consistent, SavedIsDurable
    <2> QED
      BY <2>1, <2>2
  <1>4. overlapped' \in BOOLEAN
    BY DEF InstallDirectly
  <1>5. command' = None /\ UNCHANGED <<disk, epoch, closed, queue, worker, inHand, call, stamp>>
    BY DEF InstallDirectly
  <1>6. TypeOK'
    BY <1>1, <1>3, <1>4, <1>5 DEF TypeOK, queue
  <1>7. WaitersAreKnown'
    BY <1>1, <1>5 DEF Consistent, WaitersAreKnown, queue
  <1> QED
    BY <1>3, <1>5, <1>6, <1>7 DEF Consistent, OperationsHaveADocument, SavedIsDurable

\* Activating another document keeps it: the document gets an epoch of its own.
LEMMA ActivateConsistent ==
  ASSUME Consistent, Activate
  PROVE  Consistent'
  <1> USE SessionAssumption
  <1>1. TypeOK /\ command \in Operation /\ command.kind = "open" /\ epoch \in 0 .. MaxEpoch /\ epoch < MaxEpoch
    BY DEF Consistent, Activate, TypeOK, OperationsHaveADocument
  <1>2. command.path \in Path /\ command.doc \in Document
    BY <1>1 DEF Operation
  <1>3. /\ active' \in Active \cup {None} /\ epoch' \in 0 .. MaxEpoch
        /\ epoch' = 0 <=> active' = None
        /\ durable' \in [0 .. MaxEpoch -> Nat]
        /\ active' # None => active'.saved = durable'[epoch']
    <2>1. CASE closed
      BY <1>1, <2>1 DEF Activate, TypeOK, Consistent, SavedIsDurable
    <2>2. CASE ~closed
      <3>1. [path |-> command.path, doc |-> command.doc,
             requested |-> 0, saved |-> 0, state |-> "saved"] \in Active
        BY <1>2 DEF Active
      <3>2. /\ epoch' = epoch + 1 /\ durable' = [durable EXCEPT ![epoch + 1] = 0]
            /\ active' = [path |-> command.path, doc |-> command.doc,
                          requested |-> 0, saved |-> 0, state |-> "saved"]
        BY <2>2 DEF Activate
      <3>3. durable \in [0 .. MaxEpoch -> Nat]
        BY <1>1 DEF TypeOK
      <3>4. epoch + 1 \in 0 .. MaxEpoch /\ epoch + 1 # 0
        BY <1>1
      <3>5. durable' \in [0 .. MaxEpoch -> Nat] /\ durable'[epoch + 1] = 0
        BY ONLY <3>2, <3>3, <3>4
      <3>6. active' \in Active /\ active'.saved = 0 /\ active' # None
        BY ONLY <3>1, <3>2, SessionAssumption
      <3> QED
        BY ONLY <3>2, <3>4, <3>5, <3>6
    <2> QED
      BY <2>1, <2>2
  <1>4. overlapped' \in BOOLEAN
    BY DEF Activate
  <1>5. command' = None /\ UNCHANGED <<disk, closed, queue, worker, inHand, call, stamp>>
    BY DEF Activate
  <1>6. TypeOK'
    BY <1>1, <1>3, <1>4, <1>5 DEF TypeOK, queue
  <1>7. WaitersAreKnown'
    BY <1>1, <1>5 DEF Consistent, WaitersAreKnown, queue
  <1> QED
    BY <1>3, <1>5, <1>6, <1>7 DEF Consistent, OperationsHaveADocument, SavedIsDurable

\* The end of a mutation and the shutdown keep it: nobody waits for a mutation that was answered.
LEMMA ReturnConsistent ==
  ASSUME Consistent, MutationReturns \/ Shutdown
  PROVE  Consistent'
  <1>1. TypeOK'
    BY DEF Consistent, MutationReturns, Shutdown, TypeOK, queue
  <1>2. WaitersAreKnown'
    BY DEF Consistent, MutationReturns, Shutdown, WaitersAreKnown, queue
  <1>3. OperationsHaveADocument' /\ SavedIsDurable'
    BY DEF Consistent, MutationReturns, Shutdown, OperationsHaveADocument, SavedIsDurable, queue
  <1> QED
    BY <1>1, <1>2, <1>3 DEF Consistent

\* The payloads of the oldest document are a non-empty part of a non-empty queue.
LEMMA BatchInQueue ==
  ASSUME pending \in Seq(Payload), pending # <<>>
  PROVE  Batch \in 1 .. Len(pending)
  <1> DEFINE S == {n \in 1 .. Len(pending) : \A i \in 1 .. n : pending[i].epoch = pending[1].epoch}
  <1>1. Len(pending) \in Nat /\ 1 \in S
    OBVIOUS
  <1>2. IsFiniteSet(1 .. Len(pending)) /\ Cardinality(1 .. Len(pending)) = Len(pending)
    BY <1>1, FS_Interval
  <1>3. S \subseteq 1 .. Len(pending)
    OBVIOUS
  <1> HIDE DEF S
  <1>4. IsFiniteSet(S) /\ Cardinality(S) <= Len(pending)
    BY <1>2, <1>3, FS_Subset
  <1>5. Cardinality(S) \in Nat /\ Cardinality(S) # 0
    BY <1>1, <1>4, FS_CardinalityType, FS_EmptySet
  <1> QED
    BY <1>1, <1>4, <1>5 DEF Batch, S

\* Taking the next payload keeps it: what is left of the queue is a queue.
LEMMA NextPayloadConsistent ==
  ASSUME Consistent, NextPayload
  PROVE  Consistent'
  <1> USE SessionAssumption
  <1>1. TypeOK /\ pending \in Seq(Payload) /\ pending # <<>> /\ active \in Active \cup {None}
    BY DEF Consistent, NextPayload, TypeOK
  <1>2. Batch \in 1 .. Len(pending)
    BY <1>1, BatchInQueue
  <1>3. inHand' \in Payload /\ inHand' # None
    BY <1>1, <1>2 DEF NextPayload
  <1>4. pending' \in Seq(Payload)
    BY <1>1, <1>2 DEF NextPayload
  <1>5. inHand'.epoch = epoch => active # None
    BY <1>1, <1>3 DEF TypeOK, Payload
  <1>6. /\ active' \in Active \cup {None} /\ (active' = None <=> active = None)
        /\ active # None => active'.saved = active.saved
    <2>1. CASE inHand'.epoch = epoch
      <3>1. [active EXCEPT !.state = "saving"] \in Active
        BY <1>1, <1>5, <2>1 DEF Active
      <3> QED
        BY <1>1, <1>5, <2>1, <3>1 DEF NextPayload, Active
    <2>2. CASE inHand'.epoch # epoch
      BY <1>1, <2>2 DEF NextPayload
    <2> QED
      BY <2>1, <2>2
  <1>7. worker' = "writing" /\ UNCHANGED <<disk, epoch, durable, closed, waiters, wake, command, call, stamp, overlapped>>
    BY DEF NextPayload
  <1>8. TypeOK'
    BY <1>1, <1>3, <1>4, <1>6, <1>7 DEF TypeOK
  <1>9. WaitersAreKnown'
    BY <1>7 DEF Consistent, WaitersAreKnown
  <1> QED
    BY <1>6, <1>7, <1>8, <1>9 DEF Consistent, OperationsHaveADocument, SavedIsDurable

\* Waking up, falling asleep or stopping, and writing the file keep it.
LEMMA WorkerConsistent ==
  ASSUME Consistent, WakeUp \/ QueueEmpty \/ WritePayload
  PROVE  Consistent'
  <1> USE SessionAssumption
  <1>1. disk' \in [Path -> Document]
    <2>1. CASE WritePayload
      <3>1. inHand \in Payload
        BY <2>1 DEF Consistent, TypeOK, WritePayload
      <3>2. inHand.path \in Path /\ inHand.doc \in Document
        BY <3>1 DEF Payload
      <3> QED
        BY <2>1, <3>2 DEF Consistent, TypeOK, WritePayload
    <2>2. CASE WakeUp \/ QueueEmpty
      BY <2>2 DEF Consistent, TypeOK, WakeUp, QueueEmpty
    <2> QED
      BY <2>1, <2>2
  <1>2. TypeOK'
    BY <1>1 DEF Consistent, WakeUp, QueueEmpty, WritePayload, TypeOK, queue
  <1>3. WaitersAreKnown'
    BY DEF Consistent, WakeUp, QueueEmpty, WritePayload, WaitersAreKnown, queue
  <1>4. OperationsHaveADocument' /\ SavedIsDurable'
    BY DEF Consistent, WakeUp, QueueEmpty, WritePayload, OperationsHaveADocument, SavedIsDurable, queue
  <1> QED
    BY <1>2, <1>3, <1>4 DEF Consistent

\* Finishing a payload keeps it: the revision shown is the one recorded for the epoch,
\* and the mutation, if it is answered, is the one that waited.
LEMMA FinishPayloadConsistent ==
  ASSUME Consistent, FinishPayload
  PROVE  Consistent'
  <1> DEFINE written  == worker = "written"
             revision == DurableAfter(written)
             answered == {w \in waiters : w.epoch = inHand.epoch /\ w.revision <= inHand.revision}
  <1> USE SessionAssumption
  <1>1. /\ TypeOK /\ inHand \in Payload /\ inHand # None /\ active \in Active \cup {None}
        /\ epoch \in 0 .. MaxEpoch /\ durable \in [0 .. MaxEpoch -> Nat]
    BY DEF Consistent, FinishPayload, TypeOK
  <1>2. /\ inHand.epoch \in 1 .. MaxEpoch /\ inHand.revision \in Nat /\ inHand.doc \in Document
        /\ inHand.prior \in Prior \cup {None}
    BY <1>1 DEF Payload
  <1>3. revision \in Nat
    BY <1>1, <1>2 DEF DurableAfter
  <1>4. /\ durable' = [durable EXCEPT ![inHand.epoch] = revision]
        /\ active' = IF inHand.epoch = epoch THEN ActiveAfter(written, revision) ELSE active
        /\ waiters' = waiters \ answered
        /\ worker' = "draining" /\ inHand' = None
        /\ UNCHANGED <<disk, epoch, closed, pending, wake, stamp, overlapped>>
    BY DEF FinishPayload
  <1>5. /\ \A r \in Saves : call'[r] = call[r] \/ \E o \in {"ok", "failed"} :
             (\E w \in waiters : w.who = r) /\ call'[r] = [call[r] EXCEPT !.outcome = o]
        /\ call' = [r \in Saves |-> call'[r]]
    BY DEF FinishPayload
  <1>6. \/ command' = command /\ ~\E w \in answered : w.who = 0
        \/ /\ \E w \in answered : w.who = 0
           /\ \E s \in {"saved", "failed"} : command' = [command EXCEPT !.stage = s]
    BY DEF FinishPayload
  <1> HIDE DEF written, revision, answered
  <1>7. durable' \in [0 .. MaxEpoch -> Nat] /\ durable'[inHand.epoch] = revision
        /\ \A e \in 0 .. MaxEpoch : e # inHand.epoch => durable'[e] = durable[e]
    BY <1>1, <1>2, <1>3, <1>4
  <1>8. inHand.epoch = epoch => active \in Active
    BY <1>1, <1>2 DEF TypeOK
  <1>9. ASSUME inHand.epoch = epoch
        PROVE  ActiveAfter(written, revision) \in Active /\ ActiveAfter(written, revision).saved = revision
    <2>1. inHand.prior # None => inHand.prior.doc \in Document /\ inHand.prior.requested \in Nat
      BY <1>2 DEF Prior
    <2>2. active \in Active
      BY <1>8, <1>9
    <2> QED
      BY ONLY <1>2, <1>3, <2>1, <2>2 DEF ActiveAfter, Active
  <1>10. /\ active' \in Active \cup {None} /\ (active' = None <=> active = None)
         /\ active' # None => active'.saved = durable'[epoch]
    BY <1>1, <1>4, <1>7, <1>8, <1>9 DEF Consistent, SavedIsDurable
  <1>11. \A o \in {"ok", "failed"}, c \in Call : [c EXCEPT !.outcome = o] \in Call
    BY DEF Call
  <1>12. \A r \in Saves : call'[r] \in Call \cup {None} /\ (call[r] # None => call'[r] # None)
    <2> SUFFICES ASSUME NEW r \in Saves
                 PROVE  call'[r] \in Call \cup {None} /\ (call[r] # None => call'[r] # None)
      OBVIOUS
    <2>1. call[r] \in Call \cup {None}
      BY <1>1 DEF TypeOK
    <2>2. (\E w \in waiters : w.who = r) => call[r] # None
      BY DEF Consistent, WaitersAreKnown
    <2>3. CASE call'[r] = call[r]
      BY <2>1, <2>3
    <2>4. CASE call'[r] # call[r]
      <3>1. PICK o \in {"ok", "failed"} : (\E w \in waiters : w.who = r) /\ call'[r] = [call[r] EXCEPT !.outcome = o]
        BY <1>5, <2>4
      <3>2. call[r] \in Call
        BY <2>1, <2>2, <3>1
      <3>3. [call[r] EXCEPT !.outcome = o] \in Call
        BY <1>11, <3>2
      <3> QED
        BY <3>1, <3>3
    <2> QED
      BY <2>3, <2>4
  <1>13. call' \in [Saves -> Call \cup {None}]
    BY <1>5, <1>12
  <1>14. \/ command' = command
         \/ command' \in Operation /\ command'.kind = command.kind /\ command # None
    <2>1. \A s \in {"saved", "failed"}, o \in Operation :
            [o EXCEPT !.stage = s] \in Operation /\ [o EXCEPT !.stage = s].kind = o.kind
      BY DEF Operation
    <2>2. (\E w \in answered : w.who = 0) => command # None
      BY DEF Consistent, WaitersAreKnown, answered
    <2>3. command \in Operation \cup {None}
      BY <1>1 DEF TypeOK
    <2> QED
      BY ONLY <1>6, <2>1, <2>2, <2>3
  <1>15. command' \in Operation \cup {None}
    BY <1>1, <1>14 DEF TypeOK
  <1>16. waiters' \subseteq waiters
    BY <1>4
  <1>17. TypeOK'
    BY <1>1, <1>4, <1>7, <1>10, <1>13, <1>15, <1>16 DEF TypeOK
  <1>18. WaitersAreKnown'
    <2>1. ASSUME \E w \in answered : w.who = 0
          PROVE  \A w \in waiters' : w.who # 0
      BY <1>4, <2>1 DEF Consistent, WaitersAreKnown, answered
    <2>2. (\E w \in waiters' : w.who = 0) => command' = command
      BY <1>6, <2>1
    <2> QED
      BY <1>12, <1>16, <2>2 DEF Consistent, WaitersAreKnown
  <1>19. OperationsHaveADocument' /\ SavedIsDurable'
    BY <1>4, <1>10, <1>14, SessionAssumption DEF Consistent, OperationsHaveADocument, SavedIsDurable
  <1> QED
    BY <1>17, <1>18, <1>19 DEF Consistent

\* Every step keeps the invariant.
LEMMA StepConsistent == Consistent /\ [Next]_vars => Consistent'
  <1> SUFFICES ASSUME Consistent, [Next]_vars PROVE Consistent'
    OBVIOUS
  <1>1. CASE Editor
    BY <1>1, SaveAcceptedConsistent, SaveReplayedConsistent DEF Editor
  <1>2. CASE CommandStart
    <2>1. ASSUME NEW c \in Command, ExecuteCommandState(c) \/ ResetCommandState(c)
          PROVE  Consistent'
      <3>1. active.doc.completed \in SUBSET Command
        BY <2>1 DEF Consistent, TypeOK, ExecuteCommandState, ResetCommandState, Active, Document
      <3>2. active.doc.completed \cup {c} \in SUBSET Command /\ active.doc.completed \ {c} \in SUBSET Command
        BY <2>1, <3>1
      <3> QED
        BY <2>1, <3>2, MutationConsistent DEF ExecuteCommandState, ResetCommandState
    <2>2. ASSUME ResetTerminalCommandStates PROVE Consistent'
      BY <2>2, MutationConsistent DEF ResetTerminalCommandStates
    <2> QED
      BY <1>2, <2>1, <2>2, ReadConsistent, CreateConsistent DEF CommandStart
  <1>3. CASE CommandStep
    BY <1>3, WriteDirectlyConsistent, InstallDirectlyConsistent, ActivateConsistent, ReturnConsistent
    DEF CommandStep
  <1>4. CASE WorkerStep
    BY <1>4, NextPayloadConsistent, FinishPayloadConsistent, WorkerConsistent DEF WorkerStep
  <1>5. CASE Shutdown
    BY <1>5, ReturnConsistent
  <1>6. CASE UNCHANGED vars
    BY <1>6 DEF Consistent, TypeOK, WaitersAreKnown, OperationsHaveADocument, SavedIsDurable, vars, queue
  <1> QED
    BY <1>1, <1>2, <1>3, <1>4, <1>5, <1>6 DEF Next

\* The session store keeps its types, whatever is saved, mutated, opened and written in
\* whatever order, and every waiter, operation and shown revision stays accounted for.
THEOREM StoreConsistent == Spec => []Consistent
  BY InitConsistent, StepConsistent, PTL DEF Spec

\* The variables keep their types; the worker of runSaveWorker has a payload exactly
\* while it writes one.
THEOREM TypeCorrect == Spec => []TypeOK
  <1>1. Consistent => TypeOK
    BY DEF Consistent
  <1> QED
    BY StoreConsistent, <1>1, PTL

\* A step that keeps the document open never lowers the revision it reports as saved:
\* the worker reports the newest durable revision, even when a payload with a lower
\* number or a failed one is finished, and the writes past the queue count on from it.
LEMMA StepKeepsRevision ==
  Consistent /\ [Next]_vars => [active # None /\ epoch' = epoch => active'.saved >= active.saved]_vars
  <1> SUFFICES ASSUME Consistent, Next, active # None, epoch' = epoch
               PROVE  active'.saved >= active.saved
    BY DEF vars
  <1> USE SessionAssumption
  <1>1. /\ TypeOK /\ active \in Active /\ active.saved \in Nat /\ active.requested \in Nat
        /\ epoch \in 1 .. MaxEpoch /\ active.saved = durable[epoch]
    BY DEF Consistent, TypeOK, Active, SavedIsDurable
  <1>2. active' = active => active'.saved >= active.saved
    BY <1>1
  <1>3. ASSUME NEW doc, NEW revision, NEW prior, NEW who, Accepted(doc, revision, prior, who)
        PROVE  active'.saved >= active.saved
    <2>1. active' = [active EXCEPT !.doc = doc, !.requested = revision, !.state = "saving"]
      BY <1>3 DEF Accepted
    <2>2. active'.saved = active.saved
      BY ONLY <1>1, <2>1 DEF Active
    <2> QED
      BY <1>1, <2>2
  <1>4. CASE Editor
    <2>1. ASSUME NEW r \in Saves, SaveAccepted(r) PROVE active'.saved >= active.saved
      BY <1>3, <2>1 DEF SaveAccepted
    <2>2. ASSUME NEW r \in Saves, SaveReplayed(r) PROVE active'.saved >= active.saved
      BY <1>2, <2>2 DEF SaveReplayed
    <2> QED
      BY <1>4, <2>1, <2>2 DEF Editor
  <1>5. CASE CommandStart
    <2>1. ASSUME NEW completed, MutateCommandStates(completed) PROVE active'.saved >= active.saved
      BY <1>3, <2>1 DEF MutateCommandStates
    <2>2. ASSUME NEW groups \in Groups, ReadForGroups(groups) PROVE active'.saved >= active.saved
      BY <1>2, <2>2 DEF ReadForGroups
    <2>3. ASSUME NEW config \in Config, ReadForConfig(config) PROVE active'.saved >= active.saved
      BY <1>2, <2>3 DEF ReadForConfig
    <2>4. ASSUME NEW p \in Path, ReadToOpen(p) \/ WriteToCreate(p) PROVE active'.saved >= active.saved
      BY <1>2, <2>4 DEF ReadToOpen, WriteToCreate
    <2> QED
      BY <1>5, <2>1, <2>2, <2>3, <2>4
      DEF CommandStart, ExecuteCommandState, ResetCommandState, ResetTerminalCommandStates
  <1>6. CASE CommandStep
    <2>1. CASE InstallDirectly
      <3>1. command \in Operation /\ command.kind \in {"groups", "config"}
        BY <1>1, <2>1 DEF InstallDirectly, Direct, TypeOK
      <3>2. ASSUME StillInstallable PROVE DirectRevision >= active.saved
        BY <1>1, <3>1, <3>2 DEF StillInstallable, DirectRevision, NextRevision
      <3>3. ASSUME StillInstallable PROVE active'.saved = DirectRevision
        BY <1>1, <2>1, <3>3 DEF InstallDirectly, Active
      <3> QED
        BY <1>2, <2>1, <3>2, <3>3 DEF InstallDirectly
    <2>2. CASE Activate
      BY <1>1, <1>2, <2>2 DEF Activate
    <2> QED
      BY <1>2, <1>6, <2>1, <2>2 DEF CommandStep, MutationReturns, WriteDirectly
  <1>7. CASE WorkerStep
    <2>1. CASE FinishPayload
      <3>1. SavedIsDurable' /\ active' # None
        BY <1>1, <2>1, FinishPayloadConsistent DEF Consistent, TypeOK
      <3>2. inHand \in Payload
        BY <1>1, <2>1 DEF FinishPayload, TypeOK
      <3>3. inHand.epoch \in 1 .. MaxEpoch /\ inHand.revision \in Nat /\ durable \in [0 .. MaxEpoch -> Nat]
        BY <1>1, <3>2 DEF Payload, TypeOK
      <3>4. durable' = [durable EXCEPT ![inHand.epoch] = DurableAfter(worker = "written")]
        BY <2>1 DEF FinishPayload
      <3>5. durable'[epoch] >= durable[epoch]
        BY <1>1, <3>3, <3>4 DEF DurableAfter
      <3> QED
        BY <1>1, <3>1, <3>5 DEF SavedIsDurable
    <2>2. CASE NextPayload
      BY <1>1, <2>2 DEF NextPayload, Active
    <2> QED
      BY <1>2, <1>7, <2>1, <2>2 DEF WorkerStep, WakeUp, QueueEmpty, WritePayload
  <1>8. CASE Shutdown
    BY <1>2, <1>8 DEF Shutdown
  <1> QED
    BY <1>4, <1>5, <1>6, <1>7, <1>8 DEF Next

\* The revision reported as saved never goes back while a document is open.
THEOREM SavedRevisionMonotone == Spec => SavedRevisionNeverGoesBack
  BY StoreConsistent, StepKeepsRevision, PTL DEF Spec, SavedRevisionNeverGoesBack

-----------------------------------------------------------------------------
(* What is called saved is in the file, and a failed mutation leaves no      *)
(* trace.  As long as nothing overlapped, the payloads under way say where   *)
(* the newest document is: those of the open document are for its file, none *)
(* of another is, and none is newer than what was asked for.  The payload of *)
(* a mutation is the last of all until its holder is answered, because both  *)
(* locks keep everybody else out, so that its success means that the file    *)
(* has it and its failure that nothing was built upon it.                    *)

Underway == {pending[i] : i \in 1 .. Len(pending)} \cup ({inHand} \ {None})

Mutating == command # None /\ command.kind = "states"
Asking   == Mutating /\ command.stage = "waiting"

\* Every payload belongs to one document, and this document's are within what was asked for.
PayloadsBelong ==
  \A p \in Underway :
    /\ p.epoch <= epoch
    /\ p.epoch = epoch <=> p.path = active.path
    /\ p.epoch = epoch => p.revision <= active.requested
    /\ p.prior # None => Asking

\* An operation on the document is about the file of that document.
OperationsBelong == command # None /\ command.kind # "open" => command.path = active.path

\* What the worker has written is there until the payload is finished.
WrittenIsThere == worker = "written" => disk[inHand.path] = inHand.doc

\* Without a payload of its own, a document that is called saved is in its file.
RestIsSaved ==
  /\ active # None /\ ~closed /\ active.state = "saved"
  /\ \A p \in Underway : p.epoch # epoch
  /\ command # None => command.kind # "open" /\ command.stage # "written"
  => disk[active.path] = active.doc

IsMutation(p) ==
  /\ p.epoch = epoch /\ p.path = command.path /\ p.revision = active.requested
  /\ p.doc = command.doc /\ p.prior # None /\ p.prior.doc = command.from

IsEarlier(p) == p.prior = None /\ (p.epoch = epoch => p.revision < active.requested)

\* The mutation that waits for its answer is the last payload, and it is not durable yet.
MutationIsLast ==
  Asking =>
    /\ \A i \in 1 .. Len(pending) :
         IF i = Len(pending) THEN IsMutation(pending[i]) ELSE IsEarlier(pending[i])
    /\ IF pending = <<>> THEN inHand # None /\ IsMutation(inHand)
                         ELSE inHand # None => IsEarlier(inHand)
    /\ durable[epoch] < active.requested
    /\ \E w \in waiters : w.who = 0 /\ w.epoch = epoch /\ w.revision = active.requested

\* The mutation that was answered is in the file or was taken back.
MutationIsSettled ==
  Mutating /\ ~Asking =>
    /\ \A p \in Underway : p.epoch # epoch
    /\ command.stage \in {"saved", "failed"}
    /\ command.stage = "saved" => disk[command.path] = command.doc
    /\ command.stage = "failed" => active.doc = command.from

Kept == PayloadsBelong /\ OperationsBelong /\ WrittenIsThere /\ RestIsSaved
          /\ MutationIsLast /\ MutationIsSettled

StoreInv == Consistent /\ (overlapped \/ Kept)

\* Initially there are no payloads and no operation.
LEMMA InitKept == Init => Kept
  <1> SUFFICES ASSUME Init PROVE Kept
    OBVIOUS
  <1>1. pending = <<>> /\ Len(pending) = 0 /\ inHand = None /\ command = None /\ active = None
        /\ worker = "asleep"
    BY DEF Init
  <1>2. Underway = {}
    BY <1>1 DEF Underway
  <1> QED
    BY <1>1, <1>2
    DEF Kept, PayloadsBelong, OperationsBelong, WrittenIsThere, RestIsSaved, MutationIsLast,
        MutationIsSettled, Mutating, Asking

\* The payloads under way have their type.
LEMMA UnderwayTyped ==
  ASSUME TypeOK
  PROVE  /\ \A p \in Underway : p \in Payload /\ p # None /\ p.epoch \in 1 .. MaxEpoch
                                /\ p.path \in Path /\ p.revision \in Nat /\ p.doc \in Document
         /\ \A i \in 1 .. Len(pending) : pending[i] \in Underway
         /\ inHand # None => inHand \in Underway
         /\ \A p \in Underway : p = inHand \/ \E i \in 1 .. Len(pending) : p = pending[i]
         /\ Len(pending) \in Nat /\ (pending = <<>> <=> Len(pending) = 0)
  <1>1. pending \in Seq(Payload) /\ inHand \in Payload \cup {None}
    BY DEF TypeOK
  <1>2. \A i \in 1 .. Len(pending) : pending[i] \in Payload
    BY <1>1
  <1>3. \A p \in Payload : p # None /\ p.epoch \in 1 .. MaxEpoch
                           /\ p.path \in Path /\ p.revision \in Nat /\ p.doc \in Document
    BY SessionAssumption DEF Payload
  <1>4. Len(pending) \in Nat /\ (pending = <<>> <=> Len(pending) = 0)
    BY <1>1
  <1> QED
    BY <1>1, <1>2, <1>3, <1>4 DEF Underway

\* With everything else as it was, the worker may sleep and the store be closed.
LEMMA QuietKept ==
  ASSUME Kept, UNCHANGED <<disk, active, epoch, durable, pending, waiters, inHand, command>>,
         closed => closed', worker' = "written" => worker = "written",
         closed \in BOOLEAN, closed' \in BOOLEAN
  PROVE  Kept'
  <1>1. Underway' = Underway /\ Len(pending') = Len(pending)
    BY DEF Underway
  <1>2. Asking' = Asking /\ Mutating' = Mutating
    BY DEF Asking, Mutating
  <1>3. PayloadsBelong' /\ OperationsBelong' /\ WrittenIsThere' /\ RestIsSaved'
    BY <1>1, <1>2 DEF Kept, PayloadsBelong, OperationsBelong, WrittenIsThere, RestIsSaved
  <1>4. MutationIsLast' /\ MutationIsSettled'
    BY <1>1, <1>2 DEF Kept, MutationIsLast, MutationIsSettled, IsMutation, IsEarlier
  <1> QED
    BY <1>3, <1>4 DEF Kept

\* A payload of the worker replaces its own document only.
LEMMA WritePayloadKept ==
  ASSUME TypeOK, Kept, WritePayload
  PROVE  Kept'
  <1>1. /\ UNCHANGED <<active, epoch, durable, closed, pending, waiters, inHand, command>>
        /\ disk \in [Path -> Document] /\ inHand \in Underway /\ inHand.path \in Path
    BY UnderwayTyped DEF WritePayload, TypeOK, queue
  <1>2. /\ disk'[inHand.path] = inHand.doc \/ worker' # "written"
        /\ \A q \in Path : q # inHand.path => disk'[q] = disk[q]
    BY <1>1 DEF WritePayload
  <1>3. Underway' = Underway /\ Len(pending') = Len(pending)
    BY <1>1 DEF Underway
  <1>4. Asking' = Asking /\ Mutating' = Mutating
    BY <1>1 DEF Asking, Mutating
  <1>5. PayloadsBelong' /\ OperationsBelong' /\ MutationIsLast'
    BY <1>1, <1>3, <1>4
    DEF Kept, PayloadsBelong, OperationsBelong, MutationIsLast, IsMutation, IsEarlier
  <1>6. WrittenIsThere'
    BY <1>1, <1>2 DEF WrittenIsThere
  <1>7. active # None /\ inHand.epoch # epoch => disk'[active.path] = disk[active.path]
    <2>1. active # None => active.path \in Path
      BY DEF TypeOK, Active
    <2> QED
      BY <1>1, <1>2, <2>1 DEF Kept, PayloadsBelong
  <1>8. RestIsSaved'
    BY <1>1, <1>3, <1>7 DEF Kept, RestIsSaved
  <1>9. MutationIsSettled'
    <2> SUFFICES ASSUME Mutating, ~Asking
                 PROVE  /\ \A p \in Underway : p.epoch # epoch
                        /\ command.stage \in {"saved", "failed"}
                        /\ command.stage = "saved" => disk'[command.path] = command.doc
                        /\ command.stage = "failed" => active.doc = command.from
      BY <1>1, <1>3, <1>4 DEF MutationIsSettled
    <2>1. /\ \A p \in Underway : p.epoch # epoch
          /\ command.stage \in {"saved", "failed"}
          /\ command.stage = "saved" => disk[command.path] = command.doc
          /\ command.stage = "failed" => active.doc = command.from
      BY DEF Kept, MutationIsSettled
    <2>2. inHand.path # command.path
      BY <1>1, <2>1 DEF Kept, PayloadsBelong, OperationsBelong, Mutating
    <2>3. command.path \in Path
      BY SessionAssumption DEF TypeOK, Operation, Mutating
    <2> QED
      BY <1>2, <2>1, <2>2, <2>3
  <1> QED
    BY <1>5, <1>6, <1>8, <1>9 DEF Kept

\* What an accepted change adds to the payloads under way.
LEMMA AcceptedUnderway ==
  ASSUME TypeOK, active # None, NEW doc \in Document, NEW revision \in Nat,
         NEW prior \in Prior \cup {None}, NEW who \in Saves \cup {0},
         Accepted(doc, revision, prior, who), UNCHANGED inHand, UNCHANGED epoch
  PROVE  \E m \in Payload :
           /\ m = [epoch |-> epoch, path |-> active.path, revision |-> revision, doc |-> doc,
                   prior |-> prior]
           /\ Underway' = Underway \cup {m}
           /\ Len(pending') = Len(pending) + 1 /\ pending' # <<>>
           /\ pending'[Len(pending) + 1] = m
           /\ \A i \in 1 .. Len(pending) : pending'[i] = pending[i]
           /\ [epoch |-> epoch, revision |-> revision, who |-> who] \in waiters'
           /\ waiters \subseteq waiters'
           /\ active' \in Active /\ active'.path = active.path /\ active'.requested = revision
           /\ active'.doc = doc
  <1> USE SessionAssumption
  <1> DEFINE m == [epoch |-> epoch, path |-> active.path, revision |-> revision, doc |-> doc,
                   prior |-> prior]
  <1>1. active \in Active /\ epoch \in 1 .. MaxEpoch /\ pending \in Seq(Payload)
    BY DEF TypeOK
  <1>2. m \in Payload
    BY <1>1 DEF Payload, Active
  <1>3. pending' = Append(pending, m)
    BY DEF Accepted
  <1>4. /\ active' = [active EXCEPT !.doc = doc, !.requested = revision, !.state = "saving"]
        /\ waiters' = waiters \cup {[epoch |-> epoch, revision |-> revision, who |-> who]}
    BY DEF Accepted
  <1>5. /\ active' \in Active /\ active'.path = active.path /\ active'.requested = revision
        /\ active'.doc = doc
    BY <1>1, <1>4 DEF Active
  <1> HIDE DEF m
  <1>6. /\ Len(pending') = Len(pending) + 1 /\ pending' # <<>>
        /\ pending'[Len(pending) + 1] = m
        /\ \A i \in 1 .. Len(pending) : pending'[i] = pending[i]
        /\ Len(pending) \in Nat
    BY <1>1, <1>2, <1>3
  <1>7. Underway' = Underway \cup {m}
    <2>1. {pending'[i] : i \in 1 .. Len(pending')} = {pending[i] : i \in 1 .. Len(pending)} \cup {m}
      BY <1>6
    <2> QED
      BY <2>1 DEF Underway
  <1> QED
    BY <1>2, <1>4, <1>5, <1>6, <1>7 DEF m

\* An accepted Save is a payload of the open document, and newer than the others.
LEMMA SaveAcceptedKept ==
  ASSUME TypeOK, Kept, NEW r \in Saves, SaveAccepted(r)
  PROVE  Kept'
  <1> USE SessionAssumption
  <1>1. /\ active # None /\ active \in Active /\ ~Mutating /\ ~Asking
        /\ UNCHANGED <<disk, epoch, durable, closed, worker, inHand, command>>
        /\ Accepted(Merged(r), EffectiveRevision(r), None, r)
        /\ epoch \in 1 .. MaxEpoch
    BY DEF SaveAccepted, Opened, DocumentLocked, Mutating, Asking, TypeOK
  <1>2. Merged(r) \in Document /\ EffectiveRevision(r) \in Nat
    BY <1>1, MergedIsDocument
  <1> DEFINE doc == Merged(r)
             revision == EffectiveRevision(r)
  <1>a. /\ doc \in Document /\ revision \in Nat /\ Accepted(doc, revision, None, r)
        /\ None \in Prior \cup {None} /\ r \in Saves \cup {0}
        /\ UNCHANGED inHand /\ UNCHANGED epoch
    BY <1>1, <1>2
  <1>b. revision = EffectiveRevision(r)
    OBVIOUS
  <1> HIDE DEF doc, revision
  <1>3. PICK m \in Payload :
           /\ m = [epoch |-> epoch, path |-> active.path, revision |-> revision, doc |-> doc,
                   prior |-> None]
           /\ Underway' = Underway \cup {m}
           /\ active' \in Active /\ active'.path = active.path /\ active'.requested = revision
    <2> DEFINE who == r
               prior == None
    <2>1. who \in Saves \cup {0} /\ prior \in Prior \cup {None} /\ prior = None
      BY <1>a
    <2>2. Accepted(doc, revision, prior, who)
      BY <1>a
    <2> HIDE DEF who, prior
    <2>3. \E m \in Payload :
           /\ m = [epoch |-> epoch, path |-> active.path, revision |-> revision, doc |-> doc,
                   prior |-> prior]
           /\ Underway' = Underway \cup {m}
           /\ Len(pending') = Len(pending) + 1 /\ pending' # <<>>
           /\ pending'[Len(pending) + 1] = m
           /\ \A i \in 1 .. Len(pending) : pending'[i] = pending[i]
           /\ [epoch |-> epoch, revision |-> revision, who |-> who] \in waiters'
           /\ waiters \subseteq waiters'
           /\ active' \in Active /\ active'.path = active.path /\ active'.requested = revision
           /\ active'.doc = doc
      BY <1>1, <1>a, <2>1, <2>2, AcceptedUnderway
    <2> QED
      BY <2>1, <2>3
  <1>4. m.epoch = epoch /\ m.path = active.path /\ m.revision = active'.requested /\ m.prior = None
    BY <1>3
  <1>5. active.requested \in Nat /\ revision \in Nat /\ revision >= active.requested
    BY <1>1, <1>a, <1>b DEF Active, EffectiveRevision
  <1>6. \A p \in Underway : p.revision \in Nat
    BY UnderwayTyped
  <1>7. PayloadsBelong'
    <2>1. \A p \in Underway : /\ p.epoch <= epoch
                              /\ p.epoch = epoch <=> p.path = active.path
                              /\ p.epoch = epoch => p.revision <= active.requested
                              /\ p.prior = None
      BY <1>1 DEF Kept, PayloadsBelong
    <2>2. \A p \in Underway : p.epoch = epoch => p.revision <= active'.requested
      BY <1>2, <1>3, <1>5, <1>6, <2>1
    <2>3. epoch <= epoch /\ m.revision <= active'.requested
      BY <1>1, <1>3, <1>4, <1>5
    <2> QED
      BY <1>1, <1>3, <1>4, <2>1, <2>2, <2>3 DEF PayloadsBelong
  <1>8. OperationsBelong' /\ WrittenIsThere'
    BY <1>1, <1>3 DEF Kept, OperationsBelong, WrittenIsThere
  <1>9. RestIsSaved'
    BY <1>1, <1>3, <1>4 DEF RestIsSaved
  <1>10. MutationIsLast' /\ MutationIsSettled'
    BY <1>1 DEF MutationIsLast, MutationIsSettled, Mutating, Asking
  <1> QED
    BY <1>7, <1>8, <1>9, <1>10 DEF Kept

\* An accepted mutation is the last payload, above everything asked for and on disk.
LEMMA MutationKept ==
  ASSUME Consistent, Kept, NEW completed \in SUBSET Command, MutateCommandStates(completed)
  PROVE  Kept'
  <1> USE SessionAssumption
  <1> DEFINE doc == [active.doc EXCEPT !.completed = completed]
             prior == [doc |-> active.doc, requested |-> active.requested]
  <1>1. /\ TypeOK /\ active # None /\ active \in Active /\ command = None /\ ~Asking
        /\ UNCHANGED <<disk, epoch, durable, closed, worker, inHand>>
        /\ Accepted(doc, NextRevision, prior, 0)
        /\ epoch \in 1 .. MaxEpoch
    BY DEF Consistent, MutateCommandStates, Opened, Asking, Mutating, TypeOK
  <1>2. doc \in Document /\ prior \in Prior /\ prior.doc = active.doc
    BY <1>1 DEF Active, Document, Prior
  <1>3. command' = [kind |-> "states", stage |-> "waiting", path |-> active.path,
                    doc |-> doc, from |-> active.doc, saved |-> active.saved]
    BY DEF MutateCommandStates
  <1> HIDE DEF doc, prior
  <1>4. /\ NextRevision \in Nat /\ NextRevision > active.requested /\ NextRevision > active.saved
        /\ active.requested \in Nat /\ active.saved = durable[epoch]
    BY <1>1 DEF NextRevision, Active, Consistent, SavedIsDurable
  <1>5. command' \in Operation /\ command' # None /\ command'.kind = "states"
        /\ command'.stage = "waiting" /\ command'.path = active.path
        /\ command'.doc = doc /\ command'.from = active.doc
    BY <1>1, <1>2, <1>3 DEF Operation, Active
  <1>6. Asking' /\ Mutating'
    BY <1>5 DEF Asking, Mutating
  <1>7. PICK m \in Payload :
           /\ m = [epoch |-> epoch, path |-> active.path, revision |-> NextRevision, doc |-> doc,
                   prior |-> prior]
           /\ Underway' = Underway \cup {m}
           /\ Len(pending') = Len(pending) + 1 /\ pending' # <<>>
           /\ pending'[Len(pending) + 1] = m
           /\ \A i \in 1 .. Len(pending) : pending'[i] = pending[i]
           /\ [epoch |-> epoch, revision |-> NextRevision, who |-> 0] \in waiters'
           /\ active' \in Active /\ active'.path = active.path /\ active'.requested = NextRevision
           /\ active'.doc = doc
    BY <1>1, <1>2, <1>4, AcceptedUnderway
  <1>8. m.epoch = epoch /\ m.path = active.path /\ m.revision = NextRevision /\ m.doc = doc
        /\ m.prior = prior
    BY <1>7
  <1>9. prior # None
    BY <1>2
  <1>10. \A p \in Underway : /\ p.epoch <= epoch
                             /\ p.epoch = epoch <=> p.path = active.path
                             /\ p.epoch = epoch => p.revision <= active.requested
                             /\ p.prior = None /\ p.revision \in Nat
    BY <1>1, UnderwayTyped DEF Kept, PayloadsBelong
  <1>11. PayloadsBelong'
    <2>1. \A p \in Underway : p.epoch = epoch => p.revision <= active'.requested
      BY <1>4, <1>7, <1>10
    <2>2. epoch <= epoch /\ m.revision <= active'.requested
      BY <1>1, <1>4, <1>7, <1>8
    <2> QED
      BY <1>1, <1>6, <1>7, <1>8, <1>10, <2>1, <2>2 DEF PayloadsBelong
  <1>12. OperationsBelong' /\ WrittenIsThere'
    BY <1>1, <1>5, <1>7 DEF Kept, OperationsBelong, WrittenIsThere
  <1>13. RestIsSaved'
    BY <1>1, <1>7, <1>8 DEF RestIsSaved
  <1>14. MutationIsSettled'
    BY <1>6 DEF MutationIsSettled
  <1>15. MutationIsLast'
    <2>1. IsMutation(m)'
      BY <1>1, <1>2, <1>5, <1>7, <1>8, <1>9 DEF IsMutation
    <2>2. \A p \in Underway : IsEarlier(p)'
      BY <1>1, <1>4, <1>7, <1>10 DEF IsEarlier
    <2>3. /\ \A i \in 1 .. Len(pending) : pending[i] \in Underway
          /\ inHand # None => inHand \in Underway
          /\ Len(pending) \in Nat
      BY <1>1, UnderwayTyped
    <2>4. \A i \in 1 .. Len(pending') :
            IF i = Len(pending') THEN IsMutation(pending[i])' ELSE IsEarlier(pending[i])'
      <3> SUFFICES ASSUME NEW i \in 1 .. Len(pending')
                   PROVE  IF i = Len(pending') THEN IsMutation(pending[i])'
                                               ELSE IsEarlier(pending[i])'
        OBVIOUS
      <3>1. CASE i = Len(pending) + 1
        BY <1>7, <2>1, <3>1 DEF IsMutation
      <3>2. CASE i # Len(pending) + 1
        <4>1. i \in 1 .. Len(pending) /\ pending'[i] = pending[i] /\ i # Len(pending')
          BY <1>7, <2>3, <3>2
        <4> QED
          BY <2>2, <2>3, <4>1 DEF IsEarlier
      <3> QED
        BY <3>1, <3>2
    <2>5. inHand' # None => IsEarlier(inHand)'
      BY <1>1, <2>2, <2>3 DEF IsEarlier
    <2>6. durable'[epoch'] < active'.requested
      BY <1>1, <1>4, <1>7 DEF Active
    <2>7. \E w \in waiters' : w.who = 0 /\ w.epoch = epoch' /\ w.revision = active'.requested
      BY <1>1, <1>7
    <2> QED
      BY <1>7, <2>4, <2>5, <2>6, <2>7 DEF MutationIsLast, IsMutation, IsEarlier
  <1> QED
    BY <1>11, <1>12, <1>13, <1>14, <1>15 DEF Kept

\* Without a mutation nothing is claimed about one.
LEMMA NoMutation ==
  ASSUME command' = None \/ command'.kind # "states"
  PROVE  ~Asking' /\ ~Mutating' /\ MutationIsLast' /\ MutationIsSettled'
  BY DEF Asking, Mutating, MutationIsLast, MutationIsSettled

\* The reads that start an operation.
LEMMA ReadKept ==
  ASSUME TypeOK, Kept,
         \/ \E groups \in Groups : ReadForGroups(groups)
         \/ \E config \in Config : ReadForConfig(config)
         \/ \E p \in Path : ReadToOpen(p)
  PROVE  Kept'
  <1>1. /\ command = None /\ ~Asking
        /\ UNCHANGED <<disk, active, epoch, durable, closed, pending, inHand, worker>>
    BY DEF ReadForGroups, ReadForConfig, ReadToOpen, Asking, Mutating, queue
  <1>2. /\ command'.kind # "states" /\ command'.stage = "read"
        /\ command'.kind # "open" => command'.path = active.path
    BY DEF ReadForGroups, ReadForConfig, ReadToOpen, Opening
  <1>3. Underway' = Underway
    BY <1>1 DEF Underway
  <1>4. PayloadsBelong'
    BY <1>1, <1>3 DEF Kept, PayloadsBelong
  <1>5. OperationsBelong' /\ WrittenIsThere'
    BY <1>1, <1>2 DEF Kept, OperationsBelong, WrittenIsThere
  <1>6. RestIsSaved'
    BY <1>1, <1>3 DEF Kept, RestIsSaved
  <1> QED
    BY <1>2, <1>4, <1>5, <1>6, NoMutation DEF Kept

\* A mutation that has returned was settled.
LEMMA ReturnKept ==
  ASSUME TypeOK, Kept, MutationReturns
  PROVE  Kept'
  <1>1. /\ Mutating /\ ~Asking /\ command.stage \in {"saved", "failed"} /\ command' = None
        /\ UNCHANGED <<disk, active, epoch, durable, closed, pending, inHand, worker>>
    BY DEF MutationReturns, Asking, Mutating, queue
  <1>2. Underway' = Underway
    BY <1>1 DEF Underway
  <1>3. PayloadsBelong'
    BY <1>1, <1>2 DEF Kept, PayloadsBelong
  <1>4. OperationsBelong' /\ WrittenIsThere'
    BY <1>1 DEF Kept, OperationsBelong, WrittenIsThere
  <1>5. RestIsSaved'
    BY <1>1, <1>2 DEF Kept, RestIsSaved, Mutating
  <1> QED
    BY <1>1, <1>3, <1>4, <1>5, NoMutation DEF Kept

\* Nothing under way concerns a file that is not busy.
LEMMA NotBusy ==
  ASSUME NEW q, ~Busy(q)
  PROVE  \A p \in Underway : p.path # q
  BY DEF Busy, Queued, Underway

\* A write past the queue that nothing overlapped touches no file of a payload.
LEMMA WriteDirectlyKept ==
  ASSUME TypeOK, Kept, WriteDirectly, ~overlapped'
  PROVE  Kept'
  <1>1. /\ command # None /\ command.kind \in {"groups", "config"} /\ command.stage = "read"
        /\ UNCHANGED <<active, epoch, durable, closed, pending, inHand, worker>>
        /\ ~Busy(command.path)
    BY DEF WriteDirectly, Direct, queue
  <1>2. Underway' = Underway /\ ~Asking
    BY <1>1 DEF Underway, Asking, Mutating
  <1>3. command \in Operation /\ command.path \in Path /\ disk \in [Path -> Document]
    BY <1>1 DEF TypeOK, Operation
  <1>4. \/ /\ disk' = [disk EXCEPT ![command.path] = command.doc]
           /\ command' # None /\ command'.kind = command.kind /\ command'.path = command.path
           /\ command'.stage = "written"
        \/ command' = None /\ UNCHANGED disk
    <2>1. [command EXCEPT !.stage = "written"] \in Operation
      BY <1>3 DEF Operation
    <2>2. /\ [command EXCEPT !.stage = "written"].kind = command.kind
          /\ [command EXCEPT !.stage = "written"].path = command.path
          /\ [command EXCEPT !.stage = "written"].stage = "written"
      BY <1>3 DEF Operation
    <2> QED
      BY <2>1, <2>2, SessionAssumption DEF WriteDirectly
  <1>5. command' = None \/ command'.kind # "states"
    BY <1>1, <1>4
  <1>6. PayloadsBelong'
    BY <1>1, <1>2 DEF Kept, PayloadsBelong
  <1>7. OperationsBelong'
    BY <1>1, <1>4 DEF Kept, OperationsBelong
  <1>8. WrittenIsThere'
    <2>1. worker = "written" => inHand \in Underway /\ inHand.path \in Path
      BY UnderwayTyped DEF TypeOK
    <2>2. worker = "written" => inHand.path # command.path
      BY <1>1, <2>1, NotBusy
    <2>3. worker = "written" => disk'[inHand.path] = disk[inHand.path]
      BY <1>3, <1>4, <2>1, <2>2
    <2> QED
      BY <1>1, <2>3 DEF Kept, WrittenIsThere
  <1>9. RestIsSaved'
    BY <1>1, <1>2, <1>4 DEF Kept, RestIsSaved
  <1> QED
    BY <1>5, <1>6, <1>7, <1>8, <1>9, NoMutation DEF Kept

\* What is installed is what was read, changed and written, and is still in the file.
LEMMA InstallDirectlyKept ==
  ASSUME Consistent, Kept, InstallDirectly, ~overlapped'
  PROVE  Kept'
  <1>1. /\ TypeOK /\ command # None /\ command.kind \in {"groups", "config"} /\ command' = None
        /\ UNCHANGED <<disk, epoch, closed, pending, inHand, worker>>
        /\ StillInstallable /\ ~Busy(command.path) /\ disk[command.path] = command.doc
        /\ active' = [active EXCEPT !.doc = command.doc, !.requested = DirectRevision,
                                    !.saved = DirectRevision, !.state = "saved"]
    BY DEF InstallDirectly, Direct, queue, Consistent
  <1>2. active # None /\ active \in Active /\ command.path = active.path
    BY <1>1 DEF Consistent, OperationsHaveADocument, TypeOK, Kept, OperationsBelong
  <1>3. active'.path = active.path /\ active'.doc = command.doc
    BY <1>1, <1>2 DEF Active
  <1>4. Underway' = Underway /\ ~Asking
    BY <1>1 DEF Underway, Asking, Mutating
  <1>5. \A p \in Underway : p.path # active.path /\ p.epoch # epoch /\ p.epoch <= epoch /\ p.prior = None
    BY <1>1, <1>2, <1>4, NotBusy DEF Kept, PayloadsBelong
  <1>6. PayloadsBelong'
    BY <1>1, <1>3, <1>4, <1>5 DEF PayloadsBelong
  <1>7. OperationsBelong' /\ WrittenIsThere' /\ RestIsSaved'
    BY <1>1, <1>2, <1>3 DEF Kept, OperationsBelong, WrittenIsThere, RestIsSaved
  <1> QED
    BY <1>1, <1>6, <1>7, NoMutation DEF Kept

\* A document is created over no payload.
LEMMA CreateKept ==
  ASSUME TypeOK, Kept, NEW q \in Path, WriteToCreate(q), ~overlapped'
  PROVE  Kept'
  <1>1. /\ command = None /\ command'.kind = "open" /\ ~Asking /\ ~Busy(q)
        /\ UNCHANGED <<active, epoch, durable, closed, pending, inHand, worker>>
        /\ \A o \in Path : o # q => disk'[o] = disk[o]
    BY DEF WriteToCreate, Opening, queue, Asking, Mutating, TypeOK
  <1>2. Underway' = Underway
    BY <1>1 DEF Underway
  <1>3. command' # None
    <2> DEFINE doc == [Starter EXCEPT !.stamp = stamp + 1]
    <2>1. doc \in Document
      <3>1. Starter \in Document
        BY SessionAssumption
      <3>2. stamp + 1 \in Nat
        BY DEF TypeOK
      <3> QED
        BY ONLY <3>1, <3>2 DEF Document, doc
    <2>2. command' = Opening(q, doc)
      BY DEF WriteToCreate
    <2>3. Opening(q, doc) \in Operation
      BY <2>1 DEF Opening, Operation
    <2> QED
      BY <2>2, <2>3, SessionAssumption
  <1>4. PayloadsBelong'
    BY <1>1, <1>2 DEF Kept, PayloadsBelong
  <1>5. OperationsBelong' /\ RestIsSaved'
    BY <1>1, <1>3 DEF OperationsBelong, RestIsSaved
  <1>6. WrittenIsThere'
    <2>1. worker = "written" => inHand \in Underway /\ inHand.path \in Path
      BY UnderwayTyped DEF TypeOK
    <2>2. worker = "written" => inHand.path # q
      BY <1>1, <2>1, NotBusy
    <2> QED
      BY <1>1, <2>1, <2>2 DEF Kept, WrittenIsThere
  <1> QED
    BY <1>1, <1>4, <1>5, <1>6, NoMutation DEF Kept

\* The document that becomes active is in its file, and no payload is for it.
LEMMA ActivateKept ==
  ASSUME TypeOK, Kept, Activate, ~overlapped'
  PROVE  Kept'
  <1>1. /\ command # None /\ command.kind = "open" /\ command' = None /\ ~Asking
        /\ UNCHANGED <<disk, closed, pending, inHand, worker>>
        /\ ~Busy(command.path) /\ disk[command.path] = command.doc
    BY DEF Activate, queue, Asking, Mutating
  <1>2. Underway' = Underway
    BY <1>1 DEF Underway
  <1>3. \A p \in Underway : p.prior = None /\ p.epoch <= epoch /\ p.path # command.path
    BY <1>1, NotBusy DEF Kept, PayloadsBelong
  <1>4. OperationsBelong' /\ WrittenIsThere'
    BY <1>1 DEF Kept, OperationsBelong, WrittenIsThere
  <1>5. CASE closed
    <2>1. UNCHANGED <<active, epoch>>
      BY <1>5 DEF Activate
    <2>2. PayloadsBelong' /\ RestIsSaved'
      BY <1>1, <1>2, <1>3, <1>5, <2>1 DEF Kept, PayloadsBelong, RestIsSaved
    <2> QED
      BY <1>1, <1>4, <2>2, NoMutation DEF Kept
  <1>6. CASE ~closed
    <2>1. epoch' = epoch + 1 /\ active'.path = command.path /\ active'.doc = command.doc
      BY <1>6 DEF Activate
    <2>2. \A p \in Underway : p.epoch <= epoch' /\ p.epoch # epoch'
      <3>1. \A p \in Underway : p.epoch \in 1 .. MaxEpoch
        BY UnderwayTyped
      <3>2. epoch \in Nat /\ MaxEpoch \in Nat
        BY SessionAssumption DEF TypeOK
      <3> QED
        BY <1>3, <2>1, <3>1, <3>2
    <2>3. PayloadsBelong'
      BY <1>2, <1>3, <2>1, <2>2 DEF PayloadsBelong
    <2>4. RestIsSaved'
      BY <1>1, <2>1 DEF RestIsSaved
    <2> QED
      BY <1>1, <1>4, <2>3, <2>4, NoMutation DEF Kept
  <1> QED
    BY <1>5, <1>6

\* The payloads the worker takes at once belong to one document.
LEMMA BatchOfOneDocument ==
  ASSUME pending \in Seq(Payload), pending # <<>>
  PROVE  \A i \in 1 .. Batch : pending[i].epoch = pending[1].epoch
  <1> DEFINE S == {n \in 1 .. Len(pending) : \A i \in 1 .. n : pending[i].epoch = pending[1].epoch}
  <1>1. Batch \in 1 .. Len(pending) /\ Len(pending) \in Nat
    BY BatchInQueue
  <1>2. Batch = Cardinality(S)
    BY DEF Batch
  <1>3. \A n \in S, m \in 1 .. Len(pending) : m <= n => m \in S
    BY <1>1
  <1>4. \A n \in S : n \in 1 .. Len(pending) /\ \A i \in 1 .. n : pending[i].epoch = pending[1].epoch
    OBVIOUS
  <1> HIDE DEF S
  <1>5. Batch \in S
    <2> SUFFICES ASSUME Batch \notin S PROVE FALSE
      OBVIOUS
    <2>1. \A n \in S : n < Batch
      BY <1>1, <1>3, <1>4
    <2>2. S \subseteq 1 .. (Batch - 1)
      BY <1>1, <1>4, <2>1
    <2>3. IsFiniteSet(1 .. (Batch - 1)) /\ Cardinality(1 .. (Batch - 1)) = Batch - 1
      <3> DEFINE k == Batch - 1
      <3>1. k \in Nat /\ 1 \in Int /\ k \in Int
        BY <1>1
      <3> HIDE DEF k
      <3>2. /\ IsFiniteSet(1 .. k)
            /\ Cardinality(1 .. k) = IF 1 > k THEN 0 ELSE k - 1 + 1
        BY <3>1, FS_Interval
      <3>3. Cardinality(1 .. k) = k
        BY <3>1, <3>2
      <3> QED
        BY <3>2, <3>3 DEF k
    <2>4. Cardinality(S) <= Batch - 1
      BY <2>2, <2>3, FS_Subset
    <2> QED
      BY <1>1, <1>2, <2>4
  <1> QED
    BY <1>4, <1>5

\* The worker takes the newest payload of the oldest document: a mutation that waits stays
\* the last one or is the one taken, and no document loses its last payload.
LEMMA NextPayloadKept ==
  ASSUME TypeOK, Kept, NextPayload
  PROVE  Kept'
  <1> DEFINE b == Batch
  <1>1. /\ pending \in Seq(Payload) /\ pending # <<>> /\ inHand = None
        /\ inHand' = pending[b] /\ pending' = SubSeq(pending, b + 1, Len(pending))
        /\ worker' = "writing"
        /\ active' = IF inHand'.epoch = epoch THEN [active EXCEPT !.state = "saving"] ELSE active
        /\ UNCHANGED <<disk, epoch, durable, closed, waiters, command>>
    BY DEF NextPayload, TypeOK
  <1>2. /\ b \in 1 .. Len(pending) /\ Len(pending) \in Nat
        /\ \A i \in 1 .. b : pending[i].epoch = pending[1].epoch
    BY <1>1, BatchInQueue, BatchOfOneDocument
  <1> HIDE DEF b
  <1>3. pending[b] \in Underway /\ pending[b] \in Payload /\ pending[b] # None
    BY <1>2, UnderwayTyped
  <1>4. /\ Len(pending') = Len(pending) - b
        /\ \A i \in 1 .. Len(pending') : pending'[i] = pending[b + i] /\ b + i \in 1 .. Len(pending)
        /\ pending' = <<>> <=> b = Len(pending)
        /\ Len(pending') \in Nat
    <2>1. Len(pending') = Len(pending) - b
      BY <1>1, <1>2
    <2>2. ASSUME NEW i \in 1 .. Len(pending') PROVE pending'[i] = pending[b + i]
      <3>1. i \in 1 .. Len(pending) - b
        BY <2>1
      <3>2. pending'[i] = pending[(b + 1) + i - 1]
        BY <1>1, <1>2, <2>1
      <3>3. (b + 1) + i - 1 = b + i
        BY <1>2, <3>1
      <3> QED
        BY <3>2, <3>3
    <2>3. \A i \in 1 .. Len(pending') : b + i \in 1 .. Len(pending)
      BY <1>2, <2>1
    <2>4. Len(pending') \in Nat
      BY <1>2, <2>1
    <2>5. pending' \in Seq(Payload)
      BY <1>1, <1>2
    <2>6. pending' = <<>> <=> b = Len(pending)
      BY <1>2, <2>1, <2>5
    <2> QED
      BY <2>1, <2>2, <2>3, <2>4, <2>6
  <1>5. Underway' \subseteq Underway /\ inHand' \in Underway'
    <2>1. Underway' = {pending'[i] : i \in 1 .. Len(pending')} \cup ({inHand'} \ {None})
      BY DEF Underway
    <2>2. \A i \in 1 .. Len(pending') : pending'[i] \in Underway
      BY <1>4, UnderwayTyped
    <2>3. inHand' \in Underway /\ inHand' # None
      BY <1>1, <1>3
    <2> QED
      BY <2>1, <2>2, <2>3
  <1>6. (\A p \in Underway' : p.epoch # epoch) => \A p \in Underway : p.epoch # epoch
    <2> SUFFICES ASSUME \A p \in Underway' : p.epoch # epoch, NEW q \in Underway, q.epoch = epoch
                 PROVE  FALSE
      OBVIOUS
    <2>1. PICK i \in 1 .. Len(pending) : q = pending[i]
      BY <1>1 DEF Underway
    <2>2. CASE i \in 1 .. b
      BY <1>1, <1>2, <1>5, <2>1, <2>2
    <2>3. CASE i \notin 1 .. b
      <3>1. i - b \in 1 .. Len(pending') /\ pending'[i - b] = pending[i]
        BY <1>2, <1>4, <2>3
      <3>2. pending'[i - b] \in Underway'
        BY <3>1 DEF Underway
      <3> QED
        BY <2>1, <3>1, <3>2
    <2> QED
      BY <2>2, <2>3
  <1>7. inHand'.epoch = epoch => active \in Active
    <2>1. pending[b].epoch \in 1 .. MaxEpoch
      BY <1>3, UnderwayTyped
    <2> QED
      BY <1>1, <2>1 DEF TypeOK
  <1>8. /\ active'.path = active.path /\ active'.requested = active.requested
        /\ active'.doc = active.doc
        /\ inHand'.epoch # epoch => active' = active
    BY <1>1, <1>7 DEF Active
  <1>9. Asking' = Asking /\ Mutating' = Mutating
    BY <1>1 DEF Asking, Mutating
  <1>10. PayloadsBelong'
    BY <1>1, <1>5, <1>8, <1>9 DEF Kept, PayloadsBelong
  <1>11. OperationsBelong' /\ WrittenIsThere'
    BY <1>1, <1>8 DEF Kept, OperationsBelong, WrittenIsThere
  <1>12. RestIsSaved'
    BY <1>1, <1>5, <1>6, <1>8 DEF Kept, RestIsSaved
  <1>13. MutationIsSettled'
    BY <1>1, <1>5, <1>8, <1>9 DEF Kept, MutationIsSettled
  <1>14. MutationIsLast'
    <2> SUFFICES ASSUME Asking PROVE MutationIsLast'
      BY <1>9 DEF MutationIsLast
    <2>1. /\ \A i \in 1 .. Len(pending) :
               IF i = Len(pending) THEN IsMutation(pending[i]) ELSE IsEarlier(pending[i])
          /\ durable[epoch] < active.requested
          /\ \E w \in waiters : w.who = 0 /\ w.epoch = epoch /\ w.revision = active.requested
      BY DEF Kept, MutationIsLast
    <2>2. ASSUME NEW i \in 1 .. Len(pending')
          PROVE  IF i = Len(pending') THEN IsMutation(pending[i])' ELSE IsEarlier(pending[i])'
      <3>1. pending'[i] = pending[b + i] /\ b + i \in 1 .. Len(pending)
            /\ (i = Len(pending') <=> b + i = Len(pending))
        BY <1>2, <1>4
      <3>2. CASE i = Len(pending')
        <4>1. IsMutation(pending[b + i])
          BY <2>1, <3>1, <3>2
        <4> QED
          BY <1>1, <1>8, <3>1, <3>2, <4>1 DEF IsMutation
      <3>3. CASE i # Len(pending')
        <4>1. IsEarlier(pending[b + i])
          BY <2>1, <3>1, <3>3
        <4> QED
          BY <1>1, <1>8, <3>1, <3>3, <4>1 DEF IsEarlier
      <3> QED
        BY <3>2, <3>3
    <2>3. IF pending' = <<>> THEN inHand' # None /\ IsMutation(inHand)'
                             ELSE inHand' # None => IsEarlier(inHand)'
      <3>1. CASE b = Len(pending)
        <4>1. IsMutation(pending[b])
          BY <1>2, <2>1, <3>1
        <4> QED
          BY <1>1, <1>3, <1>4, <1>8, <3>1, <4>1 DEF IsMutation
      <3>2. CASE b # Len(pending)
        <4>1. IsEarlier(pending[b])
          BY <1>2, <2>1, <3>2
        <4> QED
          BY <1>1, <1>4, <1>8, <3>2, <4>1 DEF IsEarlier
      <3> QED
        BY <3>1, <3>2
    <2> QED
      BY <1>1, <1>8, <2>1, <2>2, <2>3 DEF MutationIsLast
  <1> QED
    BY <1>10, <1>11, <1>12, <1>13, <1>14 DEF Kept

\* Finishing a payload tells the file's state truly: a mutation is answered with its own
\* payload, after which nothing is under way for the document.
LEMMA FinishPayloadKept ==
  ASSUME Consistent, Kept, FinishPayload
  PROVE  Kept'
  <1> USE SessionAssumption
  <1> DEFINE written  == worker = "written"
             revision == DurableAfter(written)
             answered == {w \in waiters : w.epoch = inHand.epoch /\ w.revision <= inHand.revision}
             outcome(who) == LET w == CHOOSE w \in answered : w.who = who IN
                             IF revision >= w.revision THEN "ok" ELSE "failed"
             Answers  == \E w \in answered : w.who = 0
  <1>1. /\ TypeOK /\ inHand \in Payload /\ inHand # None /\ inHand \in Underway
        /\ epoch \in 0 .. MaxEpoch /\ durable \in [0 .. MaxEpoch -> Nat]
        /\ inHand.epoch \in 1 .. MaxEpoch /\ inHand.revision \in Nat
    BY UnderwayTyped DEF Consistent, FinishPayload, TypeOK
  <1>2. /\ durable' = [durable EXCEPT ![inHand.epoch] = revision]
        /\ active' = IF inHand.epoch = epoch THEN ActiveAfter(written, revision) ELSE active
        /\ waiters' = waiters \ answered
        /\ command' = IF Answers
                      THEN [command EXCEPT !.stage = IF outcome(0) = "ok" THEN "saved" ELSE "failed"]
                      ELSE command
        /\ worker' = "draining" /\ inHand' = None /\ written \in BOOLEAN
        /\ UNCHANGED <<disk, epoch, closed, pending>>
    BY DEF FinishPayload
  <1>3. /\ revision \in Nat
        /\ revision = IF written /\ inHand.revision > durable[inHand.epoch]
                      THEN inHand.revision ELSE durable[inHand.epoch]
    BY <1>1 DEF DurableAfter
  <1>4. \A w \in waiters : w \in answered <=> w.epoch = inHand.epoch /\ w.revision <= inHand.revision
    OBVIOUS
  <1>5. written => disk[inHand.path] = inHand.doc
    BY DEF Kept, WrittenIsThere
  <1>6. \A w \in answered : w.who = 0 => outcome(0) = IF revision >= w.revision THEN "ok" ELSE "failed"
    BY DEF Consistent, WaitersAreKnown
  <1> HIDE DEF written, revision, answered, outcome
  <1>7. /\ Underway' \subseteq Underway /\ Underway \subseteq Underway' \cup {inHand}
        /\ Len(pending') = Len(pending) /\ (pending = <<>> => Underway' = {})
    <2>1. Underway' = {pending[i] : i \in 1 .. Len(pending)}
      BY <1>2 DEF Underway
    <2>2. pending = <<>> => Len(pending) = 0
      BY <1>1, UnderwayTyped
    <2> QED
      BY <1>2, <2>1, <2>2 DEF Underway
  <1>8. inHand.epoch # epoch => active' = active
    BY <1>2
  <1>9. ASSUME inHand.epoch = epoch
        PROVE  /\ active'.path = active.path
               /\ written => active'.doc = inHand.doc
               /\ ~written => active'.state = "failed"
               /\ written \/ inHand.prior = None => active'.requested = active.requested
               /\ ~written /\ inHand.prior # None /\ active.requested = inHand.revision
                    => active'.doc = inHand.prior.doc
    <2>1. active \in Active
      BY <1>1, <1>9 DEF TypeOK
    <2>2. active' = ActiveAfter(written, revision)
      BY <1>2, <1>9
    <2> QED
      BY ONLY <1>2, <2>1, <2>2 DEF ActiveAfter, Active
  <1>10. active'.path = active.path
    BY <1>8, <1>9
  <1>11. WrittenIsThere'
    BY <1>2 DEF WrittenIsThere
  <1>12. (\A p \in Underway' : p.epoch # epoch) /\ inHand.epoch # epoch
           => \A p \in Underway : p.epoch # epoch
    BY <1>7
  <1>13. inHand.epoch = epoch <=> inHand.path = active.path
    BY <1>1 DEF Kept, PayloadsBelong
  <1>14. CASE Answers
    <2>1. PICK w \in answered : w.who = 0
      BY <1>14
    <2>2. w \in waiters /\ w.epoch = inHand.epoch /\ w.revision <= inHand.revision
      BY <1>4, <2>1, <1>2 DEF answered
    <2>3. Mutating /\ Asking
      BY <2>1, <2>2 DEF Consistent, WaitersAreKnown, Mutating, Asking
    <2>4. w.epoch = epoch /\ w.revision = active.requested /\ durable[epoch] < active.requested
      BY <2>1, <2>2, <2>3 DEF Consistent, WaitersAreKnown, Kept, MutationIsLast
    <2>5. active.requested \in Nat
      BY <1>1, <2>2, <2>4 DEF TypeOK, Active
    <2>6. pending = <<>> /\ IsMutation(inHand)
      BY <1>1, <2>2, <2>3, <2>4, <2>5 DEF Kept, MutationIsLast, IsEarlier
    <2>7. command \in Operation /\ command # None /\ command.kind = "states"
      BY <1>1, <2>3 DEF TypeOK, Mutating
    <2>8. command' = [command EXCEPT !.stage = IF outcome(0) = "ok" THEN "saved" ELSE "failed"]
      BY <1>2, <1>14
    <2>9. outcome(0) = IF written THEN "ok" ELSE "failed"
      BY <1>1, <1>3, <1>6, <2>1, <2>2, <2>4, <2>5, <2>6 DEF IsMutation
    <2>10. /\ command'.kind = command.kind /\ command'.path = command.path
           /\ command'.doc = command.doc /\ command'.from = command.from
           /\ command'.stage = IF written THEN "saved" ELSE "failed"
           /\ command' # None
      <3>1. \A x \in Operation, st \in {"saved", "failed"} :
              /\ [x EXCEPT !.stage = st] \in Operation
              /\ [x EXCEPT !.stage = st].kind = x.kind /\ [x EXCEPT !.stage = st].path = x.path
              /\ [x EXCEPT !.stage = st].doc = x.doc /\ [x EXCEPT !.stage = st].from = x.from
              /\ [x EXCEPT !.stage = st].stage = st
        BY DEF Operation
      <3>2. PICK st \in {"saved", "failed"} :
              st = (IF written THEN "saved" ELSE "failed") /\ command' = [command EXCEPT !.stage = st]
        BY <2>8, <2>9
      <3>3. command' \in Operation
        BY <2>7, <3>1, <3>2
      <3> QED
        BY <2>7, <3>1, <3>2, <3>3
    <2>11. Underway' = {} /\ Mutating' /\ ~Asking'
      BY <1>7, <2>6, <2>7, <2>10 DEF Mutating, Asking
    <2>12. PayloadsBelong' /\ MutationIsLast'
      BY <2>11 DEF PayloadsBelong, MutationIsLast
    <2>13. OperationsBelong'
      BY <1>10, <2>7, <2>10 DEF Kept, OperationsBelong
    <2>14. RestIsSaved'
      BY <1>2, <1>5, <1>9, <1>10, <1>13, <2>2, <2>4 DEF RestIsSaved
    <2>15. MutationIsSettled'
      BY <1>2, <1>5, <1>9, <2>2, <2>4, <2>6, <2>10, <2>11 DEF MutationIsSettled, IsMutation
    <2> QED
      BY <1>11, <2>12, <2>13, <2>14, <2>15 DEF Kept
  <1>15. CASE ~Answers
    <2>1. command' = command /\ Asking' = Asking /\ Mutating' = Mutating
      BY <1>2, <1>15 DEF Asking, Mutating
    <2>2. Asking => pending # <<>> /\ IsEarlier(inHand)
      <3> SUFFICES ASSUME Asking, pending = <<>> PROVE FALSE
        BY <1>1 DEF Kept, MutationIsLast
      <3>1. IsMutation(inHand)
        BY DEF Kept, MutationIsLast
      <3>2. PICK w \in waiters : w.who = 0 /\ w.epoch = epoch /\ w.revision = active.requested
        BY DEF Kept, MutationIsLast
      <3>3. w \in answered
        BY <1>1, <1>4, <3>1, <3>2 DEF IsMutation
      <3> QED
        BY <1>15, <3>2, <3>3
    <2>3. inHand.prior = None
      BY <1>1, <2>2 DEF Kept, PayloadsBelong, IsEarlier
    <2>4. active'.requested = active.requested
      BY <1>8, <1>9, <2>3
    <2>5. PayloadsBelong'
      BY <1>2, <1>7, <1>10, <2>1, <2>4 DEF Kept, PayloadsBelong
    <2>6. OperationsBelong'
      BY <1>10, <2>1 DEF Kept, OperationsBelong
    <2>7. RestIsSaved'
      <3>1. CASE inHand.epoch = epoch
        BY <1>2, <1>5, <1>9, <1>10, <1>13, <3>1 DEF RestIsSaved
      <3>2. CASE inHand.epoch # epoch
        BY <1>2, <1>8, <1>12, <2>1, <3>2 DEF Kept, RestIsSaved
      <3> QED
        BY <3>1, <3>2
    <2>8. MutationIsSettled'
      BY <1>1, <1>2, <1>7, <1>8, <2>1 DEF Kept, MutationIsSettled
    <2>9. MutationIsLast'
      <3> SUFFICES ASSUME Asking PROVE MutationIsLast'
        BY <2>1 DEF MutationIsLast
      <3>1. pending # <<>> /\ IsEarlier(inHand)
        BY <2>2
      <3>2. /\ \A i \in 1 .. Len(pending) :
                 IF i = Len(pending) THEN IsMutation(pending[i]) ELSE IsEarlier(pending[i])
            /\ durable[epoch] < active.requested
        BY DEF Kept, MutationIsLast
      <3>3. \A i \in 1 .. Len(pending') :
              IF i = Len(pending') THEN IsMutation(pending[i])' ELSE IsEarlier(pending[i])'
        BY <1>2, <1>7, <2>1, <2>4, <3>2 DEF IsMutation, IsEarlier
      <3>4. durable'[epoch'] < active'.requested
        <4>1. CASE inHand.epoch = epoch
          BY <1>1, <1>2, <1>3, <2>4, <3>1, <3>2, <4>1 DEF IsEarlier
        <4>2. CASE inHand.epoch # epoch
          BY <1>1, <1>2, <2>4, <3>2, <4>2
        <4> QED
          BY <4>1, <4>2
      <3>5. \E w \in waiters' : w.who = 0 /\ w.epoch = epoch' /\ w.revision = active'.requested
        <4>1. PICK w \in waiters : w.who = 0 /\ w.epoch = epoch /\ w.revision = active.requested
          BY DEF Kept, MutationIsLast
        <4> QED
          BY <1>2, <1>15, <2>4, <4>1
      <3> QED
        BY <1>2, <3>1, <3>3, <3>4, <3>5 DEF MutationIsLast
    <2> QED
      BY <1>11, <2>5, <2>6, <2>7, <2>8, <2>9 DEF Kept
  <1> QED
    BY <1>14, <1>15

\* As long as nothing overlaps, every step keeps what is said of the payloads.
LEMMA StepKept == Consistent /\ Kept /\ [Next]_vars /\ ~overlapped' => Kept'
  <1> SUFFICES ASSUME Consistent, Kept, [Next]_vars, ~overlapped' PROVE Kept'
    OBVIOUS
  <1>a. TypeOK /\ closed \in BOOLEAN
    BY DEF Consistent, TypeOK
  <1>1. CASE Editor
    <2>1. ASSUME NEW r \in Saves, SaveReplayed(r) PROVE Kept'
      BY <1>a, <2>1, QuietKept DEF SaveReplayed, queue
    <2> QED
      BY <1>1, <1>a, <2>1, SaveAcceptedKept DEF Editor
  <1>2. CASE CommandStart
    <2>1. ASSUME NEW c \in Command, ExecuteCommandState(c) \/ ResetCommandState(c)
          PROVE  Kept'
      <3>1. active.doc.completed \in SUBSET Command
        BY <1>a, <2>1 DEF TypeOK, ExecuteCommandState, ResetCommandState, Active, Document
      <3>2. active.doc.completed \cup {c} \in SUBSET Command /\ active.doc.completed \ {c} \in SUBSET Command
        BY <2>1, <3>1
      <3> QED
        BY <2>1, <3>2, MutationKept DEF ExecuteCommandState, ResetCommandState
    <2>2. ASSUME ResetTerminalCommandStates PROVE Kept'
      BY <2>2, MutationKept DEF ResetTerminalCommandStates
    <2> QED
      BY <1>2, <1>a, <2>1, <2>2, ReadKept, CreateKept DEF CommandStart
  <1>3. CASE CommandStep
    BY <1>3, <1>a, WriteDirectlyKept, InstallDirectlyKept, ActivateKept, ReturnKept DEF CommandStep
  <1>4. CASE WorkerStep
    <2>1. ASSUME WakeUp PROVE Kept'
      BY <1>a, <2>1, QuietKept DEF WakeUp
    <2>2. ASSUME QueueEmpty PROVE Kept'
      BY <1>a, <2>2, QuietKept DEF QueueEmpty, queue
    <2> QED
      BY <1>4, <1>a, <2>1, <2>2, NextPayloadKept, WritePayloadKept, FinishPayloadKept DEF WorkerStep
  <1>5. CASE Shutdown
    BY <1>5, <1>a, QuietKept DEF Shutdown
  <1>6. CASE UNCHANGED vars
    BY <1>6, <1>a, QuietKept DEF vars, queue
  <1> QED
    BY <1>1, <1>2, <1>3, <1>4, <1>5, <1>6 DEF Next

\* What overlapped stays overlapped.
LEMMA OverlapStays == TypeOK /\ [Next]_vars /\ overlapped => overlapped'
  <1> SUFFICES ASSUME [Next]_vars, overlapped PROVE overlapped'
    OBVIOUS
  <1> QED
    BY DEF Next, Editor, SaveAccepted, SaveReplayed, CommandStart, ExecuteCommandState,
           ResetCommandState, ResetTerminalCommandStates, MutateCommandStates, ReadForGroups,
           ReadForConfig, ReadToOpen, WriteToCreate, CommandStep, MutationReturns, WriteDirectly,
           InstallDirectly, Activate, WorkerStep, WakeUp, NextPayload, QueueEmpty, WritePayload,
           FinishPayload, Shutdown, vars

\* The payloads under way say where the newest document is, unless a file was read or
\* written past the queue while work for it was queued.
THEOREM StoreKept == Spec => []StoreInv
  <1>1. Init => StoreInv
    BY InitConsistent, InitKept DEF StoreInv
  <1>2. StoreInv /\ [Next]_vars => StoreInv'
    <2> SUFFICES ASSUME StoreInv, [Next]_vars PROVE StoreInv'
      OBVIOUS
    <2>1. Consistent /\ Consistent' /\ TypeOK
      BY StepConsistent DEF StoreInv, Consistent
    <2>2. overlapped' \/ Kept'
      BY <2>1, StepKept, OverlapStays DEF StoreInv
    <2> QED
      BY <2>1, <2>2 DEF StoreInv
  <1> QED
    BY <1>1, <1>2, PTL DEF Spec

\* What finishPayload calls saved is in the file: the document at rest, and the command
\* states of a mutation whose caller is about to be told so.
THEOREM SavedIsAlwaysInTheFile == Spec => []SavedIsInTheFile
  <1>1. StoreInv => SavedIsInTheFile
    <2> SUFFICES ASSUME StoreInv, ~overlapped PROVE SettledSessionIsOnDisk /\ SavedStatesAreInTheFile
      BY DEF SavedIsInTheFile, SettledSessionIsOnDisk, SavedStatesAreInTheFile
    <2>1. Kept /\ TypeOK
      BY DEF StoreInv, Consistent
    <2>2. pending = <<>> /\ inHand = None => Underway = {}
      BY <2>1, UnderwayTyped DEF Underway
    <2>3. SettledSessionIsOnDisk
      BY <2>1, <2>2 DEF Kept, RestIsSaved, SettledSessionIsOnDisk, Opened
    <2>4. SavedStatesAreInTheFile
      BY <2>1 DEF Kept, MutationIsSettled, Mutating, Asking, SavedStatesAreInTheFile
    <2> QED
      BY <2>3, <2>4
  <1> QED
    BY <1>1, StoreKept, PTL

\* A mutation of command states that failed was taken back by finishPayload: nothing it
\* changed is in the active document when its caller hears of the failure.
THEOREM FailedMutationsAreUndone == Spec => []FailedMutationLeavesNoTrace
  <1>1. StoreInv => FailedMutationLeavesNoTrace
    BY DEF StoreInv, Kept, MutationIsSettled, Mutating, Asking, FailedMutationLeavesNoTrace
  <1> QED
    BY <1>1, StoreKept, PTL
=============================================================================
