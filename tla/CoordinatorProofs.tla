-------------------------- MODULE CoordinatorProofs --------------------------
(* Theorems about the coordinator, seen from all of its sides: the aggregate  *)
(* that decides (Coordination), the streams that carry what it decided to a   *)
(* page and the page's presentations back (PlayerStreams), and the            *)
(* checkpoints it keeps of the terminals, each with its puzzle                *)
(* (LockedTerminal).  They share no variable.                                 *)
(*                                                                            *)
(* Coordination, for every set of sessions, characters and requests and every *)
(* bound.  The two claim indexes and the controller are inductive together    *)
(* with the types (ClaimsInv); labels and streams (SessionsInv) and the       *)
(* replay cache with its history (ReplayInv) each are with those.             *)
(*                                                                            *)
(* PlayerStreams, for every number of streams, generations, changes and       *)
(* requests, every queue and every send window, in two parts:                 *)
(* RegistrationsInv says what the hub, the handlers, the receivers and the    *)
(* workers know of one another: an uplink belongs to the stream its client is *)
(* registered with, a handler that has left has been unregistered, a lease    *)
(* that was let go of is closed.  Its preservation never looks at a message.  *)
(* UpdatesInv says of one stream at a time what lies between the coordinator  *)
(* and the page: revisions grow along the connection, then along the queue,   *)
(* and a registered stream still carries the current state or has brought it. *)
(* No other stream occurs in it, so each action disturbs it for one stream.   *)
(*                                                                            *)
(* LockedTerminal, for every set of terminals, drafts and boards.  Every      *)
(* action is shown to be a transaction: it leaves the puzzle of a terminal as *)
(* it is, lets it go, advances the one that is shown or draws a new one.  A   *)
(* transaction keeps TerminalsInv, whatever action it is of.  Its puzzles are *)
(* sound boards with numbers of their own, which is what makes the audit log  *)
(* follow them: an event reaches the one puzzle it is about.                  *)
EXTENDS Coordination, PlayerStreams, LockedTerminal, FiniteSetTheorems, TLAPS

-----------------------------------------------------------------------------
(* Coordination: types.                                                      *)

(* A stored record keeps the cache well typed. *)
LEMMA StoreResultType ==
  ASSUME TypeOK, NEW s \in Session, NEW id \in RequestId, NEW record \in Record,
         StoreResult(s, id, record)
  PROVE  cache' \in [Session -> [RequestId -> Record \cup {None}]]
<1> DEFINE row == [i \in RequestId |-> CASE i = id -> record
                                        [] i # id /\ i \in Evicted(s, id) -> None
                                        [] OTHER -> cache[s][i]]
<1>1. row \in [RequestId -> Record \cup {None}]
  BY DEF TypeOK
<1>2. cache' = [cache EXCEPT ![s] = row]
  BY DEF StoreResult
<1> HIDE DEF row
<1> QED
  BY <1>1, <1>2 DEF TypeOK

(* The history variables stay well typed, whichever way a request is answered. *)
LEMMA HistoryType ==
  ASSUME TypeOK, NEW s \in Session, NEW id \in RequestId, NEW request \in Request,
         Apply(s, id, request) \/ Refuse(s, id)
  PROVE  applied' \subseteq Logical /\ twice' \in BOOLEAN
<1>1. Retained(s, id) \subseteq Logical
  BY DEF TypeOK, Retained
<1>2. <<s, id, request>> \in Logical
  BY DEF Logical
<1>3. CASE Apply(s, id, request)
  BY <1>1, <1>2, <1>3 DEF TypeOK, Apply
<1>4. CASE Refuse(s, id)
  BY <1>1, <1>4 DEF TypeOK, Refuse
<1> QED
  BY <1>3, <1>4

(* The session a stream resolves to is a recognised one. *)
LEMMA SessionOfType ==
  ASSUME TypeOK, NEW conn
  PROVE  /\ SessionOf(conn) \in known \cup {None}
         /\ SessionOf(conn) # None => conn \in conns[SessionOf(conn)]
BY DEF TypeOK, SessionOf

(* The holder of a character is a session. *)
LEMMA CharacterOwnerType ==
  ASSUME TypeOK, NEW ch \in Character
  PROVE  CharacterOwner(ch) \in Session \cup {None}
BY DEF TypeOK, CharacterOwner

(* The initial state is well typed. *)
LEMMA TypeInit == Init => TypeOK
<1> SUFFICES ASSUME Init PROVE TypeOK
  OBVIOUS
<1>1. config \in BOOLEAN /\ twice \in BOOLEAN
  BY DEF Init
<1>2. cache \in [Session -> [RequestId -> Record \cup {None}]]
  BY DEF Init, NoResults
<1>3. name \in [Session -> Nat] /\ \A s \in Session : name[s] # 0 <=> s \in known
  BY DEF Init
<1> QED
  BY <1>1, <1>2, <1>3, ConstantsAssumption DEF Init, TypeOK

(* Every action keeps the types, one step of the proof per action. *)
LEMMA TypeStep == TypeOK /\ [Next]_vars => TypeOK'
<1> SUFFICES ASSUME TypeOK, [Next]_vars PROVE TypeOK'
  OBVIOUS
<1> USE ConstantsAssumption DEF Accepted, people, books, claims, history
<1>1. ASSUME NEW conn \in Connection, NEW s \in Session, SubscribeNew(conn, s)
      PROVE  TypeOK'
  BY <1>1 DEF TypeOK, SubscribeNew, FirstFreeLabel
<1>2. ASSUME NEW conn \in Connection, NEW s \in Session, SubscribeKnown(conn, s)
      PROVE  TypeOK'
  BY <1>2 DEF TypeOK, SubscribeKnown
<1>3. ASSUME NEW conn \in Connection, DetachConnection(conn)
      PROVE  TypeOK'
  BY <1>3, SessionOfType DEF TypeOK, DetachConnection
<1>4. ASSUME NEW s \in Session, NEW n \in Name, RenameLogicalSession(s, n)
      PROVE  TypeOK'
  BY <1>4 DEF TypeOK, RenameLogicalSession
<1>5. ASSUME NEW entries \in SUBSET Character, InstallPlayerConfig(entries)
      PROVE  TypeOK'
  BY <1>5 DEF TypeOK, InstallPlayerConfig
<1>6. ASSUME ClearPlayerConfig
      PROVE  TypeOK'
  <2>1. config' \in BOOLEAN
    BY <1>6 DEF ClearPlayerConfig
  <2> QED
    BY <1>6, <2>1 DEF TypeOK, ClearPlayerConfig
<1>7. ASSUME NEW ch \in Character, AddCharacter(ch) \/ UpdateCharacter(ch) \/ DeleteCharacter(ch)
      PROVE  TypeOK'
  BY <1>7 DEF TypeOK, AddCharacter, UpdateCharacter, DeleteCharacter
<1>8. ASSUME StartBroadcast \/ EndBroadcast \/ Shutdown
      PROVE  TypeOK'
  <2>1. config' \in BOOLEAN
    BY <1>8 DEF TypeOK, StartBroadcast, EndBroadcast, Shutdown
  <2>2. cache' \in [Session -> [RequestId -> Record \cup {None}]]
    BY <1>8 DEF StartBroadcast, EndBroadcast, Shutdown, NoResults
  <2>3. CASE StartBroadcast \/ EndBroadcast
    BY <2>1, <2>2, <2>3 DEF TypeOK, StartBroadcast, EndBroadcast, FreshClaims
  <2>4. CASE Shutdown
    BY <2>1, <2>2, <2>4 DEF TypeOK, Shutdown, FreshClaims
  <2> QED
    BY <1>8, <2>3, <2>4
<1>9. ASSUME NEW s \in Session, ReleaseCharacter(s)
      PROVE  TypeOK'
  BY <1>9 DEF TypeOK, ReleaseCharacter, ControllerWithout
<1>10. ASSUME NEW s \in Session, SetActiveController(s)
       PROVE  TypeOK'
  BY <1>10 DEF TypeOK, SetActiveController
<1>11. ASSUME NEW s \in Session, NEW ch \in Character, AssignCharacter(s, ch)
       PROVE  TypeOK'
  BY <1>11 DEF TypeOK, AssignCharacter, FirstController
<1>12. ASSUME NEW s \in Session, NEW ch \in Character, MoveCharacter(ch, s)
       PROVE  TypeOK'
  <2> DEFINE former == CharacterOwner(ch)
  <2>1. former \in Session \cup {None}
    BY CharacterOwnerType
  <2> HIDE DEF former
  <2>2. /\ assign' \in [Session -> Character \cup {None}]
        /\ controller' \in Session \cup {None}
    BY <1>12, <2>1 DEF TypeOK, MoveCharacter, ControllerWithout, former
  <2> QED
    BY <1>12, <2>2 DEF TypeOK, MoveCharacter
<1>13. ASSUME NEW s \in Session, NEW id \in RequestId, NEW ch \in Character,
              SelectCharacter(s, id, ch)
       PROVE  TypeOK'
  <2>1. Selection(broadcast, ch) \in Request
    BY DEF TypeOK, Selection, Request
  <2>2. cache' \in [Session -> [RequestId -> Record \cup {None}]]
    BY <1>13, <2>1, StoreResultType DEF SelectCharacter, Record, Reason
  <2>3. applied' \subseteq Logical /\ twice' \in BOOLEAN
    BY <1>13, <2>1, HistoryType DEF SelectCharacter
  <2>4. /\ assign' \in [Session -> Character \cup {None}]
        /\ owner' \in [Character -> Session \cup {None}]
        /\ controller' \in Session \cup {None}
    BY <1>13 DEF TypeOK, SelectCharacter, FirstController
  <2> QED
    BY <1>13, <2>2, <2>3, <2>4 DEF TypeOK, SelectCharacter
<1>14. ASSUME NEW s \in Session, NEW id \in RequestId, NEW ch \in Character,
              RefuseSelection(s, id, ch)
       PROVE  TypeOK'
  <2>1. Selection(broadcast, ch) \in Request
    BY DEF TypeOK, Selection, Request
  <2>2. cache' \in [Session -> [RequestId -> Record \cup {None}]]
    BY <1>14, <2>1, StoreResultType DEF RefuseSelection, Record, Reason
  <2>3. applied' \subseteq Logical /\ twice' \in BOOLEAN
    BY <1>14, <2>1, HistoryType DEF RefuseSelection
  <2> QED
    BY <1>14, <2>2, <2>3 DEF TypeOK, RefuseSelection
<1>15. ASSUME NEW s \in Session, NEW conn \in Connection, NEW id \in RequestId,
              NEW b \in 1 .. epochs, NEW a \in Action,
              ResolveStream(s, conn, id, TerminalAction(b, a))
       PROVE  TypeOK'
  <2>1. TerminalAction(b, a) \in Request
    BY DEF TypeOK, TerminalAction, Request
  <2>2. inFlight' \subseteq Call
    BY <1>15, <2>1 DEF TypeOK, ResolveStream, Call
  <2> QED
    BY <1>15, <2>2 DEF TypeOK, ResolveStream
<1>16. ASSUME NEW call \in inFlight, DispatchDropped(call)
       PROVE  TypeOK'
  BY <1>16 DEF TypeOK, DispatchDropped
<1>17. ASSUME NEW call \in inFlight, DispatchRefused(call)
       PROVE  TypeOK'
  <2> DEFINE s == SessionOf(call.conn)
  <2>1. s \in Session /\ call.id \in RequestId /\ call.request \in Request
    BY <1>17, SessionOfType DEF TypeOK, DispatchRefused, Call
  <2>2. Verdict(s, call.request) \in Reason
    BY DEF Verdict, Reason
  <2>3. cache' \in [Session -> [RequestId -> Record \cup {None}]]
    <3>1. [request |-> call.request, reason |-> Verdict(s, call.request)] \in Record
      BY <2>1, <2>2 DEF Record
    <3>2. [request |-> call.request, reason |-> "terminal"] \in Record
      BY <2>1 DEF Record, Reason
    <3> QED
      BY <1>17, <2>1, <3>1, <3>2, StoreResultType DEF DispatchRefused
  <2>4. applied' \subseteq Logical /\ twice' \in BOOLEAN
    BY <1>17, <2>1, HistoryType DEF DispatchRefused
  <2>5. revision' \in Nat
    BY <1>17 DEF TypeOK, DispatchRefused
  <2> HIDE DEF s
  <2> QED
    BY <1>17, <2>3, <2>4, <2>5 DEF TypeOK, DispatchRefused
<1>18. ASSUME NEW call \in inFlight, DispatchAccepted(call)
       PROVE  TypeOK'
  <2> DEFINE s == SessionOf(call.conn)
  <2>1. s \in Session /\ call.id \in RequestId /\ call.request \in Request
    BY <1>18, SessionOfType DEF TypeOK, DispatchAccepted, Call
  <2>2. cache' \in [Session -> [RequestId -> Record \cup {None}]]
    BY <1>18, <2>1, StoreResultType DEF DispatchAccepted, Record, Reason
  <2>3. applied' \subseteq Logical /\ twice' \in BOOLEAN
    BY <1>18, <2>1, HistoryType DEF DispatchAccepted
  <2> QED
    BY <1>18, <2>2, <2>3 DEF TypeOK, DispatchAccepted
<1>19. CASE UNCHANGED vars
  BY <1>19 DEF TypeOK, vars
<1> QED
  BY <1>1, <1>2, <1>3, <1>4, <1>5, <1>6, <1>7, <1>8, <1>9, <1>10, <1>11, <1>12, <1>13,
     <1>14, <1>15, <1>16, <1>17, <1>18, <1>19
     DEF Next, Streams, Books, Overseer, Players

(* The type invariant holds in every reachable state. *)
THEOREM TypeCorrect == Spec => []TypeOK
BY TypeInit, TypeStep, PTL DEF Spec

-----------------------------------------------------------------------------
(* Claims and control.  The three invariants are inductive only together:   *)
(* that a move or a release clears the right side of a claim needs the two  *)
(* indexes to agree beforehand.                                             *)

ClaimsInv == ClaimsAgree /\ ControllerHoldsClaim /\ ClaimsBelongToBroadcast

(* While the indexes agree, the holder of a character is what either says. *)
LEMMA OwnerIsClaim ==
  ASSUME TypeOK, ClaimsAgree, NEW ch \in Character
  PROVE  CharacterOwner(ch) = owner[ch]
BY ConstantsAssumption DEF TypeOK, ClaimsAgree, CharacterOwner

(* While the indexes agree, an unassigned session holds no character. *)
LEMMA AssignedIsClaim ==
  ASSUME TypeOK, ClaimsAgree, NEW s \in Session
  PROVE  SessionAssigned(s) <=> assign[s] # None
BY ConstantsAssumption DEF TypeOK, ClaimsAgree, SessionAssigned

(* No claims exist at first. *)
LEMMA ClaimsInit == Init => ClaimsInv
BY ConstantsAssumption
   DEF Init, ClaimsInv, ClaimsAgree, ControllerHoldsClaim, ClaimsBelongToBroadcast

(* A claim that is made, by selection or by assignment. *)
LEMMA ClaimMade ==
  ASSUME TypeOK, ClaimsInv, NEW s \in Session, NEW ch \in Character,
         assign[s] = None, owner[ch] = None, broadcast # 0, ch \in roster,
         assign' = [assign EXCEPT ![s] = ch], owner' = [owner EXCEPT ![ch] = s],
         controller' \in {controller, s}, UNCHANGED <<broadcast, roster>>
  PROVE  ClaimsInv'
<1>1. ClaimsAgree'
  BY ConstantsAssumption DEF TypeOK, ClaimsInv, ClaimsAgree
<1>2. ControllerHoldsClaim'
  BY ConstantsAssumption DEF TypeOK, ClaimsInv, ControllerHoldsClaim
<1>3. ClaimsBelongToBroadcast'
  BY DEF TypeOK, ClaimsInv, ClaimsBelongToBroadcast
<1> QED
  BY <1>1, <1>2, <1>3 DEF ClaimsInv

(* Every action keeps the claim invariant; only those that write the claims need care. *)
LEMMA ClaimsStep == TypeOK /\ ClaimsInv /\ [Next]_vars => ClaimsInv'
<1> SUFFICES ASSUME TypeOK, ClaimsInv, [Next]_vars PROVE ClaimsInv'
  OBVIOUS
<1> USE ConstantsAssumption
<1>1. ASSUME UNCHANGED <<broadcast, assign, owner, controller, roster>>
      PROVE  ClaimsInv'
  BY <1>1 DEF ClaimsInv, ClaimsAgree, ControllerHoldsClaim, ClaimsBelongToBroadcast
<1>2. ASSUME broadcast = 0, UNCHANGED <<broadcast, assign, owner, controller>>
      PROVE  ClaimsInv'
  BY <1>2 DEF ClaimsInv, ClaimsAgree, ControllerHoldsClaim, ClaimsBelongToBroadcast
<1>3. ASSUME FreshClaims
      PROVE  ClaimsInv'
  BY <1>3 DEF ClaimsInv, ClaimsAgree, ControllerHoldsClaim, ClaimsBelongToBroadcast, FreshClaims
<1>4. ASSUME NEW s \in Session, NEW ch \in Character, AssignCharacter(s, ch)
      PROVE  ClaimsInv'
  <2>1. assign[s] = None /\ owner[ch] = None
    BY <1>4, OwnerIsClaim, AssignedIsClaim DEF ClaimsInv, AssignCharacter, CharacterClaimed
  <2> QED
    BY <1>4, <2>1, ClaimMade DEF AssignCharacter, FirstController, books
<1>5. ASSUME NEW s \in Session, NEW id \in RequestId, NEW ch \in Character,
             SelectCharacter(s, id, ch)
      PROVE  ClaimsInv'
  BY <1>5, ClaimMade DEF SelectCharacter, FirstController, books
<1>6. ASSUME NEW s \in Session, ReleaseCharacter(s)
      PROVE  ClaimsInv'
  <2>1. ClaimsAgree'
    BY <1>6 DEF TypeOK, ClaimsInv, ClaimsAgree, ReleaseCharacter
  <2>2. ControllerHoldsClaim'
    BY <1>6 DEF TypeOK, ClaimsInv, ControllerHoldsClaim, ReleaseCharacter, ControllerWithout
  <2>3. ClaimsBelongToBroadcast'
    BY <1>6 DEF TypeOK, ClaimsInv, ClaimsBelongToBroadcast, ReleaseCharacter, books
  <2> QED
    BY <2>1, <2>2, <2>3 DEF ClaimsInv
<1>7. ASSUME NEW s \in Session, NEW ch \in Character, MoveCharacter(ch, s)
      PROVE  ClaimsInv'
  <2>1. CharacterOwner(ch) = owner[ch] /\ assign[s] = None
    BY <1>7, OwnerIsClaim, AssignedIsClaim DEF ClaimsInv, MoveCharacter
  <2>2. /\ assign' = [t \in Session |-> CASE t = s -> ch
                                          [] t # s /\ t = owner[ch] -> None
                                          [] OTHER -> assign[t]]
        /\ owner' = [owner EXCEPT ![ch] = s]
        /\ controller' = IF controller = owner[ch] THEN None ELSE controller
        /\ broadcast # 0 /\ ch \in roster /\ UNCHANGED <<broadcast, roster>>
    BY <1>7, <2>1 DEF MoveCharacter, ControllerWithout, books
  <2>3. ClaimsAgree'
    <3> SUFFICES ASSUME NEW t \in Session, NEW k \in Character
                 PROVE  assign'[t] = k <=> owner'[k] = t
      BY DEF ClaimsAgree
    <3>1. assign[t] = k <=> owner[k] = t
      BY DEF ClaimsInv, ClaimsAgree
    <3>2. assign[t] = ch <=> owner[ch] = t
      BY DEF ClaimsInv, ClaimsAgree
    <3> QED
      BY <2>1, <2>2, <3>1, <3>2 DEF TypeOK
  <2>4. ControllerHoldsClaim'
    BY <2>1, <2>2 DEF TypeOK, ClaimsInv, ControllerHoldsClaim
  <2>5. ClaimsBelongToBroadcast'
    BY <2>1, <2>2 DEF TypeOK, ClaimsInv, ClaimsBelongToBroadcast
  <2> QED
    BY <2>3, <2>4, <2>5 DEF ClaimsInv
<1>8. ASSUME NEW s \in Session, SetActiveController(s)
      PROVE  ClaimsInv'
  <2>1. assign[s] # None
    BY <1>8, AssignedIsClaim DEF ClaimsInv, SetActiveController
  <2> QED
    BY <1>8, <2>1 DEF ClaimsInv, ClaimsAgree, ControllerHoldsClaim, ClaimsBelongToBroadcast,
                      SetActiveController, books
<1>9. ASSUME Streams \/ \E call \in inFlight : \/ DispatchDropped(call) \/ DispatchRefused(call)
                                               \/ DispatchAccepted(call)
      PROVE  UNCHANGED <<broadcast, assign, owner, controller, roster>>
  BY <1>9 DEF Streams, SubscribeNew, SubscribeKnown, DetachConnection, RenameLogicalSession,
              DispatchDropped, DispatchRefused, DispatchAccepted, claims, books
<1>10. ASSUME Books
       PROVE  broadcast = 0 /\ UNCHANGED <<broadcast, assign, owner, controller>>
  BY <1>10 DEF Books, InstallPlayerConfig, ClearPlayerConfig, AddCharacter, UpdateCharacter,
               DeleteCharacter, claims
<1>11. ASSUME Overseer
       PROVE  ClaimsInv'
  BY <1>11, <1>3, <1>4, <1>6, <1>7, <1>8 DEF Overseer, StartBroadcast, EndBroadcast, Shutdown
<1>12. ASSUME Players
       PROVE  ClaimsInv'
  <2>1. ASSUME NEW s \in Session, NEW id \in RequestId, NEW ch \in Character,
               RefuseSelection(s, id, ch)
        PROVE  ClaimsInv'
    BY <2>1, <1>1 DEF RefuseSelection, claims, books
  <2>2. ASSUME NEW s, NEW conn, NEW id, NEW request, ResolveStream(s, conn, id, request)
        PROVE  ClaimsInv'
    BY <2>2, <1>1 DEF ResolveStream, claims, books
  <2> QED
    BY <1>12, <1>1, <1>5, <1>9, <2>1, <2>2 DEF Players
<1>13. CASE UNCHANGED vars
  BY <1>13, <1>1 DEF vars, claims, books
<1> QED
  BY <1>1, <1>2, <1>9, <1>10, <1>11, <1>12, <1>13 DEF Next

(* The claim invariant holds throughout. *)
LEMMA ClaimsAlways == Spec => []ClaimsInv
BY TypeCorrect, ClaimsInit, ClaimsStep, PTL DEF Spec

(* One session, one character, in both indexes, for every interleaving of claims. *)
THEOREM ClaimsAgreeAlways == Spec => []ClaimsAgree
BY ClaimsAlways, PTL DEF ClaimsInv

(* The controller always holds a character. *)
THEOREM ControllerAlwaysHoldsClaim == Spec => []ControllerHoldsClaim
BY ClaimsAlways, PTL DEF ClaimsInv

(* No claim outlives its broadcast or the roster entry it names. *)
THEOREM ClaimsAlwaysBelongToBroadcast == Spec => []ClaimsBelongToBroadcast
BY ClaimsAlways, PTL DEF ClaimsInv

(* The three together: what the claims say is consistent in every reachable state. *)
THEOREM ClaimsAlwaysConsistent == Spec => []ClaimsAreConsistent
<1>1. ClaimsInv => ClaimsAreConsistent
  BY DEF ClaimsInv, ClaimsAreConsistent
<1> QED
  BY <1>1, ClaimsAlways, PTL

-----------------------------------------------------------------------------
(* Sessions and their streams.  A call keeps the stream it was resolved to; *)
(* that the stream never comes to mean another session rests on stream ids  *)
(* being issued once and on one session at a time holding a stream.         *)

StreamsInv ==
  /\ \A conn \in issued, s, t \in Session : conn \in conns[s] /\ conn \in conns[t] => s = t
  /\ \A call \in inFlight :
       /\ call.conn \in issued
       /\ \A s \in Session : call.conn \in conns[s] => s = call.session

SessionsInv == LabelsAreUnique /\ StreamsInv

(* No session is known at first. *)
LEMMA SessionsInit == Init => SessionsInv
BY DEF Init, SessionsInv, LabelsAreUnique, StreamsInv

(* Streams that go away, and calls that are answered, mix nobody up. *)
LEMMA StreamsShrink ==
  ASSUME TypeOK, StreamsInv, issued \subseteq issued', inFlight' \subseteq inFlight,
         issued' \subseteq issued,
         \A s \in Session : conns'[s] \subseteq conns[s]
  PROVE  StreamsInv'
BY DEF TypeOK, StreamsInv

(* A stream that is new belongs to the session it was opened for only. *)
LEMMA StreamOpened ==
  ASSUME TypeOK, StreamsInv, NEW conn \in Connection, NEW s \in Session, conn \notin issued,
         issued' = issued \cup {conn}, inFlight' = inFlight,
         \A t \in Session : t # s => conns'[t] = conns[t],
         conns'[s] \subseteq conns[s] \cup {conn}
  PROVE  StreamsInv'
<1>1. \A t \in Session : conns[t] \subseteq issued
  BY DEF TypeOK
<1>2. ASSUME NEW c \in issued', NEW t \in Session, NEW u \in Session,
             c \in conns'[t], c \in conns'[u]
      PROVE  t = u
  <2>1. CASE c = conn
    BY <1>1, <1>2, <2>1
  <2>2. CASE c # conn
    BY <1>2, <2>2 DEF StreamsInv
  <2> QED
    BY <2>1, <2>2
<1>3. ASSUME NEW call \in inFlight', NEW t \in Session, call.conn \in conns'[t]
      PROVE  t = call.session
  BY <1>3 DEF StreamsInv
<1>4. \A call \in inFlight' : call.conn \in issued'
  BY DEF StreamsInv
<1> QED
  BY <1>2, <1>3, <1>4 DEF StreamsInv

(* Every action keeps labels apart and streams with their sessions. *)
LEMMA SessionsStep == TypeOK /\ SessionsInv /\ [Next]_vars => SessionsInv'
<1> SUFFICES ASSUME TypeOK, SessionsInv, [Next]_vars PROVE SessionsInv'
  OBVIOUS
<1>1. ASSUME NEW conn \in Connection, NEW s \in Session, SubscribeNew(conn, s)
      PROVE  SessionsInv'
  <2>1. StreamsInv'
    BY <1>1, StreamOpened DEF SessionsInv, SubscribeNew, TypeOK
  <2>2. PICK n : FirstFreeLabel(n) /\ name' = [name EXCEPT ![s] = n]
    BY <1>1 DEF SubscribeNew
  <2>3. known' = known \cup {s}
    BY <1>1 DEF SubscribeNew
  <2>4. LabelsAreUnique'
    BY <2>2, <2>3 DEF SessionsInv, LabelsAreUnique, FirstFreeLabel, TypeOK
  <2> QED
    BY <2>1, <2>4 DEF SessionsInv
<1>2. ASSUME NEW conn \in Connection, NEW s \in Session, SubscribeKnown(conn, s)
      PROVE  SessionsInv'
  <2>1. StreamsInv'
    BY <1>2, StreamOpened DEF SessionsInv, SubscribeKnown, TypeOK
  <2>2. LabelsAreUnique'
    BY <1>2 DEF SessionsInv, LabelsAreUnique, SubscribeKnown
  <2> QED
    BY <2>1, <2>2 DEF SessionsInv
<1>3. ASSUME NEW conn \in Connection, DetachConnection(conn)
      PROVE  SessionsInv'
  <2>1. StreamsInv'
    BY <1>3, StreamsShrink DEF SessionsInv, DetachConnection, TypeOK
  <2>2. LabelsAreUnique'
    BY <1>3 DEF SessionsInv, LabelsAreUnique, DetachConnection
  <2> QED
    BY <2>1, <2>2 DEF SessionsInv
<1>4. ASSUME NEW s \in Session, NEW n \in Name, RenameLogicalSession(s, n)
      PROVE  SessionsInv'
  <2>1. StreamsInv'
    BY <1>4 DEF SessionsInv, StreamsInv, RenameLogicalSession
  <2>2. LabelsAreUnique'
    BY <1>4 DEF SessionsInv, LabelsAreUnique, RenameLogicalSession, TypeOK
  <2> QED
    BY <2>1, <2>2 DEF SessionsInv
<1>5. ASSUME Shutdown
      PROVE  SessionsInv'
  <2>1. StreamsInv'
    BY <1>5, StreamsShrink DEF SessionsInv, Shutdown
  <2>2. LabelsAreUnique'
    BY <1>5 DEF LabelsAreUnique, Shutdown
  <2> QED
    BY <2>1, <2>2 DEF SessionsInv
<1>6. ASSUME NEW s \in Session, NEW conn \in Connection, NEW id, NEW request,
             ResolveStream(s, conn, id, request)
      PROVE  SessionsInv'
  <2> DEFINE new == [session |-> s, conn |-> conn, id |-> id, request |-> request]
  <2>1. /\ new.conn = conn /\ new.session = s
        /\ inFlight' = inFlight \cup {new} /\ conn \in conns[s] /\ UNCHANGED people
    BY <1>6 DEF ResolveStream
  <2> HIDE DEF new
  <2>2. conn \in issued
    BY <2>1 DEF TypeOK
  <2>3. StreamsInv'
    BY <2>1, <2>2 DEF SessionsInv, StreamsInv, people
  <2>4. LabelsAreUnique'
    BY <2>1 DEF SessionsInv, LabelsAreUnique, people
  <2> QED
    BY <2>3, <2>4 DEF SessionsInv
<1>7. ASSUME UNCHANGED people, inFlight' \subseteq inFlight
      PROVE  SessionsInv'
  BY <1>7 DEF SessionsInv, LabelsAreUnique, StreamsInv, people
<1>8. ASSUME NEW call \in inFlight,
             DispatchDropped(call) \/ DispatchRefused(call) \/ DispatchAccepted(call)
      PROVE  SessionsInv'
  BY <1>7, <1>8 DEF DispatchDropped, DispatchRefused, DispatchAccepted
<1>9. ASSUME Books \/ StartBroadcast \/ EndBroadcast
      PROVE  SessionsInv'
  BY <1>7, <1>9 DEF Books, InstallPlayerConfig, ClearPlayerConfig, AddCharacter,
                    UpdateCharacter, DeleteCharacter, StartBroadcast, EndBroadcast
<1>10. ASSUME NEW s \in Session, NEW ch \in Character, AssignCharacter(s, ch) \/ MoveCharacter(ch, s)
       PROVE  SessionsInv'
  BY <1>7, <1>10 DEF AssignCharacter, MoveCharacter
<1>11. ASSUME NEW s \in Session, ReleaseCharacter(s) \/ SetActiveController(s)
       PROVE  SessionsInv'
  BY <1>7, <1>11 DEF ReleaseCharacter, SetActiveController
<1>12. ASSUME NEW s \in Session, NEW id \in RequestId, NEW ch \in Character,
              SelectCharacter(s, id, ch) \/ RefuseSelection(s, id, ch)
       PROVE  SessionsInv'
  BY <1>7, <1>12 DEF SelectCharacter, RefuseSelection
<1>13. CASE UNCHANGED vars
  BY <1>7, <1>13 DEF vars
<1> QED
  BY <1>1, <1>2, <1>3, <1>4, <1>5, <1>6, <1>8, <1>9, <1>10, <1>11, <1>12, <1>13
     DEF Next, Streams, Books, Overseer, Players

(* No session is taken for another: labels are unique, and an action that was   *)
(* resolved to a stream never runs with another session's authority.            *)
THEOREM SessionsAlwaysStayApart == Spec => []SessionsStayApart
<1>1. TypeOK /\ SessionsInv => SessionsStayApart
  <2> SUFFICES ASSUME TypeOK, SessionsInv, NEW call \in inFlight
               PROVE  LabelsAreUnique /\ SessionOf(call.conn) \in {call.session, None}
    BY DEF SessionsInv, SessionsStayApart, CallsStayWithTheirCaller
  <2>1. CASE SessionOf(call.conn) # None
    BY <2>1, SessionOfType DEF TypeOK, SessionsInv, StreamsInv
  <2> QED
    BY <2>1 DEF SessionsInv
<1> QED
  BY <1>1, TypeCorrect, SessionsInit, SessionsStep, PTL DEF Spec


-----------------------------------------------------------------------------
(* Control. *)

(* Control changes hands only by the Overseer's command: every other step      *)
(* leaves it, takes it away, or gives it to a session while nobody has it.      *)
LEMMA ControlStep ==
  ASSUME [Next]_vars, controller # None, controller' \notin {None, controller}
  PROVE  \E s \in Session : SetActiveController(s)
<1>1. ASSUME UNCHANGED controller \/ controller' = None PROVE FALSE
  BY <1>1
<1>2. ASSUME Streams \/ Books PROVE FALSE
  BY <1>1, <1>2 DEF Streams, Books, SubscribeNew, SubscribeKnown, DetachConnection,
       RenameLogicalSession, InstallPlayerConfig, ClearPlayerConfig, AddCharacter,
       UpdateCharacter, DeleteCharacter, claims
<1>3. ASSUME Players PROVE FALSE
  BY <1>1, <1>3 DEF Players, SelectCharacter, RefuseSelection, ResolveStream, DispatchDropped,
       DispatchRefused, DispatchAccepted, FirstController, claims
<1>4. ASSUME NEW s \in Session, ReleaseCharacter(s) PROVE FALSE
  BY <1>1, <1>4 DEF ReleaseCharacter, ControllerWithout
<1>5. ASSUME NEW s \in Session, NEW ch \in Character, AssignCharacter(s, ch) \/ MoveCharacter(ch, s)
      PROVE  FALSE
  BY <1>1, <1>5 DEF AssignCharacter, MoveCharacter, FirstController, ControllerWithout
<1>6. ASSUME StartBroadcast \/ EndBroadcast \/ Shutdown PROVE FALSE
  BY <1>1, <1>6 DEF StartBroadcast, EndBroadcast, Shutdown, FreshClaims
<1> QED
  BY <1>1, <1>2, <1>3, <1>4, <1>5, <1>6 DEF Next, Overseer, vars, claims

(* No disconnect, release, move or later claim promotes anybody. *)
THEOREM ControlOnlyMovesExplicitly == Spec => ControlMovesOnlyExplicitly
BY ControlStep, PTL DEF Spec, ControlMovesOnlyExplicitly

-----------------------------------------------------------------------------
(* Replays.  A request that has run is still in the cache, unless its       *)
(* broadcast is over: the cache may be emptied between broadcasts because a *)
(* request names the broadcast it is about, and broadcast ids never return. *)

ReplayInv ==
  /\ broadcast <= epochs
  /\ \A l \in applied :
       /\ l[3].broadcast \in 1 .. epochs
       /\ l[3].broadcast = broadcast => cache[l[1]][l[2]] # None
  /\ AtMostOneMutation
  /\ AcceptedAnswersAreCurrent

(* Nothing was asked at first. *)
LEMMA ReplayInit == Init => ReplayInv
BY DEF Init, ReplayInv, AtMostOneMutation, AcceptedAnswersAreCurrent, NoResults

(* What storing an answer does to each record of the cache. *)
LEMMA StoreResultEffect ==
  ASSUME TypeOK, NEW s \in Session, NEW id \in RequestId, NEW record \in Record,
         StoreResult(s, id, record), NEW t \in Session, NEW i \in RequestId
  PROVE  cache'[t][i] = IF t = s /\ i = id THEN record
                        ELSE IF t = s /\ i \in Evicted(s, id) THEN None ELSE cache[t][i]
BY DEF TypeOK, StoreResult

(* An answer without an effect: what has run and is kept stays in the cache. *)
LEMMA RefusalKeepsReplays ==
  ASSUME TypeOK, ReplayInv, NEW s \in Session, NEW id \in RequestId, NEW record \in Record,
         StoreResult(s, id, record), record.reason # "accepted", Refuse(s, id),
         UNCHANGED <<broadcast, epochs>>
  PROVE  ReplayInv'
<1> USE RecordAssumption
<1>1. ASSUME NEW l \in applied'
      PROVE  /\ l[3].broadcast \in 1 .. epochs'
             /\ l[3].broadcast = broadcast' => cache'[l[1]][l[2]] # None
  <2>1. l \in applied /\ ~(l[1] = s /\ l[2] \in Evicted(s, id))
    BY <1>1 DEF Refuse, Retained
  <2>2. l[1] \in Session /\ l[2] \in RequestId
    BY <2>1 DEF TypeOK, Logical
  <2> QED
    BY <2>1, <2>2, StoreResultEffect DEF ReplayInv
<1>2. AcceptedAnswersAreCurrent'
  BY StoreResultEffect DEF ReplayInv, AcceptedAnswersAreCurrent
<1> QED
  BY <1>1, <1>2 DEF ReplayInv, AtMostOneMutation, Refuse

(* A request that runs: it is about the present broadcast and was not in the cache, *)
(* so that it has not run before.                                                   *)
LEMMA MutationIsTheFirst ==
  ASSUME TypeOK, ReplayInv, NEW s \in Session, NEW id \in RequestId, NEW request \in Request,
         cache[s][id] = None, broadcast # 0, request.broadcast = broadcast,
         StoreResult(s, id, [request |-> request, reason |-> "accepted"]),
         Apply(s, id, request), UNCHANGED <<broadcast, epochs>>
  PROVE  ReplayInv'
<1> USE RecordAssumption
<1> DEFINE record == [request |-> request, reason |-> "accepted"]
           run == <<s, id, request>>
<1>1. record \in Record /\ record.request = request
  BY DEF Record, Reason
<1>2. run[1] = s /\ run[2] = id /\ run[3] = request
  OBVIOUS
<1>3. StoreResult(s, id, record)
  OBVIOUS
<1>4. /\ twice' = (twice \/ run \in applied)
      /\ applied' = Retained(s, id) \cup {run}
  BY DEF Apply
<1> HIDE DEF record, run
<1>5. run \notin applied
  BY <1>2 DEF ReplayInv
<1>6. broadcast \in 1 .. epochs
  BY DEF ReplayInv, TypeOK
<1>7. ASSUME NEW l \in applied'
      PROVE  /\ l[3].broadcast \in 1 .. epochs'
             /\ l[3].broadcast = broadcast' => cache'[l[1]][l[2]] # None
  <2>1. CASE l = run
    BY <1>1, <1>2, <1>3, <1>6, <2>1, StoreResultEffect
  <2>2. CASE l # run
    <3>1. l \in applied /\ ~(l[1] = s /\ l[2] \in Evicted(s, id))
      BY <1>4, <1>7, <2>2 DEF Retained
    <3>2. l[1] \in Session /\ l[2] \in RequestId
      BY <3>1 DEF TypeOK, Logical
    <3> QED
      BY <1>1, <1>3, <3>1, <3>2, StoreResultEffect DEF ReplayInv
  <2> QED
    BY <2>1, <2>2
<1>8. AcceptedAnswersAreCurrent'
  BY <1>1, <1>3, StoreResultEffect DEF ReplayInv, AcceptedAnswersAreCurrent
<1> QED
  BY <1>4, <1>5, <1>7, <1>8 DEF ReplayInv, AtMostOneMutation

(* A new broadcast, or none, empties the cache; what has run was about older ones. *)
LEMMA BroadcastOver ==
  ASSUME TypeOK, ReplayInv, cache' = NoResults, UNCHANGED history,
         \/ broadcast' = 0 /\ epochs' = epochs
         \/ broadcast' = epochs + 1 /\ epochs' = epochs + 1
  PROVE  ReplayInv'
<1>1. AcceptedAnswersAreCurrent'
  BY DEF AcceptedAnswersAreCurrent, NoResults
<1>2. ASSUME NEW l \in applied'
      PROVE  l[3].broadcast \in 1 .. epochs' /\ l[3].broadcast # broadcast'
  BY DEF TypeOK, ReplayInv, history
<1>3. broadcast' <= epochs' /\ twice' = twice
  BY DEF TypeOK, history
<1> QED
  BY <1>1, <1>2, <1>3 DEF ReplayInv, AtMostOneMutation

(* Every step keeps it; that an action runs in a broadcast is what claims say. *)
LEMMA ReplayStep == TypeOK /\ ClaimsInv /\ ReplayInv /\ [Next]_vars => ReplayInv'
<1> SUFFICES ASSUME TypeOK, ClaimsInv, ReplayInv, [Next]_vars PROVE ReplayInv'
  OBVIOUS
<1>1. ASSUME UNCHANGED <<broadcast, epochs, cache, history>>
      PROVE  ReplayInv'
  BY <1>1 DEF ReplayInv, AtMostOneMutation, AcceptedAnswersAreCurrent, history
<1>2. ASSUME Streams \/ Books
      PROVE  ReplayInv'
  BY <1>1, <1>2 DEF Streams, Books, SubscribeNew, SubscribeKnown, DetachConnection,
       RenameLogicalSession, InstallPlayerConfig, ClearPlayerConfig, AddCharacter,
       UpdateCharacter, DeleteCharacter, claims
<1>3. ASSUME StartBroadcast \/ EndBroadcast \/ Shutdown
      PROVE  ReplayInv'
  BY <1>3, BroadcastOver DEF StartBroadcast, EndBroadcast, Shutdown
<1>4. ASSUME Overseer
      PROVE  ReplayInv'
  BY <1>1, <1>3, <1>4 DEF Overseer, ReleaseCharacter, SetActiveController, AssignCharacter,
                          MoveCharacter
<1>5. ASSUME NEW s \in Session, NEW id \in RequestId, NEW ch \in Character,
             SelectCharacter(s, id, ch)
      PROVE  ReplayInv'
  <2>1. Selection(broadcast, ch) \in Request /\ Selection(broadcast, ch).broadcast = broadcast
    BY DEF TypeOK, Selection, Request
  <2> QED
    BY <1>5, <2>1, MutationIsTheFirst DEF SelectCharacter, CanEvaluate
<1>6. ASSUME NEW s \in Session, NEW id \in RequestId, NEW ch \in Character,
             RefuseSelection(s, id, ch)
      PROVE  ReplayInv'
  <2>1. [request |-> Selection(broadcast, ch), reason |-> "conflict"] \in Record
    BY DEF TypeOK, Selection, Request, Record, Reason
  <2> QED
    BY <1>6, <2>1, RefusalKeepsReplays DEF RefuseSelection, claims
<1>7. ASSUME NEW s, NEW conn, NEW id, NEW request, ResolveStream(s, conn, id, request)
      PROVE  ReplayInv'
  BY <1>1, <1>7 DEF ResolveStream, claims
<1>8. ASSUME NEW call \in inFlight, DispatchDropped(call)
      PROVE  ReplayInv'
  BY <1>1, <1>8 DEF DispatchDropped, claims
<1>9. ASSUME NEW call \in inFlight, DispatchRefused(call)
      PROVE  ReplayInv'
  <2> DEFINE s == SessionOf(call.conn)
  <2>1. s \in Session /\ call.id \in RequestId /\ call.request \in Request
    BY <1>9, SessionOfType DEF TypeOK, DispatchRefused, Call
  <2>2. Verdict(s, call.request) \in Reason
    BY DEF Verdict, Reason
  <2>3. PICK verdict \in Reason \ {"accepted"} :
          StoreResult(s, call.id, [request |-> call.request, reason |-> verdict])
    BY <1>9, <2>2 DEF DispatchRefused, Reason
  <2>4. [request |-> call.request, reason |-> verdict] \in Record
    BY <2>1 DEF Record
  <2>5. Refuse(s, call.id) /\ UNCHANGED <<broadcast, epochs>>
    BY <1>9 DEF DispatchRefused, claims
  <2> HIDE DEF s
  <2> QED
    BY <2>1, <2>3, <2>4, <2>5, RefusalKeepsReplays
<1>10. ASSUME NEW call \in inFlight, DispatchAccepted(call)
       PROVE  ReplayInv'
  <2> DEFINE s == SessionOf(call.conn)
  <2>1. s \in Session /\ call.id \in RequestId /\ call.request \in Request /\ s \in known
    BY <1>10, SessionOfType DEF TypeOK, DispatchAccepted, Call
  <2>2. broadcast = call.request.broadcast /\ assign[s] # None
    BY <1>10 DEF DispatchAccepted, Verdict
  <2>3. broadcast # 0
    BY <2>1, <2>2 DEF ClaimsInv, ClaimsBelongToBroadcast
  <2>4. cache[s][call.id] = None
    BY <1>10, <2>1 DEF DispatchAccepted, Answered, CanEvaluate
  <2>5. /\ StoreResult(s, call.id, [request |-> call.request, reason |-> "accepted"])
        /\ Apply(s, call.id, call.request) /\ UNCHANGED <<broadcast, epochs>>
    BY <1>10 DEF DispatchAccepted, claims
  <2> HIDE DEF s
  <2> QED
    BY <2>1, <2>2, <2>3, <2>4, <2>5, MutationIsTheFirst
<1>11. CASE UNCHANGED vars
  BY <1>1, <1>11 DEF vars, claims
<1> QED
  BY <1>2, <1>3, <1>4, <1>5, <1>6, <1>7, <1>8, <1>9, <1>10, <1>11 DEF Next, Players

(* A request runs once however often it is repeated, and an answer that can be  *)
(* replayed is about the broadcast that is running.                             *)
THEOREM RequestsAlwaysRunOnce == Spec => []RequestsRunOnce
<1>1. ReplayInv => RequestsRunOnce
  BY DEF ReplayInv, RequestsRunOnce
<1> QED
  BY <1>1, TypeCorrect, ClaimsAlways, ReplayInit, ReplayStep, PTL DEF Spec

(* No step replaces a record by another. *)
LEMMA AnswerStep ==
  ASSUME TypeOK, [Next]_vars, NEW t \in Session, NEW i \in RequestId, cache[t][i] # None
  PROVE  cache'[t][i] \in {cache[t][i], None}
<1>1. ASSUME NEW s \in Session, NEW id \in RequestId, NEW record \in Record,
             cache[s][id] = None, StoreResult(s, id, record)
      PROVE  cache'[t][i] \in {cache[t][i], None}
  BY <1>1, StoreResultEffect
<1>2. ASSUME cache' = NoResults \/ cache' = cache
      PROVE  cache'[t][i] \in {cache[t][i], None}
  BY <1>2 DEF NoResults
<1>3. ASSUME Streams \/ Books \/ Overseer
      PROVE  cache' = NoResults \/ cache' = cache
  BY <1>3 DEF Streams, Books, Overseer, SubscribeNew, SubscribeKnown, DetachConnection,
       RenameLogicalSession, InstallPlayerConfig, ClearPlayerConfig, AddCharacter,
       UpdateCharacter, DeleteCharacter, StartBroadcast, EndBroadcast, Shutdown,
       ReleaseCharacter, SetActiveController, AssignCharacter, MoveCharacter
<1>4. ASSUME NEW s \in Session, NEW id \in RequestId, NEW ch \in Character,
             SelectCharacter(s, id, ch) \/ RefuseSelection(s, id, ch)
      PROVE  cache'[t][i] \in {cache[t][i], None}
  <2>1. Selection(broadcast, ch) \in Request
    BY DEF TypeOK, Selection, Request
  <2>2. \A reason \in Reason : [request |-> Selection(broadcast, ch), reason |-> reason] \in Record
    BY <2>1 DEF Record
  <2>3. \E reason \in Reason :
          StoreResult(s, id, [request |-> Selection(broadcast, ch), reason |-> reason])
    BY <1>4 DEF SelectCharacter, RefuseSelection, Reason
  <2>4. cache[s][id] = None
    BY <1>4 DEF SelectCharacter, RefuseSelection, CanEvaluate
  <2> QED
    BY <1>1, <2>2, <2>3, <2>4
<1>5. ASSUME NEW call \in inFlight, DispatchRefused(call) \/ DispatchAccepted(call)
      PROVE  cache'[t][i] \in {cache[t][i], None}
  <2> DEFINE s == SessionOf(call.conn)
  <2>1. s \in Session /\ call.id \in RequestId /\ call.request \in Request /\ s \in known
    BY <1>5, SessionOfType DEF TypeOK, DispatchAccepted, DispatchRefused, Call
  <2>2. \A reason \in Reason : [request |-> call.request, reason |-> reason] \in Record
    BY <2>1 DEF Record
  <2>3. Verdict(s, call.request) \in Reason /\ "accepted" \in Reason /\ "terminal" \in Reason
    BY DEF Verdict, Reason
  <2>4. \E reason \in Reason :
          StoreResult(s, call.id, [request |-> call.request, reason |-> reason])
    BY <1>5, <2>3 DEF DispatchAccepted, DispatchRefused
  <2>5. cache[s][call.id] = None
    BY <1>5, <2>1 DEF DispatchAccepted, DispatchRefused, Answered, CanEvaluate
  <2> HIDE DEF s
  <2> QED
    BY <1>1, <2>1, <2>2, <2>4, <2>5
<1>6. ASSUME NEW call \in inFlight, DispatchDropped(call)
      PROVE  cache' = cache
  BY <1>6 DEF DispatchDropped
<1>7. ASSUME NEW s, NEW conn, NEW id, NEW request, ResolveStream(s, conn, id, request)
      PROVE  cache' = cache
  BY <1>7 DEF ResolveStream
<1>8. CASE UNCHANGED vars
  BY <1>8 DEF vars
<1> QED
  BY <1>2, <1>3, <1>4, <1>5, <1>6, <1>7, <1>8 DEF Next, Players

(* A repeated request is told what its only run was told, as long as that is kept. *)
THEOREM ReplaysAlwaysFaithful == Spec => ReplaysAreFaithful
<1>1. TypeOK /\ [Next]_vars
        => [\A s \in Session, id \in RequestId :
              cache[s][id] # None => cache'[s][id] \in {cache[s][id], None}]_vars
  BY AnswerStep
<1> QED
  BY <1>1, TypeCorrect, RequestsAlwaysRunOnce, PTL DEF Spec, ReplaysAreFaithful, AnswersAreStable

-----------------------------------------------------------------------------
(* The types of the messages, the records and the variables.                 *)

MessageKind == {"none", "snapshot", "update", "ready", "action"}
Message == [kind : MessageKind, revision : Nat, cursor : Presentation \cup {Nothing},
            generation : Nat, request : Nat, ok : BOOLEAN]
Sendable == {m \in Message : m.kind # "none" /\ (m.kind = "ready" => m.generation # 0)}
QueuedUpdate == {m \in Message : m.kind = "update"}
Answer == {m \in Message : /\ m.kind \in {"ready", "action"}
                           /\ m.kind = "ready" => m.generation # 0}

HandlerState == {"none", "serving", "detaching", "ended"}
ReceiverState == {"none", "open", "ready", "receiving", "finishing", "ended"}
WorkerState == {"none", "take", "check", "dispatch", "publish", "ended"}
Sent == [request : Nat, value : Presentation]

HubType == [ids : SUBSET Stream, tab : {0} \cup Stream, uplink : {0} \cup Generation]
Subscription == [last : Nat, updates : Seq(QueuedUpdate), targeted : Answer \cup {NoUpdate},
                 done : BOOLEAN, handler : HandlerState]
PresentationUplink ==
  [stream : {0} \cup Stream, closed : BOOLEAN, finished : BOOLEAN, box : Sent \cup {NoIntent},
   receiver : ReceiverState, worker : WorkerState, intent : Sent \cup {NoIntent},
   result : Answer \cup {NoUpdate}]
Pending == [request : Nat, value : Presentation \cup {Nothing}, accepted : Nat \cup {Nothing},
            transport : {"none", "stream", "unary"}]
Page == [at : {"waiting", "subscribing", "live"}, stream : {0} \cup Stream, shown : Message,
         uplink : {0} \cup Generation, ready : BOOLEAN, pending : Pending,
         desired : Presentation \cup {Nothing}, requests : Nat, generations : {0} \cup Generation]
UnaryCall == [request : Nat, value : Presentation, answer : Message]

(* Every variable has its type. *)
StreamTypeOK ==
  /\ committed \in Nat /\ cursor \in Presentation /\ changes \in Nat
  /\ attached \subseteq Stream
  /\ hub \in HubType
  /\ sub \in [Stream -> Subscription]
  /\ lease \in [Generation -> PresentationUplink]
  /\ down \in [Stream -> Seq(Sendable)] /\ cut \subseteq Stream
  /\ up \in [Generation -> Seq(Sent)] /\ lost \subseteq Generation
  /\ page \in Page
  /\ calls \subseteq UnaryCall

-----------------------------------------------------------------------------
(* The inductive invariant.                                                  *)

(* An uplink whose goroutines run is bound to a stream, and what they hold    *)
(* belongs to their state; a generation the page has not started has none.    *)
UplinkIsSound(g) ==
  /\ lease[g].closed => lease[g].box = NoIntent
  /\ lease[g].receiver \in {"ready", "receiving", "finishing"} => lease[g].stream # 0
  /\ lease[g].worker \notin {"none", "ended"} => lease[g].stream # 0
  /\ lease[g].worker \in {"check", "dispatch", "publish"} => lease[g].intent \in Sent
  /\ lease[g].worker = "publish" => lease[g].result \in Answer
  /\ g > page.generations => lease[g].receiver = "none"

PageIsSound ==
  /\ page.at # "waiting" => page.stream # 0
  /\ page.ready => page.uplink # 0

(* What is on its way on a stream gets newer, up to what was last offered.    *)
DownOrdered(s) ==
  \A i \in 1 .. Len(down[s]) : Shows(down[s][i]) =>
    /\ down[s][i].revision <= sub[s].last
    /\ \A j \in 1 .. Len(down[s]) :
         j > i /\ Shows(down[s][j]) => down[s][i].revision < down[s][j].revision
    /\ \A j \in 1 .. Len(sub[s].updates) : down[s][i].revision < sub[s].updates[j].revision
QueueOrdered(s) ==
  \A i \in 1 .. Len(sub[s].updates) :
    /\ sub[s].updates[i].revision <= sub[s].last
    /\ \A j \in 1 .. Len(sub[s].updates) :
         j > i => sub[s].updates[i].revision < sub[s].updates[j].revision
ShownIsOlder(s) ==
  page.at = "live" /\ page.stream = s =>
    /\ page.shown.revision <= sub[s].last
    /\ \A i \in 1 .. Len(down[s]) :
         Shows(down[s][i]) => page.shown.revision < down[s][i].revision
    /\ \A i \in 1 .. Len(sub[s].updates) : page.shown.revision < sub[s].updates[i].revision

(* The current state is on its way to the page, or is shown. *)
Current(m) == m.revision = committed /\ m.cursor = cursor
Carries(s) ==
  \/ \E i \in 1 .. Len(down[s]) : Shows(down[s][i]) /\ Current(down[s][i])
  \/ \E i \in 1 .. Len(sub[s].updates) : Current(sub[s].updates[i])
  \/ page.at = "live" /\ Current(page.shown)

StreamIsSound(s) ==
  /\ sub[s].last <= committed
  /\ s \in hub.ids => sub[s].last = committed
  /\ sub[s].handler = "none" => sub[s].updates = <<>> /\ down[s] = <<>>
  /\ page.stream < s => sub[s].handler = "none"
  /\ page.at = "subscribing" /\ page.stream = s /\ sub[s].handler # "none" /\ s \notin cut =>
       down[s] # <<>> /\ Shows(down[s][1])
  /\ DownOrdered(s) /\ QueueOrdered(s) /\ ShownIsOlder(s)
  /\ s \in hub.ids /\ s \notin cut /\ s = page.stream => Carries(s)

RegistrationsInv ==
  /\ StreamTypeOK
  /\ StreamIsServed /\ UplinkIsBound
  /\ \A g \in Generation : UplinkIsSound(g)
  /\ PageIsSound

UpdatesInv == \A s \in Stream : StreamIsSound(s)

PageInv == RegistrationsInv /\ UpdatesInv

-----------------------------------------------------------------------------
(* Messages and their types.                                                 *)

LEMMA BoundsAreNaturals ==
  /\ MaxStream \in Nat /\ MaxGeneration \in Nat /\ MaxConnection \in Nat
  /\ MaxChange \in Nat /\ MaxRequest \in Nat
  /\ QueueSize \in Nat \ {0} /\ Window \in Nat \ {0}
BY BoundsAssumption

(* The empty message has its type. *)
LEMMA NoUpdateType == NoUpdate \in Message /\ NoUpdate.kind = "none" /\ NoUpdate.request = 0
BY DEF NoUpdate, Message, MessageKind

(* An update carries the revision and the cursor it is made of. *)
LEMMA UpdateType ==
  ASSUME NEW kind \in {"snapshot", "update"}, NEW r \in Nat, NEW c \in Presentation
  PROVE  /\ Update(kind, r, c) \in Message
         /\ Update(kind, r, c).kind = kind
         /\ Update(kind, r, c).revision = r /\ Update(kind, r, c).cursor = c
BY DEF Update, NoUpdate, Message, MessageKind

(* An answer of the uplink, or of a call, is no update. *)
LEMMA ResultType ==
  ASSUME NEW g \in Nat, NEW request \in Nat, NEW ok \in BOOLEAN, NEW r \in Nat
  PROVE  /\ Result(g, request, ok, r) \in Answer
         /\ Result(g, request, ok, r) \in Message
         /\ Result(g, request, ok, r).request = request
BY DEF Result, NoUpdate, Message, MessageKind, Answer

LEMMA ReadyType ==
  ASSUME NEW g \in Nat \ {0}
  PROVE  Ready(g) \in Answer
BY DEF Ready, NoUpdate, Message, MessageKind, Answer

-----------------------------------------------------------------------------
(* The hub: what it removes, registers and publishes.                        *)

(* Removing streams keeps the hub well typed, and its uplink only with the    *)
(* stream of the page.                                                        *)
LEMMA RemoveLockedType ==
  ASSUME NEW h \in HubType, NEW streams \in SUBSET Stream
  PROVE  /\ RemoveLocked(h, streams) \in HubType
         /\ RemoveLocked(h, streams).ids = h.ids \ streams
         /\ h.ids = {h.tab} \ {0} =>
              RemoveLocked(h, streams).ids = {RemoveLocked(h, streams).tab} \ {0}
         /\ RemoveLocked(h, streams).tab \in {0, h.tab}
         /\ RemoveLocked(h, streams).uplink # 0 =>
              RemoveLocked(h, streams).uplink = h.uplink /\ RemoveLocked(h, streams).tab = h.tab
BY DEF RemoveLocked, HubType, Stream

(* Registering a stream leaves the page no other one, and no uplink. *)
LEMMA RegisterType ==
  ASSUME NEW h \in HubType, NEW s \in Stream, h.ids = {h.tab} \ {0}, h.uplink # 0 => h.tab # 0
  PROVE  /\ Register(h, s) \in HubType
         /\ Register(h, s).ids = {s} /\ Register(h, s).tab = s /\ Register(h, s).uplink = 0
<1> DEFINE rest == RemoveLocked(h, Replaced(h))
<1>0. BoundsAssumption
  BY BoundsAssumption
<1>1. Replaced(h) \subseteq Stream
  BY DEF Replaced, HubType
<1>2. rest \in HubType /\ rest.ids = {} /\ rest.uplink = 0
  BY <1>0, <1>1 DEF RemoveLocked, Replaced, HubType, Generation
<1> HIDE DEF rest
<1>3. Register(h, s) = [rest EXCEPT !.ids = {s}, !.tab = s]
  <2>1. Register(h, s) = [rest EXCEPT !.ids = @ \cup {s}, !.tab = s]
    BY DEF Register, rest
  <2>2. rest.ids \cup {s} = {s}
    BY <1>2
  <2> QED
    BY <2>1, <2>2
<1>4. DOMAIN rest = {"ids", "tab", "uplink"}
  BY <1>2 DEF HubType
<1>5. rest = [ids |-> rest.ids, tab |-> rest.tab, uplink |-> rest.uplink]
  BY <1>2 DEF HubType
<1>6. Register(h, s) = [ids |-> {s}, tab |-> s, uplink |-> rest.uplink]
  BY <1>3, <1>5
<1> QED
  BY <1>2, <1>6 DEF HubType

(* What a commit leaves of the hub and of each stream. *)
LEMMA PublishTypes ==
  ASSUME NEW h \in HubType, NEW subs \in [Stream -> Subscription], NEW r \in Nat,
         NEW c \in Presentation, Publish(h, subs, r, c)
  PROVE  /\ committed' = r /\ cursor' = c
         /\ hub' \in HubType /\ hub'.ids \subseteq h.ids
         /\ h.ids = {h.tab} \ {0} => hub'.ids = {hub'.tab} \ {0}
         /\ hub'.uplink # 0 => hub'.uplink = h.uplink /\ hub'.tab = h.tab
         /\ sub' \in [Stream -> Subscription]
         /\ \A s \in Stream : sub'[s].handler = subs[s].handler
<1> DEFINE refusing == {s \in h.ids : Refuses(subs, s, r)}
           u == Update("update", r, c)
           offered(s) == [subs[s] EXCEPT !.updates = Append(@, u), !.last = r]
           closed(s) == [subs[s] EXCEPT !.done = TRUE]
<1>1. refusing \in SUBSET Stream
  BY DEF HubType
<1>2. /\ committed' = r /\ cursor' = c /\ hub' = RemoveLocked(h, refusing)
      /\ sub' = [s \in Stream |-> IF s \in refusing THEN closed(s)
                                  ELSE IF s \in h.ids /\ Wants(subs, s, r) THEN offered(s)
                                  ELSE subs[s]]
  BY Zenon DEF Publish
<1>3. u \in QueuedUpdate
  BY UpdateType DEF QueuedUpdate
<1>4. /\ hub' \in HubType /\ hub'.ids \subseteq h.ids
      /\ h.ids = {h.tab} \ {0} => hub'.ids = {hub'.tab} \ {0}
      /\ hub'.uplink # 0 => hub'.uplink = h.uplink /\ hub'.tab = h.tab
  <2> HIDE DEF refusing
  <2> DEFINE left == RemoveLocked(h, refusing)
  <2>1. /\ left \in HubType /\ left.ids = h.ids \ refusing
        /\ h.ids = {h.tab} \ {0} => left.ids = {left.tab} \ {0}
        /\ left.uplink # 0 => left.uplink = h.uplink /\ left.tab = h.tab
    BY <1>1, RemoveLockedType
  <2>2. hub' = left
    BY <1>2
  <2> HIDE DEF left
  <2> QED
    BY <2>1, <2>2
<1>5. ASSUME NEW s \in Stream
      PROVE  /\ closed(s) \in Subscription /\ closed(s).handler = subs[s].handler
             /\ offered(s) \in Subscription /\ offered(s).handler = subs[s].handler
  <2> DEFINE old == subs[s]
             queue == Append(old.updates, u)
  <2>1. old \in Subscription
    OBVIOUS
  <2>2. queue \in Seq(QueuedUpdate)
    BY <1>3, <2>1 DEF Subscription
  <2>3. closed(s) = [old EXCEPT !.done = TRUE] /\ offered(s) = [old EXCEPT !.updates = queue, !.last = r]
    OBVIOUS
  <2> HIDE DEF old, queue, closed, offered
  <2>4. closed(s) \in Subscription /\ closed(s).handler = old.handler
    BY <2>1, <2>3 DEF Subscription
  <2>5. offered(s) \in Subscription /\ offered(s).handler = old.handler
    BY <2>1, <2>2, <2>3 DEF Subscription
  <2> QED
    BY <2>4, <2>5 DEF old
<1> HIDE DEF refusing, closed, offered
<1>6. sub' \in [Stream -> Subscription] /\ \A s \in Stream : sub'[s].handler = subs[s].handler
  BY <1>2, <1>5
<1> QED
  BY <1>2, <1>4, <1>6

(* What a commit leaves of each queue: a registered stream that is not behind *)
(* and has room takes the update, and what is still registered is current.    *)
LEMMA PublishQueues ==
  ASSUME NEW h \in HubType, NEW subs \in [Stream -> Subscription], NEW r \in Nat,
         NEW c \in Presentation, Publish(h, subs, r, c), NEW s \in Stream,
         subs[s].last <= r
  PROVE  \/ /\ s \in h.ids /\ subs[s].last < r
            /\ sub'[s].updates = Append(subs[s].updates, Update("update", r, c))
            /\ sub'[s].last = r
         \/ /\ sub'[s].updates = subs[s].updates /\ sub'[s].last = subs[s].last
            /\ s \in hub'.ids => s \in h.ids /\ subs[s].last = r
<1> DEFINE refusing == {x \in h.ids : Refuses(subs, x, r)}
           u == Update("update", r, c)
           old == subs[s]
<1>1. /\ hub' = RemoveLocked(h, refusing)
      /\ sub'[s] = IF s \in refusing THEN [old EXCEPT !.done = TRUE]
                   ELSE IF s \in h.ids /\ Wants(subs, s, r)
                   THEN [old EXCEPT !.updates = Append(@, u), !.last = r]
                   ELSE old
  BY Zenon DEF Publish
<1>2. hub'.ids = h.ids \ refusing
  BY <1>1 DEF RemoveLocked
<1>3. old \in Subscription
  OBVIOUS
<1>4. CASE s \in refusing
  BY <1>1, <1>2, <1>3, <1>4 DEF Subscription
<1>5. CASE s \notin refusing /\ s \in h.ids /\ Wants(subs, s, r)
  <2>1. sub'[s] = [old EXCEPT !.updates = Append(@, u), !.last = r]
    BY <1>1, <1>5
  <2>2. subs[s].last < r
    BY <1>3, <1>5 DEF Wants, Subscription
  <2> HIDE DEF u
  <2>3. sub'[s].updates = Append(old.updates, u) /\ sub'[s].last = r
    BY <1>3, <2>1 DEF Subscription
  <2> QED
    BY <1>5, <2>2, <2>3 DEF u
<1>6. CASE s \notin refusing /\ ~(s \in h.ids /\ Wants(subs, s, r))
  <2>1. sub'[s] = old
    BY <1>1, <1>6
  <2>2. s \in h.ids => subs[s].last = r
    BY <1>3, <1>6 DEF Wants, Subscription
  <2> QED
    BY <1>2, <2>1, <2>2
<1> QED
  BY <1>4, <1>5, <1>6

(* Letting go of the current uplink keeps the leases well typed and touches    *)
(* the mailbox and the context only.                                          *)
LEMMA LetGoType ==
  ASSUME NEW leases \in [Generation -> PresentationUplink]
  PROVE  /\ LetGo(leases) \in [Generation -> PresentationUplink]
         /\ \A g \in Generation :
              LET l == LetGo(leases)[g] IN
                /\ l.stream = leases[g].stream /\ l.finished = leases[g].finished
                /\ l.receiver = leases[g].receiver /\ l.worker = leases[g].worker
                /\ l.intent = leases[g].intent /\ l.result = leases[g].result
                /\ \/ l.closed = leases[g].closed /\ l.box = leases[g].box
                   \/ l.closed = TRUE /\ l.box = NoIntent
<1> DEFINE new == LetGo(leases)
<1>1. \A g \in Generation : new[g] = IF g = hub.uplink /\ hub'.uplink # g THEN Closed(leases[g]) ELSE leases[g]
  BY DEF LetGo
<1>2. ASSUME NEW l \in PresentationUplink
      PROVE  /\ Closed(l) \in PresentationUplink
             /\ Closed(l).stream = l.stream /\ Closed(l).finished = l.finished
             /\ Closed(l).receiver = l.receiver /\ Closed(l).worker = l.worker
             /\ Closed(l).intent = l.intent /\ Closed(l).result = l.result
             /\ Closed(l).closed = TRUE /\ Closed(l).box = NoIntent
  BY DEF Closed, PresentationUplink
<1>3. new \in [Generation -> PresentationUplink]
  BY <1>2 DEF LetGo
<1> HIDE DEF new
<1>4. ASSUME NEW g \in Generation
      PROVE  /\ new[g].stream = leases[g].stream /\ new[g].finished = leases[g].finished
             /\ new[g].receiver = leases[g].receiver /\ new[g].worker = leases[g].worker
             /\ new[g].intent = leases[g].intent /\ new[g].result = leases[g].result
             /\ \/ new[g].closed = leases[g].closed /\ new[g].box = leases[g].box
                \/ new[g].closed = TRUE /\ new[g].box = NoIntent
  <2>1. CASE g = hub.uplink /\ hub'.uplink # g
    <3>1. new[g] = Closed(leases[g])
      BY <1>1, <2>1
    <3>2. leases[g] \in PresentationUplink
      OBVIOUS
    <3> QED
      BY <1>2, <3>1, <3>2, Zenon
  <2>2. CASE ~(g = hub.uplink /\ hub'.uplink # g)
    BY <1>1, <2>2
  <2> QED
    BY <2>1, <2>2
<1> QED
  BY <1>3, <1>4 DEF new

-----------------------------------------------------------------------------
(* The page: what a request, an answer and an update leave of it.            *)

(* The page keeps its place, what it shows and its uplink; the rest is typed. *)
KeepsPlace(p) ==
  /\ page' \in Page
  /\ page'.at = p.at /\ page'.stream = p.stream /\ page'.shown = p.shown
  /\ page'.uplink = p.uplink /\ page'.ready = p.ready /\ page'.generations = p.generations
  /\ up' \in [Generation -> Seq(Sent)] /\ calls' \subseteq UnaryCall

LEMMA NoPendingType == NoPending \in Pending
BY DEF NoPending, Pending

LEMMA SendKeepsPlace ==
  ASSUME up \in [Generation -> Seq(Sent)], NEW p \in Page, NEW value \in Presentation \cup {Nothing},
         NEW others \in SUBSET UnaryCall, Send(p, value, others)
  PROVE  KeepsPlace(p)
<1> DEFINE id == p.requests + 1
           sent == [request |-> id, value |-> value]
           wait == [request |-> id, value |-> value, accepted |-> Nothing,
                    transport |-> IF p.ready THEN "stream" ELSE "unary"]
           call == [request |-> id, value |-> value, answer |-> NoUpdate]
<1>0. BoundsAssumption
  BY BoundsAssumption
<1>1. CASE value \in {Nothing, p.shown.cursor}
  BY <1>1 DEF Send, KeepsPlace
<1>2. CASE value \notin {Nothing, p.shown.cursor}
  <2>1. /\ page' = [p EXCEPT !.requests = id, !.pending = wait]
        /\ IF p.ready THEN up' = [up EXCEPT ![p.uplink] = Append(@, sent)] /\ calls' = others
           ELSE calls' = others \cup {call} /\ UNCHANGED up
    BY <1>2, Zenon DEF Send
  <2>2. id \in Nat
    BY DEF Page
  <2>3. sent \in Sent /\ call \in UnaryCall
    BY <1>2, <2>2, NoUpdateType DEF Sent, UnaryCall
  <2>4. wait \in Pending
    BY <2>2 DEF Pending
  <2> HIDE DEF id, sent, wait, call
  <2>5. /\ page' \in Page
        /\ page'.at = p.at /\ page'.stream = p.stream /\ page'.shown = p.shown
        /\ page'.uplink = p.uplink /\ page'.ready = p.ready /\ page'.generations = p.generations
    BY <2>1, <2>2, <2>4, ZenonT(20) DEF Page
  <2>6. calls' \subseteq UnaryCall
    BY <2>1, <2>3
  <2>7. ASSUME NEW g \in Generation
        PROVE  Append(up[g], sent) \in Seq(Sent)
    BY <2>3
  <2>8. up' \in [Generation -> Seq(Sent)]
    BY <2>1, <2>7
  <2> QED
    BY <2>5, <2>6, <2>8 DEF KeepsPlace
<1> QED
  BY <1>1, <1>2

LEMMA SendDesiredKeepsPlace ==
  ASSUME up \in [Generation -> Seq(Sent)], NEW p \in Page, NEW others \in SUBSET UnaryCall,
         SendDesired(p, others)
  PROVE  KeepsPlace(p)
<1> DEFINE q == [p EXCEPT !.pending = NoPending, !.desired = Nothing]
<1>1. /\ q \in Page
      /\ q.at = p.at /\ q.stream = p.stream /\ q.shown = p.shown
      /\ q.uplink = p.uplink /\ q.ready = p.ready /\ q.generations = p.generations
  BY NoPendingType, ZenonT(20) DEF Page
<1>2. Send(q, p.desired, others)
  BY Zenon DEF SendDesired
<1>3. p.desired \in Presentation \cup {Nothing}
  BY DEF Page
<1> HIDE DEF q
<1>4. KeepsPlace(q)
  BY <1>1, <1>2, <1>3, SendKeepsPlace
<1> QED
  BY <1>1, <1>4 DEF KeepsPlace

LEMMA ApplyResultKeepsPlace ==
  ASSUME up \in [Generation -> Seq(Sent)], NEW p \in Page, NEW m \in Message,
         NEW others \in SUBSET UnaryCall, ApplyResult(p, m, others)
  PROVE  KeepsPlace(p)
<1>1. CASE p.pending.request # m.request
  BY <1>1 DEF ApplyResult, KeepsPlace
<1>2. CASE p.pending.request = m.request /\ (~m.ok \/ p.shown.revision >= m.revision)
  <2>1. SendDesired(p, others)
    BY <1>2, Zenon DEF ApplyResult
  <2> QED
    BY <2>1, SendDesiredKeepsPlace
<1>3. CASE p.pending.request = m.request /\ ~(~m.ok \/ p.shown.revision >= m.revision)
  <2> DEFINE wait == [p.pending EXCEPT !.accepted = m.revision]
  <2>1. page' = [p EXCEPT !.pending.accepted = m.revision] /\ calls' = others /\ UNCHANGED up
    BY <1>3 DEF ApplyResult
  <2>2. page' = [p EXCEPT !.pending = wait]
    BY <2>1
  <2>3. wait \in Pending
    BY DEF Page, Pending, Message
  <2> HIDE DEF wait
  <2>4. /\ page' \in Page
        /\ page'.at = p.at /\ page'.stream = p.stream /\ page'.shown = p.shown
        /\ page'.uplink = p.uplink /\ page'.ready = p.ready /\ page'.generations = p.generations
    BY <2>2, <2>3, ZenonT(20) DEF Page
  <2> QED
    BY <2>1, <2>4 DEF KeepsPlace
<1> QED
  BY <1>1, <1>2, <1>3

(* An update is shown unless it is older than what is shown. *)
LEMMA ApplyUpdateShows ==
  ASSUME up \in [Generation -> Seq(Sent)], NEW p \in Page, NEW m \in Message,
         calls \subseteq UnaryCall, ApplyUpdate(p, m)
  PROVE  /\ page' \in Page
         /\ page'.at = p.at /\ page'.stream = p.stream
         /\ page'.shown = IF m.revision >= p.shown.revision THEN m ELSE p.shown
         /\ page'.uplink = p.uplink /\ page'.ready = p.ready /\ page'.generations = p.generations
         /\ up' \in [Generation -> Seq(Sent)] /\ calls' \subseteq UnaryCall
<1> DEFINE q == IF m.revision >= p.shown.revision THEN [p EXCEPT !.shown = m] ELSE p
<1>1. /\ q \in Page
      /\ q.at = p.at /\ q.stream = p.stream
      /\ q.shown = IF m.revision >= p.shown.revision THEN m ELSE p.shown
      /\ q.uplink = p.uplink /\ q.ready = p.ready /\ q.generations = p.generations
  BY DEF Page
<1>2. IF q.pending.accepted # Nothing /\ q.shown.revision >= q.pending.accepted
      THEN SendDesired(q, calls)
      ELSE page' = q /\ UNCHANGED <<calls, up>>
  BY Zenon DEF ApplyUpdate
<1> HIDE DEF q
<1>3. KeepsPlace(q)
  <2>1. CASE SendDesired(q, calls)
    BY <1>1, <2>1, SendDesiredKeepsPlace
  <2>2. CASE page' = q /\ UNCHANGED <<calls, up>>
    BY <1>1, <2>2 DEF KeepsPlace
  <2> QED
    BY <1>2, <2>1, <2>2
<1> QED
  BY <1>1, <1>3 DEF KeepsPlace

(* Starting an uplink opens the next generation, or leaves the page as it is. *)
LEMMA StartUplinkTypes ==
  ASSUME lease \in [Generation -> PresentationUplink], changes \in Nat, NEW p \in Page,
         StartUplink(p)
  PROVE  /\ page' \in Page /\ lease' \in [Generation -> PresentationUplink]
         /\ page'.at = p.at /\ page'.stream = p.stream /\ page'.shown = p.shown
         /\ \/ page' = p /\ lease' = lease
            \/ /\ page'.generations = p.generations + 1 /\ page'.generations \in Generation
               /\ page'.uplink = page'.generations /\ page'.ready = FALSE
               /\ \A g \in Generation : g # page'.generations => lease'[g] = lease[g]
               /\ LET l == lease'[page'.generations]
                      old == lease[page'.generations] IN
                    /\ l.receiver = "open" /\ l.stream = old.stream /\ l.closed = old.closed
                    /\ l.box = old.box /\ l.worker = old.worker /\ l.intent = old.intent
                    /\ l.result = old.result
<1> DEFINE n == p.generations + 1
           old == lease[n]
<1>0. BoundsAssumption
  BY BoundsAssumption
<1>1. CASE LastGeneration(p)
  BY <1>1 DEF StartUplink
<1>2. CASE ~LastGeneration(p)
  <2>1. n \in Generation
    BY <1>0, <1>2 DEF LastGeneration, Generation, Page
  <2>2. /\ page' = [p EXCEPT !.generations = n, !.uplink = n, !.ready = FALSE]
        /\ lease' = [lease EXCEPT ![n].receiver = "open"]
    BY <1>2, Zenon DEF StartUplink
  <2>3. old \in PresentationUplink
    BY <2>1
  <2>4. lease' = [lease EXCEPT ![n] = [old EXCEPT !.receiver = "open"]]
    BY <2>1, <2>2
  <2>5. p.generations + 1 = n
    OBVIOUS
  <2> HIDE DEF n, old
  <2>6. /\ [old EXCEPT !.receiver = "open"] \in PresentationUplink
        /\ LET l == [old EXCEPT !.receiver = "open"] IN
             /\ l.receiver = "open" /\ l.stream = old.stream /\ l.closed = old.closed
             /\ l.box = old.box /\ l.worker = old.worker /\ l.intent = old.intent
             /\ l.result = old.result
    BY <2>3 DEF PresentationUplink, ReceiverState
  <2>7. /\ lease' \in [Generation -> PresentationUplink]
        /\ lease'[n] = [old EXCEPT !.receiver = "open"]
        /\ \A g \in Generation : g # n => lease'[g] = lease[g]
    BY <2>1, <2>4, <2>6
  <2>8. /\ page' \in Page
        /\ page'.at = p.at /\ page'.stream = p.stream /\ page'.shown = p.shown
        /\ page'.generations = n /\ page'.uplink = n /\ page'.ready = FALSE
    BY <2>1, <2>2, ZenonT(20) DEF Page
  <2>9. old = lease[n]
    BY DEF old
  <2> QED
    BY <2>1, <2>5, <2>6, <2>7, <2>8, <2>9
<1> QED
  BY <1>1, <1>2

-----------------------------------------------------------------------------
(* The uplink: its receiver, its mailbox and its worker.                     *)

(* What the steps of an uplink leave alone, and what they keep true. *)
UplinkStep ==
  /\ UNCHANGED <<committed, cursor, changes, attached, down, cut, page>> /\ calls' \subseteq UnaryCall
  /\ hub' \in HubType /\ hub'.ids = hub.ids /\ hub'.tab = hub.tab
  /\ sub' \in [Stream -> Subscription]
  /\ \A s \in Stream : /\ sub'[s].last = sub[s].last /\ sub'[s].updates = sub[s].updates
                       /\ sub'[s].handler = sub[s].handler
  /\ lease' \in [Generation -> PresentationUplink]
  /\ up' \in [Generation -> Seq(Sent)] /\ lost' \subseteq Generation
  /\ UplinkIsBound' /\ \A g \in Generation : UplinkIsSound(g)'

(* One lease changes, and no more than the hub's uplink with it. *)
LEMMA OneLease ==
  ASSUME RegistrationsInv, NEW g \in Generation, NEW l \in PresentationUplink,
         lease' = [lease EXCEPT ![g] = l], page' = page,
         hub' \in HubType, hub'.ids = hub.ids, hub'.tab = hub.tab,
         l.closed => l.box = NoIntent,
         l.receiver \in {"ready", "receiving", "finishing"} => l.stream # 0,
         l.worker \notin {"none", "ended"} => l.stream # 0,
         l.worker \in {"check", "dispatch", "publish"} => l.intent \in Sent,
         l.worker = "publish" => l.result \in Answer,
         lease[g].receiver = "none" => l.receiver = "none",
         \/ hub'.uplink = 0
         \/ hub'.uplink = hub.uplink /\ hub.uplink # g
         \/ /\ hub'.uplink = g /\ l.stream = hub.tab /\ hub.tab # 0
            /\ l.receiver \in {"ready", "receiving", "finishing"}
  PROVE  /\ lease' \in [Generation -> PresentationUplink]
         /\ UplinkIsBound' /\ \A x \in Generation : UplinkIsSound(x)'
<1>1. /\ lease \in [Generation -> PresentationUplink]
      /\ UplinkIsBound /\ \A x \in Generation : UplinkIsSound(x)
      /\ hub \in HubType
  BY DEF RegistrationsInv, StreamTypeOK
<1>2. /\ lease' \in [Generation -> PresentationUplink] /\ lease'[g] = l
      /\ \A x \in Generation : x # g => lease'[x] = lease[x]
  BY <1>1
<1>3. ASSUME NEW x \in Generation PROVE UplinkIsSound(x)'
  <2>1. CASE x = g
    BY <1>1, <1>2, <2>1 DEF UplinkIsSound
  <2>2. CASE x # g
    BY <1>1, <1>2, <2>2 DEF UplinkIsSound
  <2> QED
    BY <2>1, <2>2
<1>4. UplinkIsBound'
  <2>1. CASE hub'.uplink = 0
    BY <2>1 DEF UplinkIsBound
  <2>2. CASE hub'.uplink = hub.uplink /\ hub.uplink # g /\ hub.uplink # 0
    <3>1. hub.uplink \in Generation
      BY <1>1, <2>2 DEF HubType
    <3>2. lease'[hub.uplink] = lease[hub.uplink]
      BY <1>2, <2>2, <3>1
    <3> QED
      BY <1>1, <2>2, <3>2 DEF UplinkIsBound
  <2>3. CASE /\ hub'.uplink = g /\ l.stream = hub.tab /\ hub.tab # 0
             /\ l.receiver \in {"ready", "receiving", "finishing"}
    BY <1>2, <2>3 DEF UplinkIsBound
  <2> QED
    BY <2>1, <2>2, <2>3
<1> QED
  BY <1>2, <1>3, <1>4

(* ReleaseUplink closes the lease and ends its receiver. *)
LEMMA ReleaseEnds ==
  ASSUME RegistrationsInv, NEW g \in Generation, Release(g, lease), page' = page,
         lease[g].receiver # "none"
  PROVE  /\ hub' \in HubType /\ hub'.ids = hub.ids /\ hub'.tab = hub.tab
         /\ lease' \in [Generation -> PresentationUplink]
         /\ UplinkIsBound' /\ \A x \in Generation : UplinkIsSound(x)'
<1> DEFINE old == lease[g]
           l == [Closed(old) EXCEPT !.receiver = "ended"]
<1>0. BoundsAssumption
  BY BoundsAssumption
<1>1. hub \in HubType /\ lease \in [Generation -> PresentationUplink] /\ UplinkIsSound(g)
  BY DEF RegistrationsInv, StreamTypeOK
<1>2. g # 0
  BY <1>0 DEF Generation
<1>3. hub' = IF hub.uplink = g THEN [hub EXCEPT !.uplink = 0] ELSE hub
  BY DEF Release
<1>4. /\ hub' \in HubType /\ hub'.ids = hub.ids /\ hub'.tab = hub.tab
      /\ hub'.uplink = 0 \/ (hub'.uplink = hub.uplink /\ hub.uplink # g)
  BY <1>1, <1>3 DEF HubType
<1>5. lease' = [lease EXCEPT ![g] = l]
  BY DEF Release
<1>6. old \in PresentationUplink
  BY <1>1
<1>7. UplinkIsSound(g) /\ old = lease[g]
  BY <1>1
<1> HIDE DEF old
<1>8. /\ l \in PresentationUplink /\ l.closed = TRUE /\ l.box = NoIntent /\ l.receiver = "ended"
      /\ l.stream = old.stream /\ l.worker = old.worker /\ l.intent = old.intent
      /\ l.result = old.result
  BY <1>6 DEF Closed, PresentationUplink, ReceiverState
<1> HIDE DEF l
<1>9. /\ l.worker \notin {"none", "ended"} => l.stream # 0
      /\ l.worker \in {"check", "dispatch", "publish"} => l.intent \in Sent
      /\ l.worker = "publish" => l.result \in Answer
  BY <1>7, <1>8 DEF UplinkIsSound
<1> QED
  BY <1>4, <1>5, <1>8, <1>9, OneLease

(* Bind: the newest generation takes the uplink of the registered stream. *)
LEMMA BindStep ==
  ASSUME RegistrationsInv, NEW g \in Generation, Bind(g)
  PROVE  UplinkStep
<1> DEFINE old == lease[g]
           ended == [old EXCEPT !.receiver = "ended"]
           bound == [old EXCEPT !.stream = hub.tab, !.receiver = "ready"]
<1>0. BoundsAssumption
  BY BoundsAssumption
<1>1. /\ StreamTypeOK /\ old \in PresentationUplink /\ old = lease[g] /\ UplinkIsSound(g)
      /\ UplinkIsBound
  BY DEF RegistrationsInv, StreamTypeOK
<1>2. old.receiver = "open" /\ UNCHANGED <<committed, cursor, changes, attached, sub, down, cut, up, lost, page, calls>>
  BY DEF Bind
<1>3. g # 0
  BY <1>0 DEF Generation
<1>4. hub.uplink # g
  BY <1>1, <1>2, <1>3 DEF UplinkIsBound
<1>5. /\ hub' \in HubType /\ hub'.ids = hub.ids /\ hub'.tab = hub.tab
      /\ lease' \in [Generation -> PresentationUplink]
      /\ UplinkIsBound' /\ \A x \in Generation : UplinkIsSound(x)'
  <2>1. CASE lease' = [lease EXCEPT ![g].receiver = "ended"] /\ UNCHANGED hub
    <3>1. lease' = [lease EXCEPT ![g] = ended]
      BY <2>1
    <3> HIDE DEF old
    <3>2. /\ ended \in PresentationUplink /\ ended.closed = old.closed /\ ended.box = old.box
          /\ ended.receiver = "ended" /\ ended.stream = old.stream /\ ended.worker = old.worker
          /\ ended.intent = old.intent /\ ended.result = old.result
      BY <1>1 DEF PresentationUplink, ReceiverState
    <3> HIDE DEF ended
    <3>3. /\ ended.closed => ended.box = NoIntent
          /\ ended.worker \notin {"none", "ended"} => ended.stream # 0
          /\ ended.worker \in {"check", "dispatch", "publish"} => ended.intent \in Sent
          /\ ended.worker = "publish" => ended.result \in Answer
          /\ lease[g].receiver # "none"
      BY <1>1, <1>2, <3>2 DEF UplinkIsSound
    <3>4. hub \in HubType
      BY <1>1 DEF StreamTypeOK
    <3> QED
      BY <1>2, <1>4, <2>1, <3>1, <3>2, <3>3, <3>4, OneLease
  <2>2. CASE /\ hub.tab # 0 /\ g > hub.uplink /\ hub' = [hub EXCEPT !.uplink = g]
             /\ lease' = LetGo([lease EXCEPT ![g].stream = hub.tab, ![g].receiver = "ready"])
    <3> DEFINE all == [lease EXCEPT ![g] = bound]
               new == LetGo(all)
    <3>1. [lease EXCEPT ![g].stream = hub.tab, ![g].receiver = "ready"] = all
      BY <1>1 DEF StreamTypeOK
    <3>2. lease' = new
      BY <2>2, <3>1
    <3>3. hub' \in HubType /\ hub'.ids = hub.ids /\ hub'.tab = hub.tab /\ hub'.uplink = g
      BY <1>1, <2>2 DEF StreamTypeOK, HubType
    <3>4. hub.tab \in {0} \cup Stream
      BY <1>1 DEF StreamTypeOK, HubType
    <3> HIDE DEF old
    <3>5. /\ bound \in PresentationUplink /\ bound.closed = old.closed /\ bound.box = old.box
          /\ bound.receiver = "ready" /\ bound.stream = hub.tab /\ bound.worker = old.worker
          /\ bound.intent = old.intent /\ bound.result = old.result
      BY <1>1, <3>4, ZenonT(20) DEF PresentationUplink, ReceiverState
    <3> HIDE DEF bound
    <3>6. /\ all \in [Generation -> PresentationUplink] /\ all[g] = bound
          /\ \A x \in Generation : x # g => all[x] = lease[x]
      BY <1>1, <3>5 DEF StreamTypeOK
    <3> HIDE DEF all
    <3>7. /\ new \in [Generation -> PresentationUplink]
          /\ \A x \in Generation :
               /\ new[x].stream = all[x].stream /\ new[x].receiver = all[x].receiver
               /\ new[x].worker = all[x].worker /\ new[x].intent = all[x].intent
               /\ new[x].result = all[x].result
               /\ \/ new[x].closed = all[x].closed /\ new[x].box = all[x].box
                  \/ new[x].closed = TRUE /\ new[x].box = NoIntent
      BY <3>6, LetGoType
    <3> HIDE DEF new
    <3>8. ASSUME NEW x \in Generation PROVE UplinkIsSound(x)'
      <4>1. UplinkIsSound(x)
        BY DEF RegistrationsInv
      <4>2. CASE x = g
        BY <1>1, <1>2, <2>2, <3>2, <3>5, <3>6, <3>7, <4>2 DEF UplinkIsSound
      <4>3. CASE x # g
        BY <1>2, <3>2, <3>6, <3>7, <4>1, <4>3 DEF UplinkIsSound
      <4> QED
        BY <4>2, <4>3
    <3>9. UplinkIsBound'
      BY <2>2, <3>2, <3>3, <3>5, <3>6, <3>7 DEF UplinkIsBound
    <3> QED
      BY <3>2, <3>3, <3>7, <3>8, <3>9
  <2> QED
    BY <2>1, <2>2 DEF Bind
<1> QED
  BY <1>1, <1>2, <1>5 DEF UplinkStep, StreamTypeOK

(* PublishReady: the stream gets the answer and the worker starts, or the lease ends. *)
LEMMA PublishReadyStep ==
  ASSUME RegistrationsInv, NEW g \in Generation, PublishReady(g)
  PROVE  UplinkStep
<1> DEFINE old == lease[g]
           s == old.stream
<1>0. BoundsAssumption
  BY BoundsAssumption
<1>1. /\ StreamTypeOK /\ old \in PresentationUplink /\ old = lease[g] /\ UplinkIsSound(g)
      /\ UplinkIsBound
  BY DEF RegistrationsInv, StreamTypeOK
<1>2. old.receiver = "ready" /\ UNCHANGED <<committed, cursor, changes, attached, down, cut, up, lost, page, calls>>
  BY DEF PublishReady
<1>3. CASE sub' = [sub EXCEPT ![s].targeted = Ready(g)] /\ UNCHANGED hub
           /\ lease' = [lease EXCEPT ![g].receiver = "receiving", ![g].worker = "take"]
  <2> DEFINE l == [old EXCEPT !.receiver = "receiving", !.worker = "take"]
  <2>1. s \in Stream
    BY <1>1, <1>2 DEF UplinkIsSound, PresentationUplink
  <2>2. g \in Nat /\ g # 0
    BY <1>0 DEF Generation
  <2>3. lease' = [lease EXCEPT ![g] = l]
    BY <1>1, <1>3 DEF StreamTypeOK
  <2>4. s # 0
    BY <1>0, <2>1 DEF Stream
  <2> HIDE DEF s
  <2>5. Ready(g) \in Answer
    BY <2>2, ReadyType
  <2>6. /\ sub' \in [Stream -> Subscription]
        /\ \A x \in Stream : /\ sub'[x].last = sub[x].last /\ sub'[x].updates = sub[x].updates
                             /\ sub'[x].handler = sub[x].handler
    BY <1>1, <1>3, <2>1, <2>5 DEF StreamTypeOK, Subscription
  <2>7. s = old.stream
    BY DEF s
  <2> HIDE DEF old
  <2>8. /\ l \in PresentationUplink /\ l.closed = old.closed /\ l.box = old.box
        /\ l.receiver = "receiving" /\ l.stream = s /\ l.worker = "take"
    BY <1>1, <2>7, ZenonT(20) DEF PresentationUplink, ReceiverState, WorkerState
  <2> HIDE DEF l
  <2>9. /\ l.closed => l.box = NoIntent
        /\ lease[g].receiver # "none"
        /\ g = hub.uplink => l.stream = hub.tab /\ hub.tab # 0
    BY <1>1, <1>2, <2>2, <2>4, <2>7, <2>8 DEF UplinkIsSound, UplinkIsBound
  <2>10. hub \in HubType /\ hub' = hub /\ page' = page
    BY <1>1, <1>2, <1>3 DEF StreamTypeOK
  <2>11. /\ lease' \in [Generation -> PresentationUplink]
         /\ UplinkIsBound' /\ \A x \in Generation : UplinkIsSound(x)'
    BY <2>3, <2>4, <2>8, <2>9, <2>10, OneLease
  <2> QED
    BY <1>1, <1>2, <2>6, <2>10, <2>11 DEF UplinkStep, StreamTypeOK
<1>4. CASE Release(g, lease) /\ UNCHANGED sub
  <2>1. /\ hub' \in HubType /\ hub'.ids = hub.ids /\ hub'.tab = hub.tab
        /\ lease' \in [Generation -> PresentationUplink]
        /\ UplinkIsBound' /\ \A x \in Generation : UplinkIsSound(x)'
    BY <1>1, <1>2, <1>4, ReleaseEnds
  <2> QED
    BY <1>1, <1>2, <1>4, <2>1 DEF UplinkStep, StreamTypeOK
<1> QED
  BY <1>3, <1>4 DEF PublishReady

(* Receive: the latest intent takes the place of an older one, or the lease ends. *)
LEMMA ReceiveStep ==
  ASSUME RegistrationsInv, NEW g \in Generation, Receive(g)
  PROVE  UplinkStep
<1> DEFINE old == lease[g]
           rest == Tail(up[g])
<1>1. /\ StreamTypeOK /\ old \in PresentationUplink /\ old = lease[g] /\ UplinkIsSound(g)
      /\ UplinkIsBound
  BY DEF RegistrationsInv, StreamTypeOK
<1>2. /\ old.receiver = "receiving" /\ up[g] # <<>> /\ up' = [up EXCEPT ![g] = Tail(@)]
      /\ UNCHANGED <<committed, cursor, changes, attached, sub, down, cut, lost, page, calls>>
  BY DEF Receive
<1>3. up[g] \in Seq(Sent)
  BY <1>1 DEF StreamTypeOK
<1>4. rest \in Seq(Sent) /\ Head(up[g]) \in Sent
  BY <1>2, <1>3
<1>5. up' = [up EXCEPT ![g] = rest]
  BY <1>2
<1> HIDE DEF rest
<1>6. up' \in [Generation -> Seq(Sent)]
  BY <1>1, <1>4, <1>5 DEF StreamTypeOK
<1>7. CASE /\ CurrentUplink(g) /\ ~lease[g].closed
           /\ lease' = [lease EXCEPT ![g].box = Head(up[g])] /\ UNCHANGED hub
  <2> DEFINE l == [old EXCEPT !.box = Head(up[g])]
  <2>1. lease' = [lease EXCEPT ![g] = l]
    BY <1>1, <1>7 DEF StreamTypeOK
  <2> HIDE DEF old
  <2>2. /\ l \in PresentationUplink /\ l.closed = old.closed /\ l.stream = old.stream
        /\ l.receiver = old.receiver /\ l.worker = old.worker /\ l.intent = old.intent
        /\ l.result = old.result
    BY <1>1, <1>4 DEF PresentationUplink
  <2> HIDE DEF l
  <2>3. /\ ~l.closed /\ lease[g].receiver # "none" /\ l.receiver = "receiving"
        /\ l.stream # 0
        /\ l.worker \in {"check", "dispatch", "publish"} => l.intent \in Sent
        /\ l.worker = "publish" => l.result \in Answer
    BY <1>1, <1>2, <1>7, <2>2 DEF UplinkIsSound
  <2>4. g = hub.uplink /\ hub.uplink # 0 => l.stream = hub.tab /\ hub.tab # 0
    BY <1>1, <2>2 DEF UplinkIsBound
  <2>5. hub \in HubType /\ hub' = hub /\ page' = page
    BY <1>1, <1>2, <1>7 DEF StreamTypeOK
  <2>6. /\ lease' \in [Generation -> PresentationUplink]
        /\ UplinkIsBound' /\ \A x \in Generation : UplinkIsSound(x)'
    BY <2>1, <2>2, <2>3, <2>4, <2>5, OneLease
  <2> QED
    BY <1>1, <1>2, <1>6, <2>5, <2>6 DEF UplinkStep, StreamTypeOK
<1>8. CASE Release(g, lease)
  <2>1. /\ hub' \in HubType /\ hub'.ids = hub.ids /\ hub'.tab = hub.tab
        /\ lease' \in [Generation -> PresentationUplink]
        /\ UplinkIsBound' /\ \A x \in Generation : UplinkIsSound(x)'
    BY <1>1, <1>2, <1>8, ReleaseEnds
  <2> QED
    BY <1>1, <1>2, <1>6, <2>1 DEF UplinkStep, StreamTypeOK
<1> QED
  BY <1>7, <1>8 DEF Receive

(* ReceiveEnds: the page closed its request, or the connection is gone. *)
LEMMA ReceiveEndsStep ==
  ASSUME RegistrationsInv, NEW g \in Generation, ReceiveEnds(g)
  PROVE  UplinkStep
<1> DEFINE old == lease[g]
<1>1. /\ StreamTypeOK /\ old \in PresentationUplink /\ old = lease[g] /\ UplinkIsSound(g)
      /\ UplinkIsBound
  BY DEF RegistrationsInv, StreamTypeOK
<1>2. /\ old.receiver = "receiving"
      /\ UNCHANGED <<committed, cursor, changes, attached, sub, down, cut, up, lost, page, calls>>
  BY DEF ReceiveEnds
<1>3. CASE lease' = [lease EXCEPT ![g].finished = TRUE, ![g].receiver = "finishing"] /\ UNCHANGED hub
  <2> DEFINE l == [old EXCEPT !.finished = TRUE, !.receiver = "finishing"]
  <2>1. lease' = [lease EXCEPT ![g] = l]
    BY <1>1, <1>3 DEF StreamTypeOK
  <2> HIDE DEF old
  <2>2. /\ l \in PresentationUplink /\ l.closed = old.closed /\ l.stream = old.stream
        /\ l.receiver = "finishing" /\ l.worker = old.worker /\ l.intent = old.intent
        /\ l.result = old.result /\ l.box = old.box
    BY <1>1, ZenonT(20) DEF PresentationUplink, ReceiverState
  <2> HIDE DEF l
  <2>3. /\ l.closed => l.box = NoIntent
        /\ lease[g].receiver # "none" /\ l.receiver = "finishing"
        /\ l.stream # 0
        /\ l.worker \in {"check", "dispatch", "publish"} => l.intent \in Sent
        /\ l.worker = "publish" => l.result \in Answer
    BY <1>1, <1>2, <2>2 DEF UplinkIsSound
  <2>4. g = hub.uplink /\ hub.uplink # 0 => l.stream = hub.tab /\ hub.tab # 0
    BY <1>1, <2>2 DEF UplinkIsBound
  <2>5. hub \in HubType /\ hub' = hub /\ page' = page
    BY <1>1, <1>2, <1>3 DEF StreamTypeOK
  <2>6. /\ lease' \in [Generation -> PresentationUplink]
        /\ UplinkIsBound' /\ \A x \in Generation : UplinkIsSound(x)'
    BY <2>1, <2>2, <2>3, <2>4, <2>5, OneLease
  <2> QED
    BY <1>1, <1>2, <2>5, <2>6 DEF UplinkStep, StreamTypeOK
<1>4. CASE Release(g, lease)
  <2>1. /\ hub' \in HubType /\ hub'.ids = hub.ids /\ hub'.tab = hub.tab
        /\ lease' \in [Generation -> PresentationUplink]
        /\ UplinkIsBound' /\ \A x \in Generation : UplinkIsSound(x)'
    BY <1>1, <1>2, <1>4, ReleaseEnds
  <2> QED
    BY <1>1, <1>2, <2>1 DEF UplinkStep, StreamTypeOK
<1> QED
  BY <1>3, <1>4 DEF ReceiveEnds

LEMMA ReceiverFinishesStep ==
  ASSUME RegistrationsInv, NEW g \in Generation, ReceiverFinishes(g)
  PROVE  UplinkStep
<1>1. /\ StreamTypeOK /\ lease[g].receiver # "none" /\ Release(g, lease)
      /\ UNCHANGED <<committed, cursor, changes, attached, sub, down, cut, up, lost, page, calls>>
  BY DEF RegistrationsInv, ReceiverFinishes
<1>2. /\ hub' \in HubType /\ hub'.ids = hub.ids /\ hub'.tab = hub.tab
      /\ lease' \in [Generation -> PresentationUplink]
      /\ UplinkIsBound' /\ \A x \in Generation : UplinkIsSound(x)'
  BY <1>1, ReleaseEnds
<1> QED
  BY <1>1, <1>2 DEF UplinkStep, StreamTypeOK

(* A lease whose worker or context alone changes. *)
LEMMA QuietLease ==
  ASSUME RegistrationsInv, NEW g \in Generation, NEW l \in PresentationUplink,
         lease' = [lease EXCEPT ![g] = l],
         UNCHANGED <<committed, cursor, changes, attached, hub, down, cut, up, lost, page, calls>>,
         sub' \in [Stream -> Subscription],
         \A s \in Stream : /\ sub'[s].last = sub[s].last /\ sub'[s].updates = sub[s].updates
                           /\ sub'[s].handler = sub[s].handler,
         l.stream = lease[g].stream, l.receiver = lease[g].receiver,
         l.closed => l.box = NoIntent,
         l.worker \notin {"none", "ended"} => l.stream # 0,
         l.worker \in {"check", "dispatch", "publish"} => l.intent \in Sent,
         l.worker = "publish" => l.result \in Answer
  PROVE  UplinkStep
<1>1. /\ StreamTypeOK /\ UplinkIsSound(g) /\ UplinkIsBound
  BY DEF RegistrationsInv
<1>2. hub \in HubType /\ hub' = hub /\ page' = page
  BY <1>1 DEF StreamTypeOK
<1>3. l.receiver \in {"ready", "receiving", "finishing"} => l.stream # 0
  BY <1>1 DEF UplinkIsSound
<1>4. g = hub.uplink /\ hub.uplink # 0 =>
        l.stream = hub.tab /\ hub.tab # 0 /\ l.receiver \in {"ready", "receiving", "finishing"}
  BY <1>1 DEF UplinkIsBound
<1>5. /\ lease' \in [Generation -> PresentationUplink]
      /\ UplinkIsBound' /\ \A x \in Generation : UplinkIsSound(x)'
  BY <1>2, <1>3, <1>4, OneLease
<1> QED
  BY <1>1, <1>2, <1>5 DEF UplinkStep, StreamTypeOK

(* The lease ends with its stream. *)
LEMMA LeaseEndsStep ==
  ASSUME RegistrationsInv, NEW g \in Generation, LeaseEnds(g)
  PROVE  UplinkStep
<1> DEFINE old == lease[g]
           l == Closed(old)
<1>1. StreamTypeOK /\ old \in PresentationUplink /\ old = lease[g] /\ UplinkIsSound(g)
  BY DEF RegistrationsInv, StreamTypeOK
<1>2. /\ lease' = [lease EXCEPT ![g] = l]
      /\ UNCHANGED <<committed, cursor, changes, attached, hub, sub, down, cut, up, lost, page, calls>>
  BY DEF LeaseEnds
<1> HIDE DEF old
<1>3. /\ l \in PresentationUplink /\ l.closed = TRUE /\ l.box = NoIntent
      /\ l.stream = old.stream /\ l.receiver = old.receiver /\ l.worker = old.worker
      /\ l.intent = old.intent /\ l.result = old.result
  BY <1>1 DEF Closed, PresentationUplink
<1> HIDE DEF l
<1>4. /\ l.worker \notin {"none", "ended"} => l.stream # 0
      /\ l.worker \in {"check", "dispatch", "publish"} => l.intent \in Sent
      /\ l.worker = "publish" => l.result \in Answer
  BY <1>1, <1>3 DEF UplinkIsSound
<1>5. sub' = sub /\ sub \in [Stream -> Subscription]
  BY <1>1, <1>2 DEF StreamTypeOK
<1> QED
  BY <1>1, <1>2, <1>3, <1>4, <1>5, QuietLease

(* Take: the worker takes the intent out of the mailbox, or ends. *)
LEMMA TakeStep ==
  ASSUME RegistrationsInv, NEW g \in Generation, Take(g)
  PROVE  UplinkStep
<1> DEFINE old == lease[g]
           took == [old EXCEPT !.intent = old.box, !.box = NoIntent, !.worker = "check"]
           ended == [old EXCEPT !.worker = "ended"]
<1>1. StreamTypeOK /\ old \in PresentationUplink /\ old = lease[g] /\ UplinkIsSound(g)
  BY DEF RegistrationsInv, StreamTypeOK
<1>2. /\ old.worker = "take"
      /\ UNCHANGED <<committed, cursor, changes, attached, hub, sub, down, cut, up, lost, page, calls>>
  BY DEF Take
<1>3. sub' = sub /\ sub \in [Stream -> Subscription]
  BY <1>1, <1>2 DEF StreamTypeOK
<1>4. CASE /\ lease[g].box # NoIntent
           /\ lease' = [lease EXCEPT ![g].intent = lease[g].box, ![g].box = NoIntent, ![g].worker = "check"]
  <2> DEFINE box == old.box
             l == [old EXCEPT !.intent = box, !.box = NoIntent, !.worker = "check"]
  <2>1. lease' = [lease EXCEPT ![g] = l]
    BY <1>1, <1>4 DEF StreamTypeOK
  <2>2. box \in Sent
    BY <1>1, <1>4 DEF PresentationUplink
  <2> HIDE DEF old, box
  <2>3. /\ l \in PresentationUplink /\ l.box = NoIntent /\ l.intent = box
        /\ l.stream = old.stream /\ l.receiver = old.receiver /\ l.worker = "check"
    BY <1>1, <2>2, ZenonT(20) DEF PresentationUplink, WorkerState
  <2> HIDE DEF l
  <2>4. l.stream # 0
    BY <1>1, <1>2, <2>3 DEF UplinkIsSound
  <2> QED
    BY <1>1, <1>2, <1>3, <2>1, <2>2, <2>3, <2>4, QuietLease
<1>5. CASE lease' = [lease EXCEPT ![g].worker = "ended"]
  <2>1. lease' = [lease EXCEPT ![g] = ended]
    BY <1>1, <1>5 DEF StreamTypeOK
  <2> HIDE DEF old
  <2>2. /\ ended \in PresentationUplink /\ ended.box = old.box /\ ended.closed = old.closed
        /\ ended.stream = old.stream /\ ended.receiver = old.receiver /\ ended.worker = "ended"
    BY <1>1 DEF PresentationUplink, WorkerState
  <2> HIDE DEF ended
  <2>3. ended.closed => ended.box = NoIntent
    BY <1>1, <2>2 DEF UplinkIsSound
  <2> QED
    BY <1>1, <1>2, <1>3, <2>1, <2>2, <2>3, QuietLease
<1> QED
  BY <1>4, <1>5 DEF Take

(* CheckCurrent: the worker goes on with its intent, or ends. *)
LEMMA CheckCurrentStep ==
  ASSUME RegistrationsInv, NEW g \in Generation, CheckCurrent(g)
  PROVE  UplinkStep
<1> DEFINE old == lease[g]
           next == IF CurrentUplink(g) THEN "dispatch" ELSE "ended"
           l == [old EXCEPT !.worker = next]
<1>1. StreamTypeOK /\ old \in PresentationUplink /\ old = lease[g] /\ UplinkIsSound(g)
  BY DEF RegistrationsInv, StreamTypeOK
<1>2. /\ old.worker = "check" /\ lease' = [lease EXCEPT ![g].worker = next]
      /\ UNCHANGED <<committed, cursor, changes, attached, hub, sub, down, cut, up, lost, page, calls>>
  BY DEF CheckCurrent
<1>3. sub' = sub /\ sub \in [Stream -> Subscription]
  BY <1>1, <1>2 DEF StreamTypeOK
<1>4. next \in {"dispatch", "ended"}
  OBVIOUS
<1> HIDE DEF next
<1>5. lease' = [lease EXCEPT ![g] = l]
  BY <1>1, <1>2 DEF StreamTypeOK
<1> HIDE DEF old
<1>6. /\ l \in PresentationUplink /\ l.closed = old.closed /\ l.box = old.box
      /\ l.stream = old.stream /\ l.receiver = old.receiver /\ l.worker = next
      /\ l.intent = old.intent /\ l.result = old.result
  BY <1>1, <1>4 DEF PresentationUplink, WorkerState
<1> HIDE DEF l
<1>7. /\ l.closed => l.box = NoIntent
      /\ l.worker \notin {"none", "ended"} => l.stream # 0
      /\ l.worker \in {"check", "dispatch", "publish"} => l.intent \in Sent
      /\ l.worker # "publish"
  BY <1>1, <1>2, <1>4, <1>6 DEF UplinkIsSound
<1> QED
  BY <1>1, <1>2, <1>3, <1>5, <1>6, <1>7, QuietLease

(* PublishResult: the stream gets the answer, or the worker gives up. *)
LEMMA PublishResultStep ==
  ASSUME RegistrationsInv, NEW g \in Generation, PublishResult(g)
  PROVE  UplinkStep
<1> DEFINE old == lease[g]
           s == old.stream
           m == old.result
           again == [old EXCEPT !.worker = "take"]
           ended == [old EXCEPT !.worker = "ended"]
<1>0. BoundsAssumption
  BY BoundsAssumption
<1>1. StreamTypeOK /\ old \in PresentationUplink /\ old = lease[g] /\ UplinkIsSound(g)
  BY DEF RegistrationsInv, StreamTypeOK
<1>2. /\ old.worker = "publish"
      /\ UNCHANGED <<committed, cursor, changes, attached, hub, down, cut, up, lost, page, calls>>
  BY DEF PublishResult
<1>3. s \in Stream /\ m \in Answer
  BY <1>1, <1>2 DEF UplinkIsSound, PresentationUplink
<1>4. CASE sub' = [sub EXCEPT ![s].targeted = m] /\ lease' = [lease EXCEPT ![g].worker = "take"]
  <2>1. lease' = [lease EXCEPT ![g] = again]
    BY <1>1, <1>4 DEF StreamTypeOK
  <2>2. s # 0 /\ s = old.stream
    BY <1>0, <1>3 DEF Stream
  <2> HIDE DEF s, m
  <2>3. /\ sub' \in [Stream -> Subscription]
        /\ \A x \in Stream : /\ sub'[x].last = sub[x].last /\ sub'[x].updates = sub[x].updates
                             /\ sub'[x].handler = sub[x].handler
    BY <1>1, <1>3, <1>4 DEF StreamTypeOK, Subscription
  <2> HIDE DEF old
  <2>4. /\ again \in PresentationUplink /\ again.box = old.box /\ again.closed = old.closed
        /\ again.stream = old.stream /\ again.receiver = old.receiver /\ again.worker = "take"
    BY <1>1 DEF PresentationUplink, WorkerState
  <2> HIDE DEF again
  <2>5. again.closed => again.box = NoIntent
    BY <1>1, <2>4 DEF UplinkIsSound
  <2> QED
    BY <1>1, <1>2, <2>1, <2>2, <2>3, <2>4, <2>5, QuietLease
<1>5. CASE lease' = [lease EXCEPT ![g].worker = "ended"] /\ UNCHANGED sub
  <2>1. lease' = [lease EXCEPT ![g] = ended] /\ sub' = sub /\ sub \in [Stream -> Subscription]
    BY <1>1, <1>5 DEF StreamTypeOK
  <2> HIDE DEF old
  <2>2. /\ ended \in PresentationUplink /\ ended.box = old.box /\ ended.closed = old.closed
        /\ ended.stream = old.stream /\ ended.receiver = old.receiver /\ ended.worker = "ended"
    BY <1>1 DEF PresentationUplink, WorkerState
  <2> HIDE DEF ended
  <2>3. ended.closed => ended.box = NoIntent
    BY <1>1, <2>2 DEF UplinkIsSound
  <2> QED
    BY <1>1, <1>2, <2>1, <2>2, <2>3, QuietLease
<1> QED
  BY <1>4, <1>5 DEF PublishResult

LEMMA UplinkBreaksStep ==
  ASSUME RegistrationsInv, NEW g \in Generation, UplinkBreaks(g)
  PROVE  UplinkStep
<1>1. /\ StreamTypeOK /\ UplinkIsBound /\ \A x \in Generation : UplinkIsSound(x)
      /\ lost' = lost \cup {g} /\ UNCHANGED <<server, down, cut, up, page, calls>>
  BY DEF RegistrationsInv, UplinkBreaks
<1>2. UplinkIsBound' /\ \A x \in Generation : UplinkIsSound(x)'
  BY <1>1 DEF UplinkIsBound, UplinkIsSound, server
<1> QED
  BY <1>1, <1>2 DEF UplinkStep, StreamTypeOK, server

-----------------------------------------------------------------------------
(* Steps that move no message and commit nothing.                            *)

(* A stream whose messages, queue and place are left alone stays sound, also  *)
(* when it is unregistered or cut.                                            *)
LEMMA StreamStays ==
  ASSUME NEW s \in Stream, StreamIsSound(s),
         committed' = committed, cursor' = cursor, s \in hub'.ids => s \in hub.ids,
         sub'[s].last = sub[s].last, sub'[s].updates = sub[s].updates,
         sub'[s].handler = sub[s].handler, down'[s] = down[s], cut \subseteq cut',
         page'.at = page.at, page'.stream = page.stream, page'.shown = page.shown
  PROVE  StreamIsSound(s)'
<1>1. /\ sub'[s].last <= committed'
      /\ s \in hub'.ids => sub'[s].last = committed'
      /\ sub'[s].handler = "none" => sub'[s].updates = <<>> /\ down'[s] = <<>>
      /\ page'.stream < s => sub'[s].handler = "none"
      /\ page'.at = "subscribing" /\ page'.stream = s /\ sub'[s].handler # "none" /\ s \notin cut' =>
           down'[s] # <<>> /\ Shows(down'[s][1])
  BY DEF StreamIsSound
<1>2. DownOrdered(s)' /\ QueueOrdered(s)' /\ ShownIsOlder(s)'
  BY DEF StreamIsSound, DownOrdered, QueueOrdered, ShownIsOlder, Shows
<1>3. s \in hub'.ids /\ s \notin cut' /\ s = page'.stream => Carries(s)'
  BY DEF StreamIsSound, Carries, Current, Shows
<1> QED
  BY <1>1, <1>2, <1>3 DEF StreamIsSound, Shows

(* The steps of an uplink keep everything. *)
LEMMA UplinkStepKeeps ==
  ASSUME PageInv, UplinkStep
  PROVE  PageInv'
<1>1. /\ StreamTypeOK /\ StreamIsServed /\ PageIsSound
      /\ \A s \in Stream : StreamIsSound(s)
  BY DEF PageInv, RegistrationsInv, UpdatesInv
<1>2. StreamTypeOK'
  BY <1>1 DEF StreamTypeOK, UplinkStep
<1>3. StreamIsServed'
  BY <1>1 DEF StreamIsServed, UplinkStep, StreamTypeOK, HubType
<1>4. PageIsSound'
  BY <1>1 DEF PageIsSound, UplinkStep
<1>5. ASSUME NEW s \in Stream PROVE StreamIsSound(s)'
  BY <1>1, StreamStays DEF UplinkStep
<1> QED
  BY <1>2, <1>3, <1>4, <1>5 DEF PageInv, RegistrationsInv, UpdatesInv, UplinkStep

-----------------------------------------------------------------------------
(* Commits: what the coordinator publishes under its lock.                   *)

(* An update appended to a queue is the newest of the stream. *)
LEMMA QueueTakesUpdate ==
  ASSUME NEW s \in Stream, NEW r \in Nat, NEW c \in Presentation, StreamTypeOK, StreamIsSound(s),
         sub[s].last < r, committed' = r, cursor' = c, sub' \in [Stream -> Subscription],
         sub'[s].updates = Append(sub[s].updates, Update("update", r, c)),
         sub'[s].last = r, sub'[s].handler = sub[s].handler, sub[s].handler # "none",
         down'[s] = down[s], cut' = cut, page' = page
  PROVE  StreamIsSound(s)'
<1> DEFINE u == Update("update", r, c)
           queue == sub[s].updates
           queue2 == sub'[s].updates
<1>1. /\ u.revision = r /\ u.cursor = c /\ u \in QueuedUpdate
  BY UpdateType DEF QueuedUpdate
<1>2. /\ queue \in Seq(QueuedUpdate) /\ sub[s].last \in Nat
      /\ down[s] \in Seq(Sendable) /\ page.shown.revision \in Nat
  BY DEF StreamTypeOK, Subscription, Page, Message
<1>3. queue2 = Append(queue, u)
  OBVIOUS
<1> HIDE DEF u
<1>4. /\ Len(queue) \in Nat /\ Len(queue2) = Len(queue) + 1
      /\ \A i \in 1 .. Len(queue) : queue2[i] = queue[i]
      /\ queue2[Len(queue) + 1] = u
  BY <1>1, <1>2, <1>3
<1>5. /\ \A i \in 1 .. Len(queue) : queue[i].revision \in Nat
      /\ \A i \in 1 .. Len(down[s]) : down[s][i].revision \in Nat
  <2>1. \A i \in 1 .. Len(queue) : queue[i] \in QueuedUpdate
    BY <1>2
  <2>2. \A i \in 1 .. Len(down[s]) : down[s][i] \in Sendable
    BY <1>2
  <2> QED
    BY <2>1, <2>2 DEF QueuedUpdate, Sendable, Message
<1> HIDE DEF queue, queue2
<1>6. \A i \in 1 .. Len(queue2) : i \in 1 .. Len(queue) \/ i = Len(queue) + 1
  BY <1>4
<1>7. /\ queue = sub[s].updates /\ queue2 = sub'[s].updates
  BY DEF queue, queue2
<1>8. /\ sub'[s].last <= committed' /\ sub'[s].last = committed' /\ sub'[s].handler # "none"
      /\ page'.stream < s => sub'[s].handler = "none"
      /\ page'.at = "subscribing" /\ page'.stream = s /\ sub'[s].handler # "none" /\ s \notin cut' =>
           down'[s] # <<>> /\ Shows(down'[s][1])
  BY <1>2 DEF StreamIsSound
<1>9. QueueOrdered(s)'
  <2>1. QueueOrdered(s)
    BY DEF StreamIsSound
  <2>2. \A i \in 1 .. Len(queue) : queue[i].revision <= sub[s].last
    BY <1>7, <2>1 DEF QueueOrdered
  <2>3. \A i \in 1 .. Len(queue) : \A j \in 1 .. Len(queue) :
           j > i => queue[i].revision < queue[j].revision
    BY <1>7, <2>1 DEF QueueOrdered
  <2>4. ASSUME NEW i \in 1 .. Len(queue2)
        PROVE  /\ queue2[i].revision <= r
               /\ \A j \in 1 .. Len(queue2) : j > i => queue2[i].revision < queue2[j].revision
    <3>1. CASE i \in 1 .. Len(queue)
      <4>1. queue2[i] = queue[i] /\ queue[i].revision < r
        BY <1>2, <1>4, <1>5, <2>2, <3>1
      <4>2. ASSUME NEW j \in 1 .. Len(queue2), j > i PROVE queue2[i].revision < queue2[j].revision
        <5>1. CASE j \in 1 .. Len(queue)
          BY <1>4, <2>3, <3>1, <4>2, <5>1
        <5>2. CASE j = Len(queue) + 1
          BY <1>1, <1>4, <4>1, <5>2
        <5> QED
          BY <1>6, <5>1, <5>2
      <4> QED
        BY <1>5, <3>1, <4>1, <4>2
    <3>2. CASE i = Len(queue) + 1
      BY <1>1, <1>4, <3>2
    <3> QED
      BY <1>6, <3>1, <3>2
  <2> QED
    BY <1>7, <2>4 DEF QueueOrdered
<1>10. DownOrdered(s)'
  <2>1. DownOrdered(s)
    BY DEF StreamIsSound
  <2>2. ASSUME NEW i \in 1 .. Len(down[s]), Shows(down[s][i])
        PROVE  /\ down[s][i].revision <= r
               /\ \A j \in 1 .. Len(queue2) : down[s][i].revision < queue2[j].revision
    <3>1. down[s][i].revision <= sub[s].last
      BY <2>1, <2>2 DEF DownOrdered
    <3>2. \A j \in 1 .. Len(queue) : down[s][i].revision < queue[j].revision
      BY <1>7, <2>1, <2>2 DEF DownOrdered
    <3>3. down[s][i].revision < r
      BY <1>2, <1>5, <3>1
    <3>4. ASSUME NEW j \in 1 .. Len(queue2) PROVE down[s][i].revision < queue2[j].revision
      BY <1>1, <1>4, <1>6, <3>2, <3>3
    <3> QED
      BY <1>5, <3>3, <3>4
  <2> QED
    BY <1>7, <2>1, <2>2 DEF DownOrdered, Shows
<1>11. ShownIsOlder(s)'
  <2>1. SUFFICES ASSUME page.at = "live", page.stream = s
                 PROVE  /\ page.shown.revision <= r
                        /\ \A i \in 1 .. Len(down[s]) :
                             Shows(down[s][i]) => page.shown.revision < down[s][i].revision
                        /\ \A i \in 1 .. Len(queue2) : page.shown.revision < queue2[i].revision
    BY <1>7 DEF ShownIsOlder, Shows
  <2>2. /\ page.shown.revision <= sub[s].last
        /\ \A i \in 1 .. Len(down[s]) :
             Shows(down[s][i]) => page.shown.revision < down[s][i].revision
        /\ \A i \in 1 .. Len(queue) : page.shown.revision < queue[i].revision
    BY <1>7, <2>1 DEF StreamIsSound, ShownIsOlder
  <2>3. page.shown.revision < r
    BY <1>2, <2>2
  <2>4. ASSUME NEW i \in 1 .. Len(queue2) PROVE page.shown.revision < queue2[i].revision
    BY <1>1, <1>4, <1>6, <2>2, <2>3
  <2> QED
    BY <1>2, <2>2, <2>3, <2>4
<1>12. Carries(s)'
  <2>1. Len(queue) + 1 \in 1 .. Len(queue2)
    BY <1>4
  <2> QED
    BY <1>1, <1>4, <1>7, <2>1 DEF Carries, Current
<1> QED
  BY <1>7, <1>8, <1>9, <1>10, <1>11, <1>12 DEF StreamIsSound, Shows

(* A stream a commit leaves unregistered stays sound. *)
LEMMA StreamIsLeft ==
  ASSUME NEW s \in Stream, StreamIsSound(s), StreamTypeOK,
         committed' \in Nat, committed <= committed', s \notin hub'.ids,
         sub'[s].last = sub[s].last, sub'[s].updates = sub[s].updates,
         sub'[s].handler = "none" <=> sub[s].handler = "none",
         down'[s] = down[s], cut' = cut, page' = page
  PROVE  StreamIsSound(s)'
<1>1. sub[s].last \in Nat /\ committed \in Nat
  BY DEF StreamTypeOK, Subscription
<1>2. /\ sub'[s].last <= committed'
      /\ sub'[s].handler = "none" => sub'[s].updates = <<>> /\ down'[s] = <<>>
      /\ page'.stream < s => sub'[s].handler = "none"
      /\ page'.at = "subscribing" /\ page'.stream = s /\ sub'[s].handler # "none" /\ s \notin cut' =>
           down'[s] # <<>> /\ Shows(down'[s][1])
  BY <1>1 DEF StreamIsSound
<1>3. DownOrdered(s)' /\ QueueOrdered(s)' /\ ShownIsOlder(s)'
  BY DEF StreamIsSound, DownOrdered, QueueOrdered, ShownIsOlder, Shows
<1> QED
  BY <1>2, <1>3 DEF StreamIsSound, Shows

(* A commit with the streams as they are keeps every one sound: what is still *)
(* registered has taken the update.                                           *)
LEMMA CommitKeepsStreams ==
  ASSUME StreamTypeOK, StreamIsServed, UpdatesInv, NEW subs \in [Stream -> Subscription],
         \A s \in Stream : /\ subs[s].last = sub[s].last /\ subs[s].updates = sub[s].updates
                           /\ subs[s].handler = "none" <=> sub[s].handler = "none"
                           /\ s \in hub.ids => subs[s].handler = sub[s].handler,
         NEW c \in Presentation, Publish(hub, subs, committed + 1, c), down' = down, cut' = cut, page' = page
  PROVE  UpdatesInv'
<1> DEFINE r == committed + 1
<1>1. r \in Nat /\ committed < r /\ committed \in Nat /\ hub \in HubType
  BY DEF StreamTypeOK
<1>2. Publish(hub, subs, r, c)
  OBVIOUS
<1> HIDE DEF r
<1>3. /\ committed' = r /\ cursor' = c /\ hub'.ids \subseteq hub.ids
      /\ sub' \in [Stream -> Subscription]
      /\ \A s \in Stream : sub'[s].handler = subs[s].handler
  BY <1>1, <1>2, PublishTypes
<1>4. ASSUME NEW s \in Stream PROVE StreamIsSound(s)'
  <2>1. StreamIsSound(s) /\ sub[s].last \in Nat
    BY DEF UpdatesInv, StreamTypeOK, Subscription
  <2>2. subs[s].last <= r /\ subs[s].last < r
    BY <1>1, <2>1 DEF StreamIsSound
  <2>3. \/ /\ s \in hub.ids /\ subs[s].last < r
           /\ sub'[s].updates = Append(subs[s].updates, Update("update", r, c))
           /\ sub'[s].last = r
        \/ /\ sub'[s].updates = subs[s].updates /\ sub'[s].last = subs[s].last
           /\ s \in hub'.ids => s \in hub.ids /\ subs[s].last = r
    BY <1>1, <1>2, <2>2, PublishQueues
  <2>4. CASE /\ s \in hub.ids
             /\ sub'[s].updates = Append(subs[s].updates, Update("update", r, c))
             /\ sub'[s].last = r
    <3>1. sub[s].handler = "serving" /\ sub'[s].handler = sub[s].handler
      BY <1>3, <2>4 DEF StreamIsServed
    <3>2. sub[s].last < r /\ sub'[s].updates = Append(sub[s].updates, Update("update", r, c))
      BY <2>2, <2>4
    <3> QED
      BY <1>1, <1>3, <2>1, <2>4, <3>1, <3>2, QueueTakesUpdate
  <2>5. CASE /\ sub'[s].updates = subs[s].updates /\ sub'[s].last = subs[s].last
             /\ s \in hub'.ids => s \in hub.ids /\ subs[s].last = r
    <3>1. s \notin hub'.ids
      BY <1>1, <2>1, <2>2, <2>5
    <3>2. /\ sub'[s].updates = sub[s].updates /\ sub'[s].last = sub[s].last
          /\ sub'[s].handler = "none" <=> sub[s].handler = "none"
      BY <1>3, <2>5
    <3>3. committed' \in Nat /\ committed <= committed'
      BY <1>1, <1>3
    <3> QED
      BY <2>1, <3>1, <3>2, <3>3, StreamIsLeft
  <2> QED
    BY <2>3, <2>4, <2>5
<1> QED
  BY <1>4 DEF UpdatesInv

(* Letting go of the uplink of an unregistered stream keeps the uplinks sound. *)
LEMMA LetGoKeepsUplinks ==
  ASSUME RegistrationsInv, NEW leases \in [Generation -> PresentationUplink],
         lease' = LetGo(leases), page' = page, hub' \in HubType,
         hub'.uplink # 0 => hub'.uplink = hub.uplink /\ hub'.tab = hub.tab,
         \A g \in Generation :
           /\ leases[g].stream = lease[g].stream /\ leases[g].receiver = lease[g].receiver
           /\ leases[g].closed = lease[g].closed /\ leases[g].box = lease[g].box
           /\ leases[g].worker \notin {"none", "ended"} => leases[g].stream # 0
           /\ leases[g].worker \in {"check", "dispatch", "publish"} => leases[g].intent \in Sent
           /\ leases[g].worker = "publish" => leases[g].result \in Answer
  PROVE  /\ lease' \in [Generation -> PresentationUplink]
         /\ UplinkIsBound' /\ \A g \in Generation : UplinkIsSound(g)'
<1>1. /\ lease' \in [Generation -> PresentationUplink]
      /\ \A g \in Generation :
           /\ lease'[g].stream = leases[g].stream /\ lease'[g].receiver = leases[g].receiver
           /\ lease'[g].worker = leases[g].worker /\ lease'[g].intent = leases[g].intent
           /\ lease'[g].result = leases[g].result
           /\ \/ lease'[g].closed = leases[g].closed /\ lease'[g].box = leases[g].box
              \/ lease'[g].closed = TRUE /\ lease'[g].box = NoIntent
  BY LetGoType
<1>2. ASSUME NEW g \in Generation PROVE UplinkIsSound(g)'
  <2>1. UplinkIsSound(g)
    BY DEF RegistrationsInv
  <2> QED
    BY <1>1, <2>1 DEF UplinkIsSound
<1>3. UplinkIsBound'
  <2>1. CASE hub'.uplink = 0
    BY <2>1 DEF UplinkIsBound
  <2>2. CASE hub'.uplink # 0
    <3>1. hub'.uplink \in Generation
      BY <2>2 DEF HubType
    <3>2. UplinkIsBound /\ hub'.uplink = hub.uplink /\ hub'.tab = hub.tab
      BY <2>2 DEF RegistrationsInv
    <3> QED
      BY <1>1, <2>2, <3>1, <3>2 DEF UplinkIsBound
  <2> QED
    BY <2>1, <2>2
<1> QED
  BY <1>1, <1>2, <1>3

(* A commit with the streams and the leases as they are keeps what is registered. *)
LEMMA CommitKeepsRegistrations ==
  ASSUME RegistrationsInv, NEW subs \in [Stream -> Subscription],
         NEW r \in Nat, NEW c \in Presentation, Publish(hub, subs, r, c),
         \A s \in Stream : \/ subs[s].handler = sub[s].handler /\ (s \in attached' <=> s \in attached)
                           \/ s \notin hub.ids /\ s \notin attached',
         attached' \subseteq attached,
         NEW leases \in [Generation -> PresentationUplink], lease' = LetGo(leases),
         \A g \in Generation :
           /\ leases[g].stream = lease[g].stream /\ leases[g].receiver = lease[g].receiver
           /\ leases[g].closed = lease[g].closed /\ leases[g].box = lease[g].box
           /\ leases[g].worker \notin {"none", "ended"} => leases[g].stream # 0
           /\ leases[g].worker \in {"check", "dispatch", "publish"} => leases[g].intent \in Sent
           /\ leases[g].worker = "publish" => leases[g].result \in Answer,
         UNCHANGED <<down, cut, up, lost, page>>, changes' \in Nat, calls' \subseteq UnaryCall
  PROVE  RegistrationsInv'
<1>1. StreamTypeOK /\ hub \in HubType /\ StreamIsServed /\ PageIsSound
  BY DEF RegistrationsInv, StreamTypeOK
<1>2. hub.ids = {hub.tab} \ {0}
  BY <1>1 DEF StreamIsServed
<1>3. /\ committed' = r /\ cursor' = c
      /\ hub' \in HubType /\ hub'.ids \subseteq hub.ids
      /\ hub'.ids = {hub'.tab} \ {0}
      /\ hub'.uplink # 0 => hub'.uplink = hub.uplink /\ hub'.tab = hub.tab
      /\ sub' \in [Stream -> Subscription]
      /\ \A s \in Stream : sub'[s].handler = subs[s].handler
  BY <1>1, <1>2, PublishTypes
<1>4. /\ lease' \in [Generation -> PresentationUplink]
      /\ UplinkIsBound' /\ \A g \in Generation : UplinkIsSound(g)'
  BY <1>3, LetGoKeepsUplinks
<1>5. StreamIsServed'
  <2>1. hub.ids \subseteq Stream /\ attached \subseteq Stream
    BY <1>1 DEF StreamTypeOK, HubType
  <2>2. ASSUME NEW s \in hub'.ids PROVE sub'[s].handler = "serving" /\ s \in attached'
    BY <1>1, <1>3, <2>1, <2>2 DEF StreamIsServed
  <2>3. ASSUME NEW s \in attached' PROVE sub'[s].handler \in {"serving", "detaching"}
    BY <1>1, <1>3, <2>1, <2>3 DEF StreamIsServed
  <2> QED
    BY <1>3, <2>2, <2>3 DEF StreamIsServed
<1>6. StreamTypeOK'
  BY <1>1, <1>3, <1>4 DEF StreamTypeOK
<1>7. PageIsSound'
  BY <1>1 DEF PageIsSound
<1> QED
  BY <1>4, <1>5, <1>6, <1>7 DEF RegistrationsInv

LEMMA OthersChangeStep ==
  ASSUME PageInv, OthersChange
  PROVE  PageInv'
<1>1. /\ RegistrationsInv /\ UpdatesInv /\ StreamTypeOK /\ StreamIsServed
      /\ committed + 1 \in Nat /\ changes + 1 \in Nat
      /\ sub \in [Stream -> Subscription] /\ lease \in [Generation -> PresentationUplink]
      /\ calls \subseteq UnaryCall
      /\ \A g \in Generation : UplinkIsSound(g)
  BY DEF PageInv, RegistrationsInv, StreamTypeOK
<1>2. /\ changes' = changes + 1 /\ lease' = LetGo(lease)
      /\ UNCHANGED <<attached, down, cut, up, lost, page, calls>>
  BY DEF OthersChange
<1>3. PICK c \in Presentation : Publish(hub, sub, committed + 1, c)
  BY DEF OthersChange
<1>4. UpdatesInv'
  BY <1>1, <1>2, <1>3, CommitKeepsStreams
<1>5. \A g \in Generation :
        /\ lease[g].worker \notin {"none", "ended"} => lease[g].stream # 0
        /\ lease[g].worker \in {"check", "dispatch", "publish"} => lease[g].intent \in Sent
        /\ lease[g].worker = "publish" => lease[g].result \in Answer
  BY <1>1 DEF UplinkIsSound
<1> DEFINE r == committed + 1
<1>6. r \in Nat /\ Publish(hub, sub, r, c)
  BY <1>1, <1>3
<1> HIDE DEF r
<1>7. changes' \in Nat /\ calls' \subseteq UnaryCall
  BY <1>1, <1>2
<1>8. RegistrationsInv'
  BY <1>1, <1>2, <1>5, <1>6, <1>7, CommitKeepsRegistrations
<1> QED
  BY <1>4, <1>8 DEF PageInv

(* Detach: the connection leaves the session, and the rest learns of it. *)
LEMMA DetachStep ==
  ASSUME PageInv, NEW s \in Stream, Detach(s)
  PROVE  PageInv'
<1> DEFINE old == sub[s]
           subs == [sub EXCEPT ![s].handler = "ended"]
           r == committed + 1
<1>1. /\ RegistrationsInv /\ UpdatesInv /\ StreamTypeOK /\ StreamIsServed
      /\ r \in Nat /\ cursor \in Presentation
      /\ sub \in [Stream -> Subscription] /\ lease \in [Generation -> PresentationUplink]
      /\ calls \subseteq UnaryCall /\ changes \in Nat
      /\ \A g \in Generation : UplinkIsSound(g)
  BY DEF PageInv, RegistrationsInv, StreamTypeOK
<1>2. /\ sub[s].handler = "detaching" /\ attached' = attached \ {s}
      /\ Publish(hub, subs, committed + 1, cursor) /\ lease' = LetGo(lease)
      /\ UNCHANGED <<changes, down, cut, up, lost, page, calls>>
  BY DEF Detach
<1>3. /\ subs \in [Stream -> Subscription] /\ subs[s].handler = "ended"
      /\ subs[s].last = sub[s].last /\ subs[s].updates = sub[s].updates
      /\ \A x \in Stream : x # s => subs[x] = sub[x]
  <2>1. subs = [sub EXCEPT ![s] = [old EXCEPT !.handler = "ended"]]
    BY <1>1
  <2>2. old \in Subscription /\ old = sub[s]
    BY <1>1
  <2> HIDE DEF old
  <2>3. /\ [old EXCEPT !.handler = "ended"] \in Subscription
        /\ [old EXCEPT !.handler = "ended"].handler = "ended"
        /\ [old EXCEPT !.handler = "ended"].last = old.last
        /\ [old EXCEPT !.handler = "ended"].updates = old.updates
    BY <2>2 DEF Subscription, HandlerState
  <2> QED
    BY <1>1, <2>1, <2>2, <2>3
<1>4. s \notin hub.ids
  BY <1>1, <1>2 DEF StreamIsServed
<1> HIDE DEF subs
<1>5. \A x \in Stream : /\ subs[x].last = sub[x].last /\ subs[x].updates = sub[x].updates
                        /\ subs[x].handler = "none" <=> sub[x].handler = "none"
                        /\ x \in hub.ids => subs[x].handler = sub[x].handler
  BY <1>2, <1>3, <1>4
<1>6. UpdatesInv'
  BY <1>1, <1>2, <1>3, <1>5, CommitKeepsStreams
<1>7. \A x \in Stream : \/ subs[x].handler = sub[x].handler /\ (x \in attached' <=> x \in attached)
                        \/ x \notin hub.ids /\ x \notin attached'
  BY <1>2, <1>3, <1>4
<1>8. \A g \in Generation :
        /\ lease[g].worker \notin {"none", "ended"} => lease[g].stream # 0
        /\ lease[g].worker \in {"check", "dispatch", "publish"} => lease[g].intent \in Sent
        /\ lease[g].worker = "publish" => lease[g].result \in Answer
  BY <1>1 DEF UplinkIsSound
<1>9. Publish(hub, subs, r, cursor) /\ attached' \subseteq attached
      /\ changes' \in Nat /\ calls' \subseteq UnaryCall
  BY <1>1, <1>2
<1> HIDE DEF r
<1>10. RegistrationsInv'
  BY <1>1, <1>2, <1>3, <1>7, <1>8, <1>9, CommitKeepsRegistrations
<1> QED
  BY <1>6, <1>10 DEF PageInv

(* Dispatch: the intent is accepted and committed, or rejected. *)
LEMMA DispatchStep ==
  ASSUME PageInv, NEW g \in Generation, Dispatch(g)
  PROVE  PageInv'
<1> DEFINE old == lease[g]
           value == old.intent.value
           r == committed + 1
<1>0. BoundsAssumption
  BY BoundsAssumption
<1>1. /\ RegistrationsInv /\ UpdatesInv /\ StreamTypeOK /\ StreamIsServed
      /\ r \in Nat /\ committed \in Nat /\ cursor \in Presentation
      /\ sub \in [Stream -> Subscription] /\ lease \in [Generation -> PresentationUplink]
      /\ calls \subseteq UnaryCall /\ changes \in Nat /\ hub \in HubType
      /\ \A x \in Generation : UplinkIsSound(x)
  BY DEF PageInv, RegistrationsInv, StreamTypeOK
<1>2. old \in PresentationUplink /\ old = lease[g] /\ old.intent \in Sent /\ old.stream # 0
      /\ old.worker = "dispatch"
  BY <1>1 DEF Dispatch, UplinkIsSound
<1>3. value \in Presentation /\ old.intent.request \in Nat
  BY <1>2 DEF Sent
<1>4. PICK accept \in BOOLEAN :
        /\ Decide(value, accept)
        /\ lease' = LetGo([lease EXCEPT ![g].worker = "publish",
                      ![g].result = Result(g, old.intent.request, accept, committed')])
  BY Zenon DEF Dispatch
<1>5. UNCHANGED <<changes, attached, down, cut, up, lost, page, calls>>
  BY DEF Dispatch
<1>6. committed' \in Nat
  <2>1. CASE accept
    BY <1>1, <1>4, <2>1 DEF Decide, Publish
  <2>2. CASE ~accept
    BY <1>1, <1>4, <2>2 DEF Decide
  <2> QED
    BY <2>1, <2>2
<1> DEFINE m == Result(g, old.intent.request, accept, committed')
           l == [old EXCEPT !.worker = "publish", !.result = m]
           leases == [lease EXCEPT ![g] = l]
<1>7. m \in Answer
  <2>1. g \in Nat
    BY <1>0 DEF Generation
  <2> QED
    BY <1>3, <1>4, <1>6, <2>1, ResultType
<1>8. lease' = LetGo(leases)
  <2>1. [lease EXCEPT ![g].worker = "publish", ![g].result = m] = leases
    BY <1>1
  <2> QED
    BY <1>4, <2>1
<1> HIDE DEF m, old, value
<1>9. /\ l \in PresentationUplink /\ l.stream = old.stream /\ l.receiver = old.receiver
      /\ l.closed = old.closed /\ l.box = old.box /\ l.worker = "publish"
      /\ l.intent = old.intent /\ l.result = m
  BY <1>2, <1>7, ZenonT(20) DEF PresentationUplink, WorkerState
<1> HIDE DEF l
<1>10. /\ leases \in [Generation -> PresentationUplink] /\ leases[g] = l
       /\ \A x \in Generation : x # g => leases[x] = lease[x]
  BY <1>1, <1>9
<1> HIDE DEF leases
<1>11. \A x \in Generation :
         /\ leases[x].stream = lease[x].stream /\ leases[x].receiver = lease[x].receiver
         /\ leases[x].closed = lease[x].closed /\ leases[x].box = lease[x].box
         /\ leases[x].worker \notin {"none", "ended"} => leases[x].stream # 0
         /\ leases[x].worker \in {"check", "dispatch", "publish"} => leases[x].intent \in Sent
         /\ leases[x].worker = "publish" => leases[x].result \in Answer
  <2>1. ASSUME NEW x \in Generation
        PROVE  /\ leases[x].stream = lease[x].stream /\ leases[x].receiver = lease[x].receiver
               /\ leases[x].closed = lease[x].closed /\ leases[x].box = lease[x].box
               /\ leases[x].worker \notin {"none", "ended"} => leases[x].stream # 0
               /\ leases[x].worker \in {"check", "dispatch", "publish"} => leases[x].intent \in Sent
               /\ leases[x].worker = "publish" => leases[x].result \in Answer
    <3>1. CASE x = g
      BY <1>2, <1>7, <1>9, <1>10, <3>1
    <3>2. CASE x # g
      BY <1>1, <1>10, <3>2 DEF UplinkIsSound
    <3> QED
      BY <3>1, <3>2
  <2> QED
    BY <2>1
<1>12. CASE accept
  <2>1. Publish(hub, sub, committed + 1, value)
    BY <1>4, <1>12 DEF Decide
  <2>2. UpdatesInv'
    BY <1>1, <1>3, <1>5, <2>1, CommitKeepsStreams
  <2>3. Publish(hub, sub, r, value) /\ changes' \in Nat /\ calls' \subseteq UnaryCall
    BY <1>1, <1>5, <2>1
  <2> HIDE DEF r
  <2>4. RegistrationsInv'
    BY <1>1, <1>3, <1>5, <1>8, <1>10, <1>11, <2>3, CommitKeepsRegistrations
  <2> QED
    BY <2>2, <2>4 DEF PageInv
<1>13. CASE ~accept
  <2>1. UNCHANGED <<committed, cursor, hub, sub>>
    BY <1>4, <1>13 DEF Decide
  <2>2. /\ lease' \in [Generation -> PresentationUplink]
        /\ UplinkIsBound' /\ \A x \in Generation : UplinkIsSound(x)'
    BY <1>1, <1>5, <1>8, <1>10, <1>11, <2>1, LetGoKeepsUplinks
  <2>3. UplinkStep
    BY <1>1, <1>5, <2>1, <2>2 DEF UplinkStep, StreamTypeOK
  <2> QED
    BY <2>3, UplinkStepKeeps
<1> QED
  BY <1>12, <1>13

(* ServeCall: the same by a unary call. *)
LEMMA ServeCallStep ==
  ASSUME PageInv, NEW c \in calls, ServeCall(c)
  PROVE  PageInv'
<1> DEFINE value == c.value
           r == committed + 1
<1>1. /\ RegistrationsInv /\ UpdatesInv /\ StreamTypeOK /\ StreamIsServed
      /\ r \in Nat /\ committed \in Nat /\ cursor \in Presentation
      /\ sub \in [Stream -> Subscription] /\ lease \in [Generation -> PresentationUplink]
      /\ calls \subseteq UnaryCall /\ changes \in Nat /\ hub \in HubType
      /\ \A x \in Generation : UplinkIsSound(x)
  BY DEF PageInv, RegistrationsInv, StreamTypeOK
<1>2. c \in UnaryCall /\ value \in Presentation /\ c.request \in Nat
  BY <1>1 DEF UnaryCall
<1>3. PICK accept \in BOOLEAN :
        /\ Decide(value, accept)
        /\ calls' = (calls \ {c}) \cup {[c EXCEPT !.answer = Result(0, c.request, accept, committed')]}
  BY Zenon DEF ServeCall
<1>4. lease' = LetGo(lease) /\ UNCHANGED <<changes, attached, down, cut, up, lost, page>>
  BY DEF ServeCall
<1>5. committed' \in Nat
  <2>1. CASE accept
    BY <1>1, <1>3, <2>1 DEF Decide, Publish
  <2>2. CASE ~accept
    BY <1>1, <1>3, <2>2 DEF Decide
  <2> QED
    BY <2>1, <2>2
<1>6. calls' \subseteq UnaryCall
  <2> DEFINE m == Result(0, c.request, accept, committed')
  <2>1. m \in Message
    BY <1>2, <1>3, <1>5, ResultType
  <2> HIDE DEF m
  <2>2. [c EXCEPT !.answer = m] \in UnaryCall
    BY <1>2, <2>1 DEF UnaryCall
  <2> QED
    BY <1>1, <1>3, <2>2 DEF m
<1>7. \A x \in Generation :
        /\ lease[x].worker \notin {"none", "ended"} => lease[x].stream # 0
        /\ lease[x].worker \in {"check", "dispatch", "publish"} => lease[x].intent \in Sent
        /\ lease[x].worker = "publish" => lease[x].result \in Answer
  BY <1>1 DEF UplinkIsSound
<1> HIDE DEF value
<1>8. CASE accept
  <2>1. Publish(hub, sub, committed + 1, value)
    BY <1>3, <1>8 DEF Decide
  <2>2. UpdatesInv'
    BY <1>1, <1>2, <1>4, <2>1, CommitKeepsStreams
  <2>3. Publish(hub, sub, r, value) /\ changes' \in Nat
    BY <1>1, <1>4, <2>1
  <2> HIDE DEF r
  <2>4. RegistrationsInv'
    BY <1>1, <1>2, <1>4, <1>6, <1>7, <2>3, CommitKeepsRegistrations
  <2> QED
    BY <2>2, <2>4 DEF PageInv
<1>9. CASE ~accept
  <2>1. UNCHANGED <<committed, cursor, hub, sub>>
    BY <1>3, <1>9 DEF Decide
  <2>2. /\ lease' \in [Generation -> PresentationUplink]
        /\ UplinkIsBound' /\ \A x \in Generation : UplinkIsSound(x)'
    BY <1>1, <1>4, <1>7, <2>1, LetGoKeepsUplinks
  <2>3. UplinkStep
    BY <1>1, <1>4, <1>6, <2>1, <2>2 DEF UplinkStep, StreamTypeOK
  <2> QED
    BY <2>3, UplinkStepKeeps
<1> QED
  BY <1>8, <1>9

-----------------------------------------------------------------------------
(* A stream from its subscription to its end.                                *)

(* Subscribe: the snapshot of the commit that registers the stream is all     *)
(* there is on it, and the stream it replaces is unregistered.                *)
LEMMA SubscribeKeeps ==
  ASSUME PageInv, NEW s \in Stream, Subscribe(s)
  PROVE  PageInv'
<1> DEFINE r == committed + 1
           old == sub[s]
           first == [old EXCEPT !.last = r, !.handler = "serving"]
           closed == [x \in Stream |-> IF x \in Replaced(hub) THEN [sub[x] EXCEPT !.done = TRUE] ELSE sub[x]]
           subs == [closed EXCEPT ![s].last = r, ![s].handler = "serving"]
           h == Register(hub, s)
           u == Update("snapshot", r, cursor)
<1>0. BoundsAssumption
  BY BoundsAssumption
<1>1. /\ RegistrationsInv /\ UpdatesInv /\ StreamTypeOK /\ StreamIsServed /\ UplinkIsBound
      /\ PageIsSound
      /\ r \in Nat /\ committed \in Nat /\ committed < r /\ cursor \in Presentation
      /\ sub \in [Stream -> Subscription] /\ lease \in [Generation -> PresentationUplink]
      /\ calls \subseteq UnaryCall /\ changes \in Nat /\ hub \in HubType
      /\ down \in [Stream -> Seq(Sendable)]
      /\ \A x \in Generation : UplinkIsSound(x)
  BY DEF PageInv, RegistrationsInv, StreamTypeOK
<1>2. /\ sub[s].handler = "none" /\ page.stream = s /\ page.at = "subscribing"
      /\ Publish(h, subs, r, cursor)
      /\ down' = IF s \in cut THEN down ELSE [down EXCEPT ![s] = <<u>>]
      /\ lease' = LetGo(lease) /\ attached' = attached \cup {s}
      /\ UNCHANGED <<changes, cut, up, lost, page, calls>>
  BY Zenon DEF Subscribe
<1>3. s \notin hub.ids /\ hub.ids = {hub.tab} \ {0} /\ hub.tab \in {0} \cup Stream
  BY <1>1, <1>2 DEF StreamIsServed, HubType
<1>4. s \notin Replaced(hub)
  BY <1>0, <1>3 DEF Replaced
<1>5. /\ h \in HubType /\ h.ids = {s} /\ h.tab = s /\ h.uplink = 0
  BY <1>1, <1>3, RegisterType DEF UplinkIsBound
<1>6. StreamIsSound(s) /\ sub[s].updates = <<>> /\ down[s] = <<>>
  BY <1>1, <1>2 DEF UpdatesInv, StreamIsSound
<1>7. /\ closed \in [Stream -> Subscription] /\ closed[s] = sub[s]
      /\ \A x \in Stream : /\ closed[x].last = sub[x].last /\ closed[x].updates = sub[x].updates
                           /\ closed[x].handler = sub[x].handler
  <2>1. ASSUME NEW l \in Subscription
        PROVE  /\ [l EXCEPT !.done = TRUE] \in Subscription
               /\ [l EXCEPT !.done = TRUE].last = l.last
               /\ [l EXCEPT !.done = TRUE].updates = l.updates
               /\ [l EXCEPT !.done = TRUE].handler = l.handler
    BY DEF Subscription
  <2>2. closed \in [Stream -> Subscription]
    BY <1>1, <2>1
  <2>3. ASSUME NEW x \in Stream
        PROVE  /\ closed[x].last = sub[x].last /\ closed[x].updates = sub[x].updates
               /\ closed[x].handler = sub[x].handler
    <3>1. sub[x] \in Subscription
      BY <1>1
    <3>2. CASE x \in Replaced(hub)
      <4>1. closed[x] = [sub[x] EXCEPT !.done = TRUE]
        BY <3>2
      <4> HIDE DEF closed
      <4> QED
        BY <2>1, <3>1, <4>1, Zenon
    <3>3. CASE x \notin Replaced(hub)
      BY <3>3
    <3> QED
      BY <3>2, <3>3
  <2> QED
    BY <1>4, <2>2, <2>3
<1> HIDE DEF closed
<1>8. subs = [closed EXCEPT ![s] = first]
  BY <1>7
<1>9. old \in Subscription /\ old = sub[s]
  BY <1>1
<1> HIDE DEF r, old
<1>10. /\ first \in Subscription /\ first.last = r /\ first.handler = "serving"
       /\ first.updates = old.updates
  BY <1>1, <1>9, ZenonT(20) DEF Subscription, HandlerState
<1> HIDE DEF first
<1>11. /\ subs \in [Stream -> Subscription] /\ subs[s] = first
       /\ \A x \in Stream : x # s => subs[x] = closed[x]
  BY <1>7, <1>8, <1>10
<1> HIDE DEF subs, h
<1>12. /\ committed' = r /\ cursor' = cursor
       /\ hub' \in HubType /\ hub'.ids \subseteq {s}
       /\ hub'.ids = {hub'.tab} \ {0}
       /\ hub'.uplink = 0
       /\ sub' \in [Stream -> Subscription]
       /\ \A x \in Stream : sub'[x].handler = subs[x].handler
  <2>1. h.ids = {h.tab} \ {0}
    BY <1>0, <1>5 DEF Stream
  <2>2. r \in Nat /\ cursor \in Presentation /\ Publish(h, subs, r, cursor)
    BY <1>1, <1>2
  <2>3. /\ committed' = r /\ cursor' = cursor
        /\ hub' \in HubType /\ hub'.ids \subseteq h.ids
        /\ h.ids = {h.tab} \ {0} => hub'.ids = {hub'.tab} \ {0}
        /\ hub'.uplink # 0 => hub'.uplink = h.uplink /\ hub'.tab = h.tab
        /\ sub' \in [Stream -> Subscription]
        /\ \A x \in Stream : sub'[x].handler = subs[x].handler
    BY <1>5, <1>11, <2>2, PublishTypes
  <2> QED
    BY <1>5, <2>1, <2>3
<1>13. sub'[s].updates = <<>> /\ sub'[s].last = r /\ sub'[s].handler = "serving"
  <2>1. subs[s].last = r /\ subs[s].last <= r /\ subs[s].updates = <<>>
    BY <1>1, <1>6, <1>9, <1>10, <1>11
  <2>2. sub'[s].updates = subs[s].updates /\ sub'[s].last = subs[s].last
    BY <1>1, <1>2, <1>5, <1>11, <2>1, PublishQueues
  <2> QED
    BY <1>10, <1>11, <1>12, <2>1, <2>2
<1>14. ASSUME NEW x \in Stream, x # s PROVE StreamIsSound(x)'
  <2>1. StreamIsSound(x) /\ sub[x].last \in Nat
    BY <1>1 DEF UpdatesInv, Subscription
  <2>2. subs[x].last = sub[x].last /\ subs[x].updates = sub[x].updates /\ subs[x].handler = sub[x].handler
    BY <1>7, <1>11, <1>14
  <2>3. subs[x].last <= r
    BY <1>1, <2>1, <2>2 DEF StreamIsSound
  <2>4. sub'[x].updates = subs[x].updates /\ sub'[x].last = subs[x].last
    <3>1. r \in Nat /\ cursor \in Presentation /\ Publish(h, subs, r, cursor) /\ x \notin h.ids
      BY <1>1, <1>2, <1>5, <1>14
    <3> QED
      BY <1>5, <1>11, <2>3, <3>1, PublishQueues
  <2>5. x \notin hub'.ids /\ sub'[x].handler = sub[x].handler
    BY <1>12, <1>14, <2>2
  <2>6. down'[x] = down[x]
    BY <1>1, <1>2, <1>14
  <2>7. committed' \in Nat /\ committed <= committed' /\ page' = page /\ cut' = cut
    BY <1>1, <1>2, <1>12
  <2> QED
    BY <1>1, <2>1, <2>2, <2>4, <2>5, <2>6, <2>7, StreamIsLeft
<1>15. u \in Sendable /\ u.revision = r /\ u.cursor = cursor /\ Shows(u)
  BY <1>1, UpdateType DEF Sendable, Shows
<1> HIDE DEF u
<1>16. IF s \in cut THEN down'[s] = <<>> ELSE down'[s] = <<u>>
  BY <1>1, <1>2, <1>6
<1>17. StreamIsSound(s)'
  <2>1. DownOrdered(s)'
    <3>1. CASE s \in cut
      BY <1>16, <3>1 DEF DownOrdered
    <3>2. CASE s \notin cut
      <4>1. down'[s] = <<u>> /\ Len(sub'[s].updates) = 0
        BY <1>13, <1>16, <3>2
      <4>2. Len(down'[s]) = 1 /\ down'[s][1] = u
        BY <4>1
      <4> QED
        BY <1>1, <1>13, <1>15, <4>1, <4>2 DEF DownOrdered, Shows
    <3> QED
      BY <3>1, <3>2
  <2>2. QueueOrdered(s)' /\ ShownIsOlder(s)'
    BY <1>2, <1>13 DEF QueueOrdered, ShownIsOlder
  <2>3. s \notin cut => Carries(s)'
    <3>1. SUFFICES ASSUME s \notin cut PROVE Carries(s)'
      OBVIOUS
    <3>2. Len(down'[s]) = 1 /\ down'[s][1] = u /\ 1 \in 1 .. Len(down'[s])
      BY <1>16, <3>1
    <3> QED
      BY <1>12, <1>15, <3>2 DEF Carries, Current, Shows
  <2>4. s \notin cut => down'[s] # <<>> /\ Shows(down'[s][1])
    BY <1>15, <1>16
  <2>5. sub'[s].last <= committed' /\ sub'[s].last = committed'
    BY <1>1, <1>12, <1>13
  <2>6. page' = page /\ page.stream = s /\ s \in Nat /\ cut' = cut /\ sub'[s].handler # "none"
    BY <1>0, <1>2, <1>13 DEF Stream
  <2> QED
    BY <2>1, <2>2, <2>3, <2>4, <2>5, <2>6 DEF StreamIsSound, Shows
<1>18. UpdatesInv'
  BY <1>14, <1>17 DEF UpdatesInv
<1>19. /\ lease' \in [Generation -> PresentationUplink]
       /\ UplinkIsBound' /\ \A x \in Generation : UplinkIsSound(x)'
  <2>1. \A x \in Generation :
          /\ lease[x].worker \notin {"none", "ended"} => lease[x].stream # 0
          /\ lease[x].worker \in {"check", "dispatch", "publish"} => lease[x].intent \in Sent
          /\ lease[x].worker = "publish" => lease[x].result \in Answer
    BY <1>1 DEF UplinkIsSound
  <2> QED
    BY <1>1, <1>2, <1>12, <2>1, LetGoKeepsUplinks
<1>20. StreamIsServed'
  <2>1. ASSUME NEW x \in attached' PROVE sub'[x].handler \in {"serving", "detaching"}
    <3>1. CASE x = s
      BY <1>13, <3>1
    <3>2. CASE x # s
      <4>1. x \in attached /\ x \in Stream
        BY <1>1, <1>2, <3>2 DEF StreamTypeOK
      <4>2. sub'[x].handler = sub[x].handler
        BY <1>7, <1>11, <1>12, <3>2, <4>1
      <4> QED
        BY <1>1, <4>1, <4>2 DEF StreamIsServed
    <3> QED
      BY <3>1, <3>2
  <2> QED
    BY <1>2, <1>12, <1>13, <2>1 DEF StreamIsServed
<1>21. StreamTypeOK'
  <2>1. <<u>> \in Seq(Sendable)
    BY <1>15
  <2>2. down' \in [Stream -> Seq(Sendable)]
    BY <1>1, <1>2, <2>1
  <2> QED
    BY <1>1, <1>2, <1>12, <1>19, <2>2 DEF StreamTypeOK
<1>22. PageIsSound'
  BY <1>1, <1>2 DEF PageIsSound
<1> QED
  BY <1>18, <1>19, <1>20, <1>21, <1>22 DEF PageInv, RegistrationsInv

(* Deliver: the oldest update of the queue goes out, then the answer.         *)
LEMMA DeliverKeeps ==
  ASSUME PageInv, NEW s \in Stream, Deliver(s)
  PROVE  PageInv'
<1> DEFINE old == sub[s]
           queue == old.updates
           queue2 == IF queue = <<>> THEN queue ELSE Tail(queue)
           moved == IF queue = <<>> THEN <<>> ELSE <<Head(queue)>>
           answer == Targeted(s)
           before == down[s]
           after == before \o moved \o answer
           new == [old EXCEPT !.updates = queue2, !.targeted = NoUpdate]
<1>1. /\ RegistrationsInv /\ UpdatesInv /\ StreamTypeOK /\ StreamIsServed /\ UplinkIsBound
      /\ PageIsSound /\ sub \in [Stream -> Subscription] /\ old = sub[s]
      /\ old \in Subscription /\ down \in [Stream -> Seq(Sendable)]
      /\ \A x \in Generation : UplinkIsSound(x)
  BY DEF PageInv, RegistrationsInv, StreamTypeOK
<1>2. /\ sub[s].handler = "serving"
      /\ down' = [down EXCEPT ![s] = after]
      /\ sub' = [sub EXCEPT ![s].updates = IF @ = <<>> THEN @ ELSE Tail(@), ![s].targeted = NoUpdate]
      /\ UNCHANGED <<committed, cursor, changes, attached, hub, lease, cut, up, lost, page, calls>>
  BY DEF Deliver
<1>3. sub' = [sub EXCEPT ![s] = new]
  BY <1>1, <1>2
<1>4. /\ queue \in Seq(QueuedUpdate) /\ queue2 \in Seq(QueuedUpdate)
      /\ moved \in Seq(Sendable) /\ Len(moved) \in {0, 1}
      /\ queue = <<>> => Len(moved) = 0 /\ queue2 = <<>>
      /\ queue # <<>> => /\ Len(moved) = 1 /\ moved[1] = queue[1] /\ Len(queue2) = Len(queue) - 1
                         /\ Len(queue) > 0
                         /\ \A i \in 1 .. Len(queue2) : queue2[i] = queue[i + 1]
  <2>1. queue \in Seq(QueuedUpdate)
    BY <1>1 DEF Subscription
  <2> HIDE DEF queue
  <2>2. queue2 \in Seq(QueuedUpdate)
    BY <2>1
  <2>3. CASE queue = <<>>
    BY <2>1, <2>2, <2>3
  <2>4. CASE queue # <<>>
    <3>1. Head(queue) \in QueuedUpdate /\ Head(queue) = queue[1]
      BY <2>1, <2>4
    <3>2. QueuedUpdate \subseteq Sendable
      BY DEF QueuedUpdate, Sendable
    <3>3. moved \in Seq(Sendable) /\ Len(moved) = 1 /\ moved[1] = queue[1]
      BY <2>4, <3>1, <3>2
    <3>4. /\ Len(queue2) = Len(queue) - 1 /\ Len(queue) > 0
          /\ \A i \in 1 .. Len(queue2) : queue2[i] = queue[i + 1]
      BY <2>1, <2>4
    <3> QED
      BY <2>1, <2>2, <2>4, <3>3, <3>4
  <2> QED
    BY <2>3, <2>4
<1>5. answer \in Seq(Sendable) /\ Len(answer) \in {0, 1} /\ (Len(answer) = 1 => ~Shows(answer[1]))
  <2>1. CASE sub[s].targeted = NoUpdate
    BY <2>1 DEF Targeted
  <2>2. CASE sub[s].targeted # NoUpdate
    <3> DEFINE m == sub[s].targeted
    <3>1. m \in Answer
      BY <1>1, <2>2 DEF Subscription
    <3>2. answer = <<m>>
      BY <2>2 DEF Targeted
    <3> HIDE DEF m
    <3>3. m \in Sendable /\ ~Shows(m)
      <4>1. m \in Message /\ m.kind \in {"ready", "action"} /\ (m.kind = "ready" => m.generation # 0)
        BY <3>1 DEF Answer
      <4>2. m.kind # "none" /\ m.kind \notin {"snapshot", "update"}
        BY <4>1
      <4> QED
        BY <4>1, <4>2 DEF Sendable, Shows
    <3> QED
      BY <3>2, <3>3
  <2> QED
    BY <2>1, <2>2
<1>6. before \in Seq(Sendable)
  BY <1>1
<1>7. queue = old.updates /\ before = down[s]
  OBVIOUS
<1> HIDE DEF queue, queue2, moved, answer, before
<1>8. /\ after \in Seq(Sendable) /\ Len(after) = Len(before) + Len(moved) + Len(answer)
      /\ Len(before) \in Nat
      /\ \A i \in 1 .. Len(before) : after[i] = before[i]
      /\ Len(moved) = 1 => after[Len(before) + 1] = moved[1]
      /\ Len(answer) = 1 => after[Len(before) + Len(moved) + 1] = answer[1]
  BY <1>4, <1>5, <1>6
<1> HIDE DEF after
<1>9. \A i \in 1 .. Len(after) :
        \/ i \in 1 .. Len(before) /\ after[i] = before[i]
        \/ queue # <<>> /\ i = Len(before) + 1 /\ after[i] = queue[1]
        \/ ~Shows(after[i])
  <2>1. ASSUME NEW i \in 1 .. Len(after)
        PROVE  \/ i \in 1 .. Len(before) /\ after[i] = before[i]
               \/ queue # <<>> /\ i = Len(before) + 1 /\ after[i] = queue[1]
               \/ ~Shows(after[i])
    <3>1. \/ i \in 1 .. Len(before)
          \/ Len(moved) = 1 /\ i = Len(before) + 1
          \/ Len(answer) = 1 /\ i = Len(before) + Len(moved) + 1
      <4> DEFINE b == Len(before)
                 m == Len(moved)
                 a == Len(answer)
                 n == Len(after)
      <4>1. b \in Nat /\ m \in {0, 1} /\ a \in {0, 1} /\ n = b + m + a
        BY <1>4, <1>5, <1>8
      <4>2. i \in 1 .. n
        OBVIOUS
      <4> HIDE DEF b, m, a, n
      <4>3. \/ i \in 1 .. b
            \/ m = 1 /\ i = b + 1
            \/ a = 1 /\ i = b + m + 1
        BY <4>1, <4>2
      <4> QED
        BY <4>3 DEF b, m, a
    <3>2. CASE i \in 1 .. Len(before)
      BY <1>8, <3>2
    <3>3. CASE Len(moved) = 1 /\ i = Len(before) + 1
      <4>1. queue # <<>>
        BY <1>4, <3>3
      <4> QED
        BY <1>4, <1>8, <3>3, <4>1
    <3>4. CASE Len(answer) = 1 /\ i = Len(before) + Len(moved) + 1
      BY <1>5, <1>8, <3>4
    <3> QED
      BY <3>1, <3>2, <3>3, <3>4
  <2> QED
    BY <2>1
<1> HIDE DEF old
<1>10. /\ new \in Subscription /\ new.updates = queue2 /\ new.last = old.last
       /\ new.handler = old.handler
  BY <1>1, <1>4, ZenonT(20) DEF Subscription
<1> HIDE DEF new
<1>11. /\ sub' \in [Stream -> Subscription] /\ sub'[s] = new
       /\ \A x \in Stream : x # s => sub'[x] = sub[x]
       /\ down' \in [Stream -> Seq(Sendable)] /\ down'[s] = after
       /\ \A x \in Stream : x # s => down'[x] = down[x]
  BY <1>1, <1>2, <1>3, <1>8, <1>10
<1>12. ASSUME NEW x \in Stream, x # s PROVE StreamIsSound(x)'
  <2>1. StreamIsSound(x)
    BY <1>1 DEF UpdatesInv
  <2> QED
    BY <1>2, <1>11, <1>12, <2>1, StreamStays
<1>13. /\ StreamIsSound(s) /\ old.last \in Nat
       /\ \A i \in 1 .. Len(queue) : queue[i].revision \in Nat
       /\ \A i \in 1 .. Len(before) : before[i].revision \in Nat
       /\ \A i \in 1 .. Len(queue) : Shows(queue[i])
  <2>1. StreamIsSound(s) /\ old.last \in Nat
    BY <1>1 DEF UpdatesInv, Subscription
  <2>2. \A i \in 1 .. Len(queue) : queue[i] \in QueuedUpdate
    BY <1>4
  <2>3. \A i \in 1 .. Len(before) : before[i] \in Sendable
    BY <1>6
  <2> QED
    BY <2>1, <2>2, <2>3 DEF QueuedUpdate, Sendable, Message, Shows
<1>14. /\ \A i \in 1 .. Len(before) : Shows(before[i]) =>
            /\ before[i].revision <= old.last
            /\ \A j \in 1 .. Len(before) :
                 j > i /\ Shows(before[j]) => before[i].revision < before[j].revision
            /\ \A j \in 1 .. Len(queue) : before[i].revision < queue[j].revision
       /\ \A i \in 1 .. Len(queue) :
            /\ queue[i].revision <= old.last
            /\ \A j \in 1 .. Len(queue) : j > i => queue[i].revision < queue[j].revision
  BY <1>1, <1>7, <1>13 DEF StreamIsSound, DownOrdered, QueueOrdered
<1>15. \A j \in 1 .. Len(queue2) : /\ j + 1 \in 1 .. Len(queue) /\ queue2[j] = queue[j + 1]
                                   /\ queue # <<>> /\ 1 \in 1 .. Len(queue) /\ j + 1 > 1
  BY <1>4
<1>16. QueueOrdered(s)'
  <2>1. ASSUME NEW i \in 1 .. Len(queue2)
        PROVE  /\ queue2[i].revision <= old.last
               /\ \A j \in 1 .. Len(queue2) : j > i => queue2[i].revision < queue2[j].revision
    <3>1. queue2[i].revision <= old.last
      BY <1>14, <1>15
    <3>2. ASSUME NEW j \in 1 .. Len(queue2), j > i PROVE queue2[i].revision < queue2[j].revision
      <4>1. j + 1 > i + 1
        BY <3>2
      <4> QED
        BY <1>14, <1>15, <4>1
    <3> QED
      BY <3>1, <3>2
  <2> QED
    BY <1>10, <1>11, <2>1 DEF QueueOrdered
<1>17. DownOrdered(s)'
  <2>1. ASSUME NEW i \in 1 .. Len(after), Shows(after[i])
        PROVE  /\ after[i].revision <= old.last
               /\ \A j \in 1 .. Len(after) :
                    j > i /\ Shows(after[j]) => after[i].revision < after[j].revision
               /\ \A j \in 1 .. Len(queue2) : after[i].revision < queue2[j].revision
    <3>1. CASE i \in 1 .. Len(before) /\ after[i] = before[i]
      <4>1. after[i].revision <= old.last
        BY <1>14, <2>1, <3>1
      <4>2. ASSUME NEW j \in 1 .. Len(after), j > i, Shows(after[j])
            PROVE  after[i].revision < after[j].revision
        <5>1. CASE j \in 1 .. Len(before) /\ after[j] = before[j]
          BY <1>14, <2>1, <3>1, <4>2, <5>1
        <5>2. CASE queue # <<>> /\ j = Len(before) + 1 /\ after[j] = queue[1]
          <6>1. 1 \in 1 .. Len(queue)
            BY <1>4, <5>2
          <6> QED
            BY <1>14, <2>1, <3>1, <5>2, <6>1
        <5> QED
          BY <1>9, <4>2, <5>1, <5>2
      <4>3. ASSUME NEW j \in 1 .. Len(queue2) PROVE after[i].revision < queue2[j].revision
        BY <1>14, <1>15, <2>1, <3>1
      <4> QED
        BY <4>1, <4>2, <4>3
    <3>2. CASE queue # <<>> /\ i = Len(before) + 1 /\ after[i] = queue[1]
      <4>0. 1 \in 1 .. Len(queue)
        BY <1>4, <3>2
      <4>1. after[i].revision <= old.last
        BY <1>14, <3>2, <4>0
      <4>2. ASSUME NEW j \in 1 .. Len(after), j > i PROVE ~Shows(after[j])
        BY <1>8, <1>9, <3>2, <4>2
      <4>3. ASSUME NEW j \in 1 .. Len(queue2) PROVE after[i].revision < queue2[j].revision
        BY <1>14, <1>15, <3>2, <4>0
      <4> QED
        BY <4>1, <4>2, <4>3
    <3> QED
      BY <1>9, <2>1, <3>1, <3>2
  <2> QED
    BY <1>10, <1>11, <2>1 DEF DownOrdered, Shows
<1>18. ShownIsOlder(s)'
  <2>1. SUFFICES ASSUME page.at = "live", page.stream = s
                 PROVE  /\ page.shown.revision <= old.last
                        /\ \A i \in 1 .. Len(after) :
                             Shows(after[i]) => page.shown.revision < after[i].revision
                        /\ \A i \in 1 .. Len(queue2) : page.shown.revision < queue2[i].revision
    BY <1>2, <1>10, <1>11 DEF ShownIsOlder, Shows
  <2>2. /\ page.shown.revision <= old.last
        /\ \A i \in 1 .. Len(before) :
             Shows(before[i]) => page.shown.revision < before[i].revision
        /\ \A i \in 1 .. Len(queue) : page.shown.revision < queue[i].revision
    BY <1>1, <1>7, <1>13, <2>1 DEF StreamIsSound, ShownIsOlder
  <2>3. ASSUME NEW i \in 1 .. Len(after), Shows(after[i])
        PROVE  page.shown.revision < after[i].revision
    <3>1. CASE i \in 1 .. Len(before) /\ after[i] = before[i]
      BY <2>2, <2>3, <3>1
    <3>2. CASE queue # <<>> /\ i = Len(before) + 1 /\ after[i] = queue[1]
      <4>1. 1 \in 1 .. Len(queue)
        BY <1>4, <3>2
      <4> QED
        BY <2>2, <3>2, <4>1
    <3> QED
      BY <1>9, <2>3, <3>1, <3>2
  <2>4. ASSUME NEW i \in 1 .. Len(queue2) PROVE page.shown.revision < queue2[i].revision
    BY <1>15, <2>2
  <2> QED
    BY <2>2, <2>3, <2>4
<1>19. Carries(s) => Carries(s)'
  <2>1. CASE \E i \in 1 .. Len(before) : Shows(before[i]) /\ Current(before[i])
    <3>1. PICK i \in 1 .. Len(before) : Shows(before[i]) /\ Current(before[i])
      BY <2>1
    <3>2. i \in 1 .. Len(after) /\ after[i] = before[i]
      BY <1>4, <1>5, <1>8
    <3> QED
      BY <1>2, <1>11, <3>1, <3>2 DEF Carries, Current, Shows
  <2>2. CASE \E i \in 1 .. Len(queue) : Current(queue[i])
    <3>1. PICK i \in 1 .. Len(queue) : Current(queue[i])
      BY <2>2
    <3>2. CASE i = 1
      <4>1. /\ Len(before) + 1 \in 1 .. Len(after) /\ after[Len(before) + 1] = queue[1]
            /\ Shows(queue[1])
        BY <1>4, <1>5, <1>8, <1>13, <3>2
      <4> QED
        BY <1>2, <1>11, <3>1, <3>2, <4>1 DEF Carries, Current, Shows
    <3>3. CASE i # 1
      <4>1. i - 1 \in 1 .. Len(queue2) /\ queue2[i - 1] = queue[i]
        BY <1>4, <3>3
      <4> QED
        BY <1>2, <1>10, <1>11, <3>1, <4>1 DEF Carries, Current
    <3> QED
      BY <3>2, <3>3
  <2>3. CASE page.at = "live" /\ Current(page.shown)
    BY <1>2, <2>3 DEF Carries, Current
  <2> QED
    BY <1>1, <1>7, <2>1, <2>2, <2>3 DEF Carries
<1>20. StreamIsSound(s)'
  <2>1. /\ sub'[s].last <= committed'
        /\ s \in hub'.ids => sub'[s].last = committed'
        /\ sub'[s].handler # "none"
        /\ page'.stream < s => sub'[s].handler = "none"
    BY <1>1, <1>2, <1>10, <1>11, <1>13 DEF StreamIsSound
  <2>2. page'.at = "subscribing" /\ page'.stream = s /\ sub'[s].handler # "none" /\ s \notin cut' =>
          down'[s] # <<>> /\ Shows(down'[s][1])
    <3>1. SUFFICES ASSUME page.at = "subscribing", page.stream = s, s \notin cut
                   PROVE  after # <<>> /\ Shows(after[1])
      BY <1>2, <1>11 DEF Shows
    <3>2. before # <<>> /\ Shows(before[1])
      BY <1>2, <1>7, <1>13, <3>1 DEF StreamIsSound
    <3>3. 1 \in 1 .. Len(before) /\ 1 \in 1 .. Len(after)
      BY <1>4, <1>5, <1>6, <1>8, <3>2
    <3> QED
      BY <1>8, <3>2, <3>3
  <2> QED
    BY <1>2, <1>13, <1>16, <1>17, <1>18, <1>19, <2>1, <2>2 DEF StreamIsSound, Shows
<1>21. RegistrationsInv'
  <2>1. StreamTypeOK'
    BY <1>1, <1>2, <1>11 DEF StreamTypeOK
  <2>2. \A x \in Stream : sub'[x].handler = sub[x].handler
    BY <1>1, <1>10, <1>11
  <2>3. StreamIsServed'
    BY <1>1, <1>2, <2>2 DEF StreamIsServed, StreamTypeOK, HubType
  <2>4. UplinkIsBound' /\ PageIsSound' /\ \A x \in Generation : UplinkIsSound(x)'
    BY <1>1, <1>2 DEF UplinkIsBound, PageIsSound, UplinkIsSound
  <2> QED
    BY <2>1, <2>3, <2>4 DEF RegistrationsInv
<1> QED
  BY <1>12, <1>20, <1>21 DEF PageInv, UpdatesInv

(* SubscribeEnds: the stream is unregistered and what it queued is dropped. *)
LEMMA SubscribeEndsKeeps ==
  ASSUME PageInv, NEW s \in Stream, SubscribeEnds(s)
  PROVE  PageInv'
<1> DEFINE old == sub[s]
           new == [old EXCEPT !.handler = "detaching", !.done = TRUE, !.updates = <<>>,
                              !.targeted = NoUpdate]
<1>1. /\ RegistrationsInv /\ UpdatesInv /\ StreamTypeOK /\ StreamIsServed /\ UplinkIsBound
      /\ PageIsSound /\ sub \in [Stream -> Subscription] /\ old \in Subscription /\ old = sub[s]
      /\ lease \in [Generation -> PresentationUplink] /\ hub \in HubType
      /\ \A x \in Generation : UplinkIsSound(x)
  BY DEF PageInv, RegistrationsInv, StreamTypeOK
<1>2. /\ sub[s].handler = "serving"
      /\ hub' = IF s \in hub.ids THEN RemoveLocked(hub, {s}) ELSE hub
      /\ sub' = [sub EXCEPT ![s].handler = "detaching", ![s].done = TRUE, ![s].updates = <<>>,
                            ![s].targeted = NoUpdate]
      /\ lease' = LetGo(lease)
      /\ UNCHANGED <<committed, cursor, changes, attached, down, cut, up, lost, page, calls>>
  BY DEF SubscribeEnds
<1>3. sub' = [sub EXCEPT ![s] = new]
  BY <1>1, <1>2
<1> HIDE DEF old
<1>4. /\ new \in Subscription /\ new.updates = <<>> /\ new.last = old.last
      /\ new.handler = "detaching"
  <2>1. <<>> \in Seq(QueuedUpdate)
    OBVIOUS
  <2> QED
    BY <1>1, <2>1, ZenonT(20) DEF Subscription, HandlerState
<1> HIDE DEF new
<1>5. /\ sub' \in [Stream -> Subscription] /\ sub'[s] = new
      /\ \A x \in Stream : x # s => sub'[x] = sub[x]
  BY <1>1, <1>3, <1>4
<1>6. /\ hub' \in HubType /\ hub'.ids = hub.ids \ {s} /\ hub'.ids = {hub'.tab} \ {0}
      /\ hub'.uplink # 0 => hub'.uplink = hub.uplink /\ hub'.tab = hub.tab
  <2>1. CASE s \in hub.ids
    <3> DEFINE left == RemoveLocked(hub, {s})
    <3>1. /\ left \in HubType /\ left.ids = hub.ids \ {s}
          /\ hub.ids = {hub.tab} \ {0} => left.ids = {left.tab} \ {0}
          /\ left.uplink # 0 => left.uplink = hub.uplink /\ left.tab = hub.tab
      BY <1>1, RemoveLockedType
    <3>2. hub' = left
      BY <1>2, <2>1
    <3> HIDE DEF left
    <3> QED
      BY <1>1, <3>1, <3>2 DEF StreamIsServed
  <2>2. CASE s \notin hub.ids
    BY <1>1, <1>2, <2>2 DEF StreamIsServed
  <2> QED
    BY <2>1, <2>2
<1>7. ASSUME NEW x \in Stream, x # s PROVE StreamIsSound(x)'
  <2>1. StreamIsSound(x)
    BY <1>1 DEF UpdatesInv
  <2> QED
    BY <1>2, <1>5, <1>6, <1>7, <2>1, StreamStays
<1>8. StreamIsSound(s)'
  <2>1. StreamIsSound(s)
    BY <1>1 DEF UpdatesInv
  <2>2. sub'[s].updates = <<>> /\ sub'[s].last = sub[s].last /\ sub'[s].handler = "detaching"
    BY <1>1, <1>4, <1>5
  <2>3. Len(sub'[s].updates) = 0 /\ s \notin hub'.ids
    BY <1>6, <2>2
  <2>4. DownOrdered(s)'
    <3>1. DownOrdered(s)
      BY <2>1 DEF StreamIsSound
    <3>2. down' = down /\ \A j \in 1 .. Len(sub'[s].updates) : FALSE
      BY <1>2, <2>3
    <3> QED
      BY <2>2, <3>1, <3>2 DEF DownOrdered, Shows
  <2>5. QueueOrdered(s)'
    BY <2>3 DEF QueueOrdered
  <2>6. ShownIsOlder(s)'
    <3>1. ShownIsOlder(s)
      BY <2>1 DEF StreamIsSound
    <3>2. down' = down /\ page' = page /\ \A j \in 1 .. Len(sub'[s].updates) : FALSE
      BY <1>2, <2>3
    <3> QED
      BY <2>2, <3>1, <3>2 DEF ShownIsOlder, Shows
  <2>7. /\ sub'[s].last <= committed' /\ sub'[s].handler # "none"
        /\ page'.stream < s => sub'[s].handler = "none"
        /\ page'.at = "subscribing" /\ page'.stream = s /\ sub'[s].handler # "none" /\ s \notin cut' =>
             down'[s] # <<>> /\ Shows(down'[s][1])
    BY <1>2, <2>1, <2>2 DEF StreamIsSound, Shows
  <2> QED
    BY <2>3, <2>4, <2>5, <2>6, <2>7 DEF StreamIsSound, Shows
<1>9. /\ lease' \in [Generation -> PresentationUplink]
      /\ UplinkIsBound' /\ \A x \in Generation : UplinkIsSound(x)'
  <2>1. \A x \in Generation :
          /\ lease[x].worker \notin {"none", "ended"} => lease[x].stream # 0
          /\ lease[x].worker \in {"check", "dispatch", "publish"} => lease[x].intent \in Sent
          /\ lease[x].worker = "publish" => lease[x].result \in Answer
    BY <1>1 DEF UplinkIsSound
  <2> QED
    BY <1>1, <1>2, <1>6, <2>1, LetGoKeepsUplinks
<1>10. StreamIsServed'
  <2>1. /\ attached \subseteq Stream /\ hub.ids \subseteq Stream /\ attached' = attached
        /\ sub'[s].handler = "detaching"
    BY <1>1, <1>2, <1>4, <1>5 DEF StreamTypeOK, HubType
  <2>2. ASSUME NEW x \in hub'.ids PROVE sub'[x].handler = "serving" /\ x \in attached'
    BY <1>1, <1>5, <1>6, <2>1, <2>2 DEF StreamIsServed
  <2>3. ASSUME NEW x \in attached' PROVE sub'[x].handler \in {"serving", "detaching"}
    BY <1>1, <1>5, <2>1, <2>3 DEF StreamIsServed
  <2> QED
    BY <1>6, <2>2, <2>3 DEF StreamIsServed
<1>11. StreamTypeOK' /\ PageIsSound'
  BY <1>1, <1>2, <1>5, <1>6, <1>9 DEF StreamTypeOK, PageIsSound
<1> QED
  BY <1>7, <1>8, <1>9, <1>10, <1>11 DEF PageInv, RegistrationsInv, UpdatesInv

(* A cut stream carries nothing, and what it queues is not promised to arrive. *)
LEMMA StreamIsCut ==
  ASSUME NEW s \in Stream, StreamIsSound(s), s \in cut', down'[s] = <<>>,
         committed' = committed, hub' = hub, sub' = sub,
         page' = page \/ (page'.at = "subscribing" /\ page'.stream > page.stream /\ page'.stream \in Nat
                          /\ page.stream \in Nat /\ s \in Nat)
  PROVE  StreamIsSound(s)'
<1>1. Len(down'[s]) = 0
  OBVIOUS
<1>2. DownOrdered(s)'
  BY <1>1 DEF DownOrdered
<1>3. QueueOrdered(s)'
  BY DEF StreamIsSound, QueueOrdered
<1>4. ShownIsOlder(s)'
  BY <1>1 DEF StreamIsSound, ShownIsOlder
<1>5. /\ sub'[s].last <= committed'
      /\ s \in hub'.ids => sub'[s].last = committed'
      /\ sub'[s].handler = "none" => sub'[s].updates = <<>> /\ down'[s] = <<>>
      /\ page'.stream < s => sub'[s].handler = "none"
  BY DEF StreamIsSound
<1> QED
  BY <1>2, <1>3, <1>4, <1>5 DEF StreamIsSound

(* The server's side is left alone, with all its registrations. *)
LEMMA ServerIsLeft ==
  ASSUME RegistrationsInv, UNCHANGED <<server, up, lost, calls>>, cut' \subseteq Stream,
         down' \in [Stream -> Seq(Sendable)], page' \in Page, page'.generations = page.generations,
         PageIsSound'
  PROVE  RegistrationsInv'
<1>1. StreamTypeOK'
  BY DEF RegistrationsInv, StreamTypeOK, server
<1>2. /\ StreamIsServed' /\ UplinkIsBound' /\ \A g \in Generation : UplinkIsSound(g)'
  BY DEF RegistrationsInv, StreamIsServed, UplinkIsBound, UplinkIsSound, server
<1> QED
  BY <1>1, <1>2 DEF RegistrationsInv

LEMMA BreakKeeps ==
  ASSUME PageInv, NEW s \in Stream, Break(s)
  PROVE  PageInv'
<1>1. /\ RegistrationsInv /\ UpdatesInv /\ StreamTypeOK /\ PageIsSound
      /\ down \in [Stream -> Seq(Sendable)] /\ page \in Page /\ cut \subseteq Stream
  BY DEF PageInv, RegistrationsInv, StreamTypeOK
<1>2. /\ cut' = cut \cup {s} /\ down' = [x \in Stream |-> IF x \in {s} THEN <<>> ELSE down[x]]
      /\ UNCHANGED <<server, up, lost, page, calls>>
  BY DEF Break, CutStreams
<1>3. down' \in [Stream -> Seq(Sendable)] /\ cut' \subseteq Stream
  BY <1>1, <1>2
<1>4. PageIsSound'
  BY <1>1, <1>2 DEF PageIsSound
<1>5. RegistrationsInv'
  BY <1>1, <1>2, <1>3, <1>4, ServerIsLeft DEF Page
<1>6. ASSUME NEW x \in Stream PROVE StreamIsSound(x)'
  <2>1. StreamIsSound(x) /\ committed' = committed /\ cursor' = cursor /\ hub' = hub /\ sub' = sub
    BY <1>1, <1>2 DEF UpdatesInv, server
  <2>2. CASE x = s
    BY <1>2, <2>1, <2>2, StreamIsCut
  <2>3. CASE x # s
    BY <1>2, <2>1, <2>3, StreamStays
  <2> QED
    BY <2>2, <2>3
<1> QED
  BY <1>5, <1>6 DEF PageInv, UpdatesInv

LEMMA ContextEndsKeeps ==
  ASSUME PageInv, NEW s \in Stream, ContextEnds(s)
  PROVE  PageInv'
<1> DEFINE old == sub[s]
           new == [old EXCEPT !.done = TRUE]
<1>1. /\ RegistrationsInv /\ StreamTypeOK /\ UplinkIsBound /\ old = sub[s]
      /\ sub \in [Stream -> Subscription] /\ old \in Subscription
      /\ \A x \in Generation : UplinkIsSound(x)
  BY DEF PageInv, RegistrationsInv, StreamTypeOK
<1>2. /\ sub' = [sub EXCEPT ![s] = new]
      /\ UNCHANGED <<committed, cursor, changes, attached, hub, lease, down, cut, up, lost, page, calls>>
  BY <1>1 DEF ContextEnds
<1> HIDE DEF old
<1>3. /\ new \in Subscription /\ new.updates = old.updates /\ new.last = old.last
      /\ new.handler = old.handler
  BY <1>1 DEF Subscription
<1> HIDE DEF new
<1>4. /\ sub' \in [Stream -> Subscription]
      /\ \A x \in Stream : /\ sub'[x].last = sub[x].last /\ sub'[x].updates = sub[x].updates
                           /\ sub'[x].handler = sub[x].handler
  BY <1>1, <1>2, <1>3
<1>5. UplinkIsBound' /\ \A x \in Generation : UplinkIsSound(x)'
  BY <1>1, <1>2 DEF UplinkIsBound, UplinkIsSound
<1>6. UplinkStep
  BY <1>1, <1>2, <1>4, <1>5 DEF UplinkStep, StreamTypeOK
<1> QED
  BY <1>6, UplinkStepKeeps

(* Connect: the page gives its stream up and asks for the next one. *)
LEMMA ConnectKeeps ==
  ASSUME PageInv, Connect
  PROVE  PageInv'
<1> DEFINE t == page.stream + 1
<1>0. BoundsAssumption
  BY BoundsAssumption
<1>1. /\ RegistrationsInv /\ UpdatesInv /\ StreamTypeOK /\ PageIsSound /\ StreamIsServed
      /\ down \in [Stream -> Seq(Sendable)] /\ page \in Page /\ cut \subseteq Stream
      /\ page.stream \in {0} \cup Stream /\ hub.ids \subseteq Stream
  BY DEF PageInv, RegistrationsInv, StreamTypeOK, Page, HubType
<1>2. /\ page.at = "waiting" /\ ~LastStream
      /\ page' = [page EXCEPT !.at = "subscribing", !.stream = t]
      /\ cut' = cut \cup ({page.stream} \ {0})
      /\ down' = [s \in Stream |-> IF s \in {page.stream} \ {0} THEN <<>> ELSE down[s]]
      /\ UNCHANGED <<server, up, lost, calls>>
  BY DEF Connect, CutStreams
<1>3. t \in Stream /\ page.stream \in Nat /\ t = page.stream + 1
  BY <1>0, <1>1, <1>2 DEF LastStream, Stream
<1> HIDE DEF t
<1>4. /\ page' \in Page /\ page'.at = "subscribing" /\ page'.stream = t /\ page'.shown = page.shown
      /\ page'.generations = page.generations /\ page'.ready = page.ready /\ page'.uplink = page.uplink
  BY <1>1, <1>2, <1>3, ZenonT(20) DEF Page
<1>5. down' \in [Stream -> Seq(Sendable)] /\ cut' \subseteq Stream
  BY <1>1, <1>2
<1>6. PageIsSound'
  BY <1>0, <1>1, <1>3, <1>4 DEF PageIsSound, Stream
<1>7. RegistrationsInv'
  BY <1>1, <1>2, <1>4, <1>5, <1>6, ServerIsLeft
<1>8. ASSUME NEW s \in Stream PROVE StreamIsSound(s)'
  <2>1. /\ StreamIsSound(s) /\ committed' = committed /\ cursor' = cursor /\ hub' = hub /\ sub' = sub
        /\ s \in Nat /\ s # 0
    BY <1>0, <1>1, <1>2 DEF UpdatesInv, server, Stream
  <2>2. CASE s = page.stream
    <3>1. down'[s] = <<>> /\ s \in cut'
      BY <1>2, <2>1, <2>2
    <3> QED
      BY <1>1, <1>3, <1>4, <2>1, <2>2, <3>1, StreamIsCut
  <2>3. CASE s # page.stream
    <3>1. down'[s] = down[s]
      BY <1>2, <2>3
    <3>2. sub[s].handler = "none" => s \notin hub.ids
      BY <1>1 DEF StreamIsServed
    <3>3. page.stream < s => sub[s].handler = "none"
      BY <2>1 DEF StreamIsSound
    <3>4. page'.stream < s => sub'[s].handler = "none"
      BY <1>3, <1>4, <2>1, <3>3
    <3>5. page'.stream = s => sub'[s].handler = "none" /\ s \notin hub'.ids
      BY <1>3, <1>4, <2>1, <3>2, <3>3
    <3>6. DownOrdered(s)' /\ QueueOrdered(s)' /\ ShownIsOlder(s)'
      BY <1>4, <2>1, <3>1 DEF StreamIsSound, DownOrdered, QueueOrdered, ShownIsOlder, Shows
    <3>7. /\ sub'[s].last <= committed'
          /\ s \in hub'.ids => sub'[s].last = committed'
          /\ sub'[s].handler = "none" => sub'[s].updates = <<>> /\ down'[s] = <<>>
      BY <2>1, <3>1 DEF StreamIsSound
    <3> QED
      BY <3>4, <3>5, <3>6, <3>7 DEF StreamIsSound
  <2> QED
    BY <2>2, <2>3
<1> QED
  BY <1>7, <1>8 DEF PageInv, UpdatesInv

-----------------------------------------------------------------------------
(* The page's steps.                                                         *)

(* The page chooses, gives an uplink up or takes the answer of a call: what    *)
(* it shows stays, and so does all the server holds.                          *)
LEMMA PageStepKeeps ==
  ASSUME PageInv, UNCHANGED <<server, down, cut>>, page' \in Page,
         page'.at = page.at, page'.stream = page.stream, page'.shown = page.shown,
         page'.generations = page.generations, page'.ready => page'.uplink # 0,
         up' \in [Generation -> Seq(Sent)], calls' \subseteq UnaryCall, lost' \subseteq Generation
  PROVE  PageInv'
<1>1. RegistrationsInv /\ UpdatesInv /\ StreamTypeOK
  BY DEF PageInv, RegistrationsInv
<1>2. StreamTypeOK'
  BY <1>1 DEF StreamTypeOK, server
<1>3. /\ StreamIsServed' /\ UplinkIsBound' /\ \A g \in Generation : UplinkIsSound(g)'
  BY <1>1 DEF RegistrationsInv, StreamIsServed, UplinkIsBound, UplinkIsSound, server
<1>4. PageIsSound'
  BY <1>1 DEF RegistrationsInv, PageIsSound
<1>5. ASSUME NEW s \in Stream PROVE StreamIsSound(s)'
  <2>1. StreamIsSound(s) /\ committed' = committed /\ cursor' = cursor /\ hub' = hub /\ sub' = sub
    BY <1>1 DEF UpdatesInv, server
  <2> QED
    BY <2>1, StreamStays
<1> QED
  BY <1>2, <1>3, <1>4, <1>5 DEF PageInv, RegistrationsInv, UpdatesInv

(* A request or an answer that keeps the page's place. *)
LEMMA KeepsPlaceKeeps ==
  ASSUME PageInv, UNCHANGED <<server, down, cut>>, NEW p \in Page, KeepsPlace(p),
         p.at = page.at, p.stream = page.stream, p.shown = page.shown,
         p.generations = page.generations, p.ready => p.uplink # 0, lost' \subseteq Generation
  PROVE  PageInv'
BY PageStepKeeps DEF KeepsPlace

LEMMA ChooseKeeps ==
  ASSUME PageInv, NEW value \in Presentation, Choose(value)
  PROVE  PageInv'
<1>1. /\ up \in [Generation -> Seq(Sent)] /\ page \in Page /\ calls \subseteq UnaryCall
      /\ lost \subseteq Generation /\ PageIsSound
  BY DEF PageInv, RegistrationsInv, StreamTypeOK
<1>2. UNCHANGED <<server, down, cut, lost>>
  BY DEF Choose
<1>3. KeepsPlace(page)
  <2>1. CASE page.pending = NoPending
    <3>1. Send(page, value, calls)
      BY <2>1 DEF Choose
    <3> QED
      BY <1>1, <3>1, SendKeepsPlace
  <2>2. CASE page.pending # NoPending
    <3> DEFINE next == IF value = page.pending.value THEN Nothing ELSE value
    <3>1. page' = [page EXCEPT !.desired = next] /\ UNCHANGED <<up, calls>>
      BY <2>2, Zenon DEF Choose
    <3>2. next \in Presentation \cup {Nothing}
      OBVIOUS
    <3> HIDE DEF next
    <3>3. /\ page' \in Page
          /\ page'.at = page.at /\ page'.stream = page.stream /\ page'.shown = page.shown
          /\ page'.uplink = page.uplink /\ page'.ready = page.ready
          /\ page'.generations = page.generations
      BY <1>1, <3>1, <3>2 DEF Page
    <3> QED
      BY <1>1, <3>1, <3>3 DEF KeepsPlace
  <2> QED
    BY <2>1, <2>2
<1> QED
  BY <1>1, <1>2, <1>3, KeepsPlaceKeeps DEF PageIsSound

LEMMA CallReturnsKeeps ==
  ASSUME PageInv, NEW c \in calls, CallReturns(c)
  PROVE  PageInv'
<1>1. /\ up \in [Generation -> Seq(Sent)] /\ page \in Page /\ calls \subseteq UnaryCall
      /\ lost \subseteq Generation /\ PageIsSound
  BY DEF PageInv, RegistrationsInv, StreamTypeOK
<1>2. UNCHANGED <<server, down, cut, lost>> /\ ApplyResult(page, c.answer, calls \ {c})
  BY DEF CallReturns
<1>3. c.answer \in Message /\ calls \ {c} \in SUBSET UnaryCall
  BY <1>1 DEF UnaryCall
<1>4. KeepsPlace(page)
  BY <1>1, <1>2, <1>3, ApplyResultKeepsPlace
<1> QED
  BY <1>1, <1>2, <1>4, KeepsPlaceKeeps DEF PageIsSound

LEMMA CallFailsKeeps ==
  ASSUME PageInv, NEW c \in calls, CallFails(c)
  PROVE  PageInv'
<1>1. /\ up \in [Generation -> Seq(Sent)] /\ page \in Page /\ calls \subseteq UnaryCall
      /\ lost \subseteq Generation /\ PageIsSound
  BY DEF PageInv, RegistrationsInv, StreamTypeOK
<1>2. /\ UNCHANGED <<server, down, cut, lost>>
      /\ ApplyResult(page, Result(0, c.request, FALSE, 0), calls \ {c})
  BY DEF CallFails
<1>3. Result(0, c.request, FALSE, 0) \in Message /\ calls \ {c} \in SUBSET UnaryCall
  BY <1>1, ResultType DEF UnaryCall
<1>4. KeepsPlace(page)
  BY <1>1, <1>2, <1>3, ApplyResultKeepsPlace
<1> QED
  BY <1>1, <1>2, <1>4, KeepsPlaceKeeps DEF PageIsSound

(* An uplink is given up: its request is cut, and what is pending is sent again. *)
LEMMA FailUplinkKeeps ==
  ASSUME PageInv, page.uplink # 0, FailUplink, UNCHANGED <<server, down, cut>>
  PROVE  PageInv'
<1> DEFINE p == [page EXCEPT !.uplink = 0, !.ready = FALSE]
           again == IF p.desired = Nothing THEN page.pending.value ELSE p.desired
           q == [p EXCEPT !.desired = again]
<1>1. /\ up \in [Generation -> Seq(Sent)] /\ page \in Page /\ calls \subseteq UnaryCall
      /\ lost \subseteq Generation
  BY DEF PageInv, RegistrationsInv, StreamTypeOK
<1>2. /\ lost' = lost \cup {page.uplink}
      /\ IF page.pending.transport = "stream" THEN SendDesired(q, calls)
         ELSE page' = p /\ UNCHANGED <<calls, up>>
  BY Zenon DEF FailUplink
<1>3. lost' \subseteq Generation
  BY <1>1, <1>2 DEF Page
<1>4. page.pending.value \in Presentation \cup {Nothing}
  BY <1>1 DEF Page, Pending
<1>5. /\ p \in Page
      /\ p.at = page.at /\ p.stream = page.stream /\ p.shown = page.shown
      /\ p.uplink = 0 /\ p.ready = FALSE /\ p.generations = page.generations
  BY <1>1, ZenonT(20) DEF Page
<1> HIDE DEF p
<1>6. again \in Presentation \cup {Nothing}
  BY <1>4, <1>5 DEF Page
<1> HIDE DEF again
<1>7. /\ q \in Page
      /\ q.at = page.at /\ q.stream = page.stream /\ q.shown = page.shown
      /\ q.uplink = 0 /\ q.ready = FALSE /\ q.generations = page.generations
  BY <1>5, <1>6 DEF Page
<1> HIDE DEF q
<1>8. CASE page.pending.transport = "stream"
  <2>1. KeepsPlace(q)
    BY <1>1, <1>2, <1>7, <1>8, SendDesiredKeepsPlace
  <2> QED
    BY <1>3, <1>7, <2>1, KeepsPlaceKeeps
<1>9. CASE page.pending.transport # "stream"
  <2>1. KeepsPlace(p)
    BY <1>1, <1>2, <1>5, <1>9 DEF KeepsPlace
  <2> QED
    BY <1>3, <1>5, <2>1, KeepsPlaceKeeps
<1> QED
  BY <1>8, <1>9

(* Starting the next generation keeps the uplinks there are. *)
LEMMA StartUplinkKeeps ==
  ASSUME RegistrationsInv, NEW p \in Page, p.generations = page.generations,
         p.ready => p.uplink # 0, StartUplink(p), hub' = hub
  PROVE  /\ page' \in Page /\ lease' \in [Generation -> PresentationUplink]
         /\ page'.at = p.at /\ page'.stream = p.stream /\ page'.shown = p.shown
         /\ page'.ready => page'.uplink # 0
         /\ UplinkIsBound' /\ \A g \in Generation : UplinkIsSound(g)'
<1>0. BoundsAssumption
  BY BoundsAssumption
<1>1. /\ UplinkIsBound /\ \A g \in Generation : UplinkIsSound(g)
      /\ lease \in [Generation -> PresentationUplink] /\ changes \in Nat /\ hub \in HubType
      /\ page \in Page
  BY DEF RegistrationsInv, StreamTypeOK
<1> DEFINE n == page'.generations
<1>2. /\ page' \in Page /\ lease' \in [Generation -> PresentationUplink]
      /\ page'.at = p.at /\ page'.stream = p.stream /\ page'.shown = p.shown
      /\ \/ page' = p /\ lease' = lease
         \/ /\ n = p.generations + 1 /\ n \in Generation
            /\ page'.uplink = n /\ page'.ready = FALSE
            /\ \A g \in Generation : g # n => lease'[g] = lease[g]
            /\ lease'[n].receiver = "open" /\ lease'[n].stream = lease[n].stream
            /\ lease'[n].closed = lease[n].closed /\ lease'[n].box = lease[n].box
            /\ lease'[n].worker = lease[n].worker /\ lease'[n].intent = lease[n].intent
            /\ lease'[n].result = lease[n].result
  BY <1>1, StartUplinkTypes
<1>3. CASE page' = p /\ lease' = lease
  <2>1. page'.ready => page'.uplink # 0
    BY <1>3
  <2>2. UplinkIsBound' /\ \A g \in Generation : UplinkIsSound(g)'
    BY <1>1, <1>3 DEF UplinkIsBound, UplinkIsSound
  <2> QED
    BY <1>2, <2>1, <2>2
<1>4. CASE /\ n = p.generations + 1 /\ n \in Generation
           /\ page'.uplink = n /\ page'.ready = FALSE
           /\ \A g \in Generation : g # n => lease'[g] = lease[g]
           /\ lease'[n].receiver = "open" /\ lease'[n].stream = lease[n].stream
           /\ lease'[n].closed = lease[n].closed /\ lease'[n].box = lease[n].box
           /\ lease'[n].worker = lease[n].worker /\ lease'[n].intent = lease[n].intent
           /\ lease'[n].result = lease[n].result
  <2>1. page.generations \in Nat /\ n = page.generations + 1 /\ n > page.generations
    BY <1>0, <1>1, <1>4 DEF Page, Generation
  <2> HIDE DEF n
  <2>2. lease[n].receiver = "none"
    BY <1>1, <1>4, <2>1 DEF UplinkIsSound
  <2>3. hub.uplink # 0 => hub.uplink # n /\ hub.uplink \in Generation
    BY <1>1, <2>2 DEF UplinkIsBound, HubType
  <2>4. UplinkIsBound'
    BY <1>1, <1>4, <2>3 DEF UplinkIsBound
  <2>5. ASSUME NEW g \in Generation PROVE UplinkIsSound(g)'
    <3>1. UplinkIsSound(g) /\ g \in Nat
      BY <1>0, <1>1 DEF Generation
    <3>2. CASE g = n
      <4>1. ~(g > n)
        BY <3>1, <3>2
      <4> QED
        BY <1>4, <3>1, <3>2, <4>1 DEF UplinkIsSound, n
    <3>3. CASE g # n
      <4>1. lease'[g] = lease[g]
        BY <1>4, <3>3
      <4>2. g > n => g > page.generations
        BY <2>1, <3>1
      <4> QED
        BY <3>1, <4>1, <4>2 DEF UplinkIsSound, n
    <3> QED
      BY <3>2, <3>3
  <2> QED
    BY <1>2, <1>4, <2>4, <2>5
<1> QED
  BY <1>2, <1>3, <1>4

LEMMA RetryUplinkKeeps ==
  ASSUME PageInv, RetryUplink
  PROVE  PageInv'
<1>1. /\ RegistrationsInv /\ UpdatesInv /\ StreamTypeOK /\ StreamIsServed /\ page \in Page
      /\ PageIsSound
  BY DEF PageInv, RegistrationsInv, StreamTypeOK
<1>2. /\ StartUplink(page)
      /\ UNCHANGED <<committed, cursor, changes, attached, hub, sub, down, cut, up, lost, calls>>
  BY DEF RetryUplink
<1>3. /\ page' \in Page /\ lease' \in [Generation -> PresentationUplink]
      /\ page'.at = page.at /\ page'.stream = page.stream /\ page'.shown = page.shown
      /\ page'.ready => page'.uplink # 0
      /\ UplinkIsBound' /\ \A g \in Generation : UplinkIsSound(g)'
  BY <1>1, <1>2, StartUplinkKeeps DEF PageIsSound
<1>4. ASSUME NEW s \in Stream PROVE StreamIsSound(s)'
  <2>1. StreamIsSound(s)
    BY <1>1 DEF UpdatesInv
  <2> QED
    BY <1>2, <1>3, <2>1, StreamStays
<1>5. StreamTypeOK'
  BY <1>1, <1>2, <1>3 DEF StreamTypeOK
<1>6. StreamIsServed' /\ PageIsSound'
  BY <1>1, <1>2, <1>3 DEF StreamIsServed, PageIsSound
<1> QED
  BY <1>3, <1>4, <1>5, <1>6 DEF PageInv, RegistrationsInv, UpdatesInv

(* What happens to the page's place does not matter to its other streams. *)
LEMMA StreamElsewhere ==
  ASSUME NEW s \in Stream, StreamIsSound(s), s # page.stream, page'.stream = page.stream,
         committed' = committed, cursor' = cursor, hub' = hub, sub' = sub, down'[s] = down[s]
  PROVE  StreamIsSound(s)'
<1>1. DownOrdered(s)' /\ QueueOrdered(s)' /\ ShownIsOlder(s)'
  BY DEF StreamIsSound, DownOrdered, QueueOrdered, ShownIsOlder, Shows
<1> QED
  BY <1>1 DEF StreamIsSound

(* The page reads the next message of its stream: an update, which it shows,  *)
(* or something else, which leaves what it shows.                             *)
LEMMA ReadKeepsStream ==
  ASSUME NEW s \in Stream, StreamTypeOK, StreamIsSound(s), page.stream = s, down[s] # <<>>,
         committed' = committed, cursor' = cursor, hub' = hub, sub' = sub, cut' = cut,
         down'[s] = Tail(down[s]), page'.at = "live", page'.stream = s,
         page'.shown \in Message,
         IF Shows(Head(down[s])) THEN page'.shown = Head(down[s])
         ELSE page.at = "live" /\ page'.shown = page.shown
  PROVE  StreamIsSound(s)'
<1> DEFINE before == down[s]
           after == Tail(before)
           queue == sub[s].updates
           m == Head(before)
<1>1. before \in Seq(Sendable) /\ queue \in Seq(QueuedUpdate) /\ sub[s].last \in Nat /\ committed \in Nat
  BY DEF StreamTypeOK, Subscription
<1>2. before = down[s] /\ queue = sub[s].updates /\ down'[s] = after /\ before # <<>>
  OBVIOUS
<1> HIDE DEF before, queue
<1>3. /\ Len(before) \in Nat /\ Len(before) > 0 /\ Len(after) = Len(before) - 1
      /\ m = before[1] /\ \A i \in 1 .. Len(after) : after[i] = before[i + 1]
  BY <1>1, <1>2
<1>4. /\ \A i \in 1 .. Len(before) : before[i] \in Sendable
      /\ \A i \in 1 .. Len(queue) : queue[i] \in QueuedUpdate
  BY <1>1
<1>5. /\ \A i \in 1 .. Len(before) : before[i].revision \in Nat
      /\ \A i \in 1 .. Len(queue) : queue[i].revision \in Nat
  BY <1>4 DEF Sendable, QueuedUpdate, Message
<1> HIDE DEF after, m
<1>6. \A i \in 1 .. Len(after) : i + 1 \in 1 .. Len(before) /\ i + 1 > 1 /\ after[i] = before[i + 1]
  BY <1>3
<1>7. 1 \in 1 .. Len(before)
  BY <1>3
<1>8. IF Shows(m) THEN page'.shown = m ELSE page.at = "live" /\ page'.shown = page.shown
  BY <1>2 DEF m
<1>9. /\ \A i \in 1 .. Len(before) : Shows(before[i]) =>
           /\ before[i].revision <= sub[s].last
           /\ \A j \in 1 .. Len(before) :
                j > i /\ Shows(before[j]) => before[i].revision < before[j].revision
           /\ \A j \in 1 .. Len(queue) : before[i].revision < queue[j].revision
      /\ page.at = "live" =>
           /\ page.shown.revision <= sub[s].last
           /\ \A i \in 1 .. Len(before) :
                Shows(before[i]) => page.shown.revision < before[i].revision
           /\ \A i \in 1 .. Len(queue) : page.shown.revision < queue[i].revision
  BY <1>2 DEF StreamIsSound, DownOrdered, ShownIsOlder
<1>10. DownOrdered(s)'
  <2>1. ASSUME NEW i \in 1 .. Len(after), Shows(after[i])
        PROVE  /\ after[i].revision <= sub[s].last
               /\ \A j \in 1 .. Len(after) :
                    j > i /\ Shows(after[j]) => after[i].revision < after[j].revision
               /\ \A j \in 1 .. Len(queue) : after[i].revision < queue[j].revision
    <3>1. /\ after[i].revision <= sub[s].last
          /\ \A j \in 1 .. Len(queue) : after[i].revision < queue[j].revision
      BY <1>6, <1>9, <2>1
    <3>2. ASSUME NEW j \in 1 .. Len(after), j > i, Shows(after[j])
          PROVE  after[i].revision < after[j].revision
      <4>1. j + 1 > i + 1
        BY <3>2
      <4> QED
        BY <1>6, <1>9, <2>1, <3>2, <4>1
    <3> QED
      BY <3>1, <3>2
  <2> QED
    BY <1>2, <2>1 DEF DownOrdered, Shows
<1>11. QueueOrdered(s)'
  BY DEF StreamIsSound, QueueOrdered
<1>12. ShownIsOlder(s)'
  <2>1. CASE Shows(m)
    <3>1. page'.shown = before[1] /\ Shows(before[1])
      BY <1>3, <1>8, <2>1
    <3>2. page'.shown.revision <= sub[s].last
      BY <1>7, <1>9, <3>1
    <3>3. ASSUME NEW i \in 1 .. Len(after), Shows(after[i])
          PROVE  page'.shown.revision < after[i].revision
      BY <1>6, <1>7, <1>9, <3>1, <3>3
    <3>4. ASSUME NEW i \in 1 .. Len(queue) PROVE page'.shown.revision < queue[i].revision
      BY <1>7, <1>9, <3>1
    <3> QED
      BY <1>2, <3>2, <3>3, <3>4 DEF ShownIsOlder, Shows
  <2>2. CASE ~Shows(m)
    <3>1. page'.shown = page.shown /\ page.at = "live"
      BY <1>8, <2>2
    <3>2. ASSUME NEW i \in 1 .. Len(after), Shows(after[i])
          PROVE  page.shown.revision < after[i].revision
      BY <1>6, <1>9, <3>1, <3>2
    <3> QED
      BY <1>2, <1>9, <3>1, <3>2 DEF ShownIsOlder, Shows
  <2> QED
    BY <2>1, <2>2
<1>13. s \in hub.ids /\ s \notin cut => Carries(s)'
  <2>1. SUFFICES ASSUME s \in hub.ids, s \notin cut PROVE Carries(s)'
    OBVIOUS
  <2>2. Carries(s) /\ sub[s].last = committed
    BY <2>1 DEF StreamIsSound
  <2>3. CASE \E i \in 1 .. Len(before) : Shows(before[i]) /\ Current(before[i])
    <3>1. PICK i \in 1 .. Len(before) : Shows(before[i]) /\ Current(before[i])
      BY <2>3
    <3>2. CASE i = 1
      <4>1. page'.shown = before[i]
        BY <1>3, <1>8, <3>1, <3>2
      <4> QED
        BY <3>1, <4>1 DEF Carries, Current
    <3>3. CASE i # 1
      <4>1. i - 1 \in 1 .. Len(after) /\ after[i - 1] = before[i]
        BY <1>3, <3>3
      <4> QED
        BY <1>2, <3>1, <4>1 DEF Carries, Current, Shows
    <3> QED
      BY <3>2, <3>3
  <2>4. CASE \E i \in 1 .. Len(queue) : Current(queue[i])
    BY <1>2, <2>4 DEF Carries, Current
  <2>5. CASE page.at = "live" /\ Current(page.shown)
    <3>1. CASE Shows(m)
      <4>1. /\ page.shown.revision < before[1].revision /\ before[1].revision <= sub[s].last
            /\ page.shown.revision = committed /\ before[1].revision \in Nat
        BY <1>3, <1>5, <1>7, <1>9, <2>5, <3>1 DEF Current
      <4> QED
        BY <1>1, <2>2, <4>1
    <3>2. CASE ~Shows(m)
      BY <1>8, <2>5, <3>2 DEF Carries, Current
    <3> QED
      BY <3>1, <3>2
  <2> QED
    BY <1>2, <2>2, <2>3, <2>4, <2>5 DEF Carries
<1>14. /\ sub'[s].last <= committed' /\ (s \in hub'.ids => sub'[s].last = committed')
       /\ sub'[s].handler # "none"
       /\ page'.stream < s => sub'[s].handler = "none"
  BY DEF StreamIsSound
<1> QED
  BY <1>10, <1>11, <1>12, <1>13, <1>14 DEF StreamIsSound, Shows

LEMMA PageBeginsKeeps ==
  ASSUME PageInv, PageBegins
  PROVE  PageInv'
<1>0. page.stream \in Stream
  BY DEF PageInv, RegistrationsInv, StreamTypeOK, PageIsSound, Page, PageBegins
<1> PICK s \in Stream : s = page.stream
  BY <1>0
<1> DEFINE m == Head(down[s])
           q == [page EXCEPT !.at = "live", !.shown = m, !.pending = NoPending, !.desired = Nothing]
<1>1. /\ RegistrationsInv /\ UpdatesInv /\ StreamTypeOK /\ StreamIsServed /\ page \in Page
      /\ PageIsSound /\ down \in [Stream -> Seq(Sendable)]
  BY DEF PageInv, RegistrationsInv, StreamTypeOK
<1>2. /\ page.at = "subscribing" /\ s \notin cut /\ down[s] # <<>>
      /\ down' = [down EXCEPT ![s] = Tail(@)] /\ StartUplink(q)
      /\ UNCHANGED <<committed, cursor, changes, attached, hub, sub, cut, up, lost, calls>>
  BY Zenon DEF PageBegins
<1>3. s \in Stream /\ s = page.stream
  OBVIOUS
<1>4. StreamIsSound(s)
  BY <1>1, <1>3 DEF UpdatesInv
<1>5. sub[s].handler # "none" /\ Shows(down[s][1])
  BY <1>2, <1>4 DEF StreamIsSound
<1>6. down[s] \in Seq(Sendable) /\ m = down[s][1] /\ m \in Sendable /\ Tail(down[s]) \in Seq(Sendable)
  BY <1>1, <1>2, <1>3
<1>7. m \in Message /\ Shows(m) /\ s = page.stream /\ m = Head(down[s])
  BY <1>5, <1>6 DEF Sendable
<1> HIDE DEF m
<1>8. /\ q \in Page /\ q.at = "live" /\ q.stream = page.stream /\ q.shown = m
      /\ q.generations = page.generations /\ q.ready = page.ready /\ q.uplink = page.uplink
  BY <1>1, <1>7, NoPendingType, ZenonT(20) DEF Page
<1> HIDE DEF q
<1>9. /\ page' \in Page /\ lease' \in [Generation -> PresentationUplink]
      /\ page'.at = q.at /\ page'.stream = q.stream /\ page'.shown = q.shown
      /\ page'.ready => page'.uplink # 0
      /\ UplinkIsBound' /\ \A g \in Generation : UplinkIsSound(g)'
  <2>1. hub' = hub /\ (q.ready => q.uplink # 0)
    BY <1>1, <1>2, <1>8 DEF PageIsSound
  <2> QED
    BY <1>1, <1>2, <1>8, <2>1, StartUplinkKeeps
<1>10. /\ down' \in [Stream -> Seq(Sendable)] /\ down'[s] = Tail(down[s])
       /\ \A x \in Stream : x # s => down'[x] = down[x]
  BY <1>1, <1>2, <1>3, <1>6
<1>11. ASSUME NEW x \in Stream PROVE StreamIsSound(x)'
  <2>1. CASE x = s
    <3>1. page'.at = "live" /\ page'.stream = s /\ page'.shown = Head(down[s]) /\ page'.shown \in Message
      BY <1>7, <1>8, <1>9
    <3>2. IF Shows(Head(down[s])) THEN page'.shown = Head(down[s])
          ELSE page.at = "live" /\ page'.shown = page.shown
      BY <1>7, <3>1
    <3>3. StreamIsSound(s)'
      BY <1>1, <1>2, <1>3, <1>4, <1>7, <1>10, <3>1, <3>2, ReadKeepsStream
    <3> QED
      BY <2>1, <3>3
  <2>2. CASE x # s
    <3>1. StreamIsSound(x)
      BY <1>1 DEF UpdatesInv
    <3> QED
      BY <1>2, <1>7, <1>8, <1>9, <1>10, <2>2, <3>1, StreamElsewhere
  <2> QED
    BY <2>1, <2>2
<1>12. StreamTypeOK'
  BY <1>1, <1>2, <1>9, <1>10 DEF StreamTypeOK
<1>13. StreamIsServed'
  BY <1>1, <1>2 DEF StreamIsServed
<1>14. PageIsSound'
  BY <1>1, <1>2, <1>8, <1>9 DEF PageIsSound
<1> QED
  BY <1>9, <1>11, <1>12, <1>13, <1>14 DEF PageInv, RegistrationsInv, UpdatesInv

LEMMA PageReadsKeeps ==
  ASSUME PageInv, PageReads
  PROVE  PageInv'
<1>0. page.stream \in Stream
  BY DEF PageInv, RegistrationsInv, StreamTypeOK, PageIsSound, Page, PageReads
<1> PICK s \in Stream : s = page.stream
  BY <1>0
<1> DEFINE m == Head(down[s])
<1>1. /\ RegistrationsInv /\ UpdatesInv /\ StreamTypeOK /\ StreamIsServed /\ page \in Page
      /\ PageIsSound /\ down \in [Stream -> Seq(Sendable)] /\ calls \subseteq UnaryCall
      /\ up \in [Generation -> Seq(Sent)] /\ lost \subseteq Generation
  BY DEF PageInv, RegistrationsInv, StreamTypeOK
<1>2. /\ page.at = "live" /\ down[s] # <<>>
      /\ down' = [down EXCEPT ![s] = Tail(@)]
      /\ CASE m.kind \in {"snapshot", "update"} -> ApplyUpdate(page, m)
           [] m.kind = "ready" ->
                page' = [page EXCEPT !.ready = @ \/ m.generation = page.uplink] /\ UNCHANGED <<calls, up>>
           [] m.kind = "action" ->
                IF m.generation = page.uplink THEN ApplyResult(page, m, calls) ELSE UNCHANGED <<page, calls, up>>
      /\ UNCHANGED <<server, cut, lost>>
  BY Zenon DEF PageReads
<1>3. s \in Stream /\ s = page.stream
  OBVIOUS
<1>4. down[s] \in Seq(Sendable) /\ m = down[s][1] /\ m \in Sendable /\ Tail(down[s]) \in Seq(Sendable)
      /\ 1 \in 1 .. Len(down[s])
  BY <1>1, <1>2, <1>3
<1>5. m \in Message /\ m.kind \in {"snapshot", "update", "ready", "action"} /\ s = page.stream
      /\ (m.kind = "ready" => m.generation # 0) /\ m.revision \in Nat /\ m = Head(down[s])
  BY <1>4 DEF Sendable, Message, MessageKind
<1>6. StreamIsSound(s)
  BY <1>1, <1>3 DEF UpdatesInv
<1>7. Shows(m) => m.revision >= page.shown.revision
  <2>1. Shows(m) => page.shown.revision < m.revision
    BY <1>2, <1>4, <1>6 DEF StreamIsSound, ShownIsOlder
  <2>2. page.shown.revision \in Nat
    BY <1>1 DEF Page, Message
  <2> QED
    BY <1>5, <2>1, <2>2
<1> HIDE DEF m
<1>8. /\ page' \in Page /\ page'.at = page.at /\ page'.stream = page.stream
      /\ page'.generations = page.generations /\ page'.uplink = page.uplink
      /\ page'.ready => page'.uplink # 0
      /\ IF Shows(m) THEN page'.shown = m ELSE page'.shown = page.shown
      /\ up' \in [Generation -> Seq(Sent)] /\ calls' \subseteq UnaryCall
  <2>1. CASE m.kind \in {"snapshot", "update"}
    <3>1. ApplyUpdate(page, m) /\ Shows(m)
      BY <1>2, <2>1 DEF Shows
    <3> QED
      BY <1>1, <1>5, <1>7, <3>1, <2>1, ApplyUpdateShows DEF PageIsSound
  <2>2. CASE m.kind = "ready"
    <3> DEFINE ready == page.ready \/ m.generation = page.uplink
    <3>1. page' = [page EXCEPT !.ready = ready] /\ UNCHANGED <<calls, up>> /\ ~Shows(m)
      BY <1>2, <2>2 DEF Shows
    <3>2. ready \in BOOLEAN /\ (ready => page.uplink # 0)
      BY <1>1, <1>5, <2>2 DEF PageIsSound, Page
    <3> HIDE DEF ready
    <3>3. /\ page' \in Page /\ page'.at = page.at /\ page'.stream = page.stream
          /\ page'.generations = page.generations /\ page'.uplink = page.uplink
          /\ page'.shown = page.shown /\ page'.ready = ready
      BY <1>1, <3>1, <3>2 DEF Page
    <3> QED
      BY <1>1, <2>2, <3>1, <3>2, <3>3
  <2>3. CASE m.kind = "action"
    <3>1. ~Shows(m)
      BY <2>3 DEF Shows
    <3>2. KeepsPlace(page)
      <4>1. CASE m.generation = page.uplink
        <5>1. ApplyResult(page, m, calls)
          BY <1>2, <2>3, <4>1
        <5> QED
          BY <1>1, <1>5, <5>1, ApplyResultKeepsPlace
      <4>2. CASE m.generation # page.uplink
        <5>1. UNCHANGED <<page, calls, up>>
          BY <1>2, <2>3, <4>2
        <5> QED
          BY <1>1, <5>1 DEF KeepsPlace
      <4> QED
        BY <4>1, <4>2
    <3> QED
      BY <1>1, <3>1, <3>2 DEF KeepsPlace, PageIsSound
  <2> QED
    BY <1>5, <2>1, <2>2, <2>3
<1>9. /\ down' \in [Stream -> Seq(Sendable)] /\ down'[s] = Tail(down[s])
      /\ \A x \in Stream : x # s => down'[x] = down[x]
  BY <1>1, <1>2, <1>3, <1>4
<1>10. committed' = committed /\ cursor' = cursor /\ hub' = hub /\ sub' = sub /\ cut' = cut
  BY <1>2 DEF server
<1>11. ASSUME NEW x \in Stream PROVE StreamIsSound(x)'
  <2>1. CASE x = s
    <3>1. page'.at = "live" /\ page'.stream = s /\ page'.shown \in Message
      BY <1>2, <1>5, <1>8 DEF Page
    <3>2. IF Shows(Head(down[s])) THEN page'.shown = Head(down[s])
          ELSE page.at = "live" /\ page'.shown = page.shown
      BY <1>2, <1>5, <1>8
    <3>3. StreamIsSound(s)'
      BY <1>1, <1>2, <1>3, <1>5, <1>6, <1>9, <1>10, <3>1, <3>2, ReadKeepsStream
    <3> QED
      BY <2>1, <3>3
  <2>2. CASE x # s
    <3>1. StreamIsSound(x)
      BY <1>1 DEF UpdatesInv
    <3> QED
      BY <1>5, <1>8, <1>9, <1>10, <2>2, <3>1, StreamElsewhere
  <2> QED
    BY <2>1, <2>2
<1>12. StreamTypeOK'
  BY <1>1, <1>2, <1>8, <1>9 DEF StreamTypeOK, server
<1>13. StreamIsServed' /\ UplinkIsBound' /\ \A g \in Generation : UplinkIsSound(g)'
  BY <1>1, <1>2, <1>8 DEF RegistrationsInv, StreamIsServed, UplinkIsBound, UplinkIsSound, server
<1>14. PageIsSound'
  BY <1>1, <1>8 DEF PageIsSound
<1> QED
  BY <1>11, <1>12, <1>13, <1>14 DEF PageInv, RegistrationsInv, UpdatesInv

(* The page lets its stream go when it is cut or no longer registered. *)
LEMMA PageEndsKeeps ==
  ASSUME PageInv, PageEnds
  PROVE  PageInv'
<1>1. /\ RegistrationsInv /\ UpdatesInv /\ StreamTypeOK /\ StreamIsServed /\ page \in Page
      /\ PageIsSound /\ lost \subseteq Generation
  BY DEF PageInv, RegistrationsInv, StreamTypeOK
<1>2. /\ page.at \in {"subscribing", "live"}
      /\ page.stream \in cut \/ sub[page.stream].handler \in {"detaching", "ended"}
      /\ page' = [page EXCEPT !.at = "waiting", !.uplink = 0, !.ready = FALSE, !.pending = NoPending,
                              !.desired = Nothing]
      /\ lost' = lost \cup ({page.uplink} \ {0})
      /\ UNCHANGED <<server, down, cut, up, calls>>
  BY DEF PageEnds
<1>3. /\ page' \in Page /\ page'.at = "waiting" /\ page'.stream = page.stream
      /\ page'.generations = page.generations /\ page'.ready = FALSE
  BY <1>1, <1>2, NoPendingType, ZenonT(20) DEF Page
<1>4. lost' \subseteq Generation
  BY <1>1, <1>2 DEF Page
<1>5. StreamTypeOK'
  BY <1>1, <1>2, <1>3, <1>4 DEF StreamTypeOK, server
<1>6. StreamIsServed' /\ UplinkIsBound' /\ \A g \in Generation : UplinkIsSound(g)'
  BY <1>1, <1>2, <1>3 DEF RegistrationsInv, StreamIsServed, UplinkIsBound, UplinkIsSound, server
<1>7. PageIsSound'
  BY <1>3 DEF PageIsSound
<1>8. ASSUME NEW x \in Stream PROVE StreamIsSound(x)'
  <2>1. /\ StreamIsSound(x) /\ committed' = committed /\ cursor' = cursor /\ hub' = hub /\ sub' = sub
        /\ down' = down /\ cut' = cut
    BY <1>1, <1>2 DEF UpdatesInv, server
  <2>2. CASE x = page.stream
    <3>1. x \in cut \/ x \notin hub.ids
      BY <1>1, <1>2, <2>2 DEF StreamIsServed
    <3>2. DownOrdered(x)' /\ QueueOrdered(x)' /\ ShownIsOlder(x)'
      BY <1>3, <2>1 DEF StreamIsSound, DownOrdered, QueueOrdered, ShownIsOlder, Shows
    <3> QED
      BY <1>3, <2>1, <3>1, <3>2 DEF StreamIsSound, Shows
  <2>3. CASE x # page.stream
    BY <1>3, <2>1, <2>3, StreamElsewhere
  <2> QED
    BY <2>2, <2>3
<1> QED
  BY <1>5, <1>6, <1>7, <1>8 DEF PageInv, RegistrationsInv, UpdatesInv

-----------------------------------------------------------------------------
(* The theorems.                                                             *)

(* The invariant holds at the start, when nothing is open. *)
LEMMA PageInvInit == StreamsInit => PageInv
<1> SUFFICES ASSUME StreamsInit PROVE PageInv
  OBVIOUS
<1>0. BoundsAssumption
  BY BoundsAssumption
<1>1. (CHOOSE c \in Presentation : TRUE) \in Presentation
  BY <1>0 DEF BoundsAssumption
<1>2. NoSubscription \in Subscription /\ NoLease \in PresentationUplink
  <2>1. <<>> \in Seq(QueuedUpdate)
    OBVIOUS
  <2> QED
    BY <2>1 DEF NoSubscription, Subscription, NoLease, PresentationUplink, HandlerState,
               ReceiverState, WorkerState, Stream, Generation
<1>3. Disconnected \in Page
  BY NoPendingType, NoUpdateType DEF Disconnected, Page
<1>4. [ids |-> {}, tab |-> 0, uplink |-> 0] \in HubType
  BY DEF HubType
<1>5. StreamTypeOK
  <2>1. /\ [s \in Stream |-> <<>>] \in [Stream -> Seq(Sendable)]
        /\ [g \in Generation |-> <<>>] \in [Generation -> Seq(Sent)]
    OBVIOUS
  <2> QED
    BY <1>1, <1>2, <1>3, <1>4, <2>1 DEF StreamsInit, StreamTypeOK
<1>6. StreamIsServed /\ UplinkIsBound
  BY DEF StreamsInit, StreamIsServed, UplinkIsBound
<1>7. PageIsSound
  BY DEF StreamsInit, PageIsSound, Disconnected
<1>8. ASSUME NEW g \in Generation PROVE UplinkIsSound(g)
  BY DEF StreamsInit, UplinkIsSound, NoLease
<1>9. ASSUME NEW s \in Stream PROVE StreamIsSound(s)
  <2>1. /\ sub[s].updates = <<>> /\ down[s] = <<>> /\ sub[s].last = 0 /\ sub[s].handler = "none"
        /\ page.at = "waiting" /\ hub.ids = {} /\ committed = 0
    BY DEF StreamsInit, NoSubscription, Disconnected
  <2> QED
    BY <2>1 DEF StreamIsSound, DownOrdered, QueueOrdered, ShownIsOlder
<1> QED
  BY <1>5, <1>6, <1>7, <1>8, <1>9 DEF PageInv, RegistrationsInv, UpdatesInv

(* Every step keeps the invariant. *)
LEMMA PageInvNext ==
  ASSUME PageInv, [StreamsNext]_streamVars
  PROVE  PageInv'
<1>0. RegistrationsInv
  BY DEF PageInv
<1>1. CASE Connect
  BY <1>1, ConnectKeeps
<1>2. CASE PageBegins
  BY <1>2, PageBeginsKeeps
<1>3. CASE PageReads
  BY <1>3, PageReadsKeeps
<1>4. CASE PageEnds
  BY <1>4, PageEndsKeeps
<1>5. CASE UplinkFails \/ UplinkTimesOut
  BY <1>5, FailUplinkKeeps DEF UplinkFails, UplinkTimesOut
<1>6. CASE RetryUplink
  BY <1>6, RetryUplinkKeeps
<1>7. CASE \E value \in Presentation : Choose(value)
  BY <1>7, ChooseKeeps
<1>8. CASE \E c \in calls : CallStep(c)
  BY <1>8, ServeCallStep, CallReturnsKeeps, CallFailsKeeps DEF CallStep
<1>9. CASE \E s \in Stream : Subscribe(s) \/ SubscribeStep(s) \/ Break(s) \/ ContextEnds(s)
  BY <1>9, SubscribeKeeps, DeliverKeeps, SubscribeEndsKeeps, DetachStep, BreakKeeps, ContextEndsKeeps
     DEF SubscribeStep
<1>10. CASE \E g \in Generation : ReceiverStep(g) \/ LeaseEnds(g) \/ WorkerStep(g) \/ UplinkBreaks(g)
  <2> PICK g \in Generation : ReceiverStep(g) \/ LeaseEnds(g) \/ WorkerStep(g) \/ UplinkBreaks(g)
    BY <1>10
  <2>1. CASE ReceiverStep(g)
    <3>1. UplinkStep
      BY <1>0, <2>1, BindStep, PublishReadyStep, ReceiveStep, ReceiveEndsStep, ReceiverFinishesStep
         DEF ReceiverStep
    <3> QED
      BY <3>1, UplinkStepKeeps
  <2>2. CASE LeaseEnds(g) \/ UplinkBreaks(g)
    <3>1. UplinkStep
      BY <1>0, <2>2, LeaseEndsStep, UplinkBreaksStep
    <3> QED
      BY <3>1, UplinkStepKeeps
  <2>3. CASE WorkerStep(g)
    <3>1. CASE Dispatch(g)
      BY <3>1, DispatchStep
    <3>2. CASE Take(g) \/ CheckCurrent(g) \/ PublishResult(g)
      <4>1. UplinkStep
        BY <1>0, <3>2, TakeStep, CheckCurrentStep, PublishResultStep
      <4> QED
        BY <4>1, UplinkStepKeeps
    <3> QED
      BY <2>3, <3>1, <3>2 DEF WorkerStep
  <2> QED
    BY <2>1, <2>2, <2>3
<1>11. CASE OthersChange
  BY <1>11, OthersChangeStep
<1>12. CASE UNCHANGED streamVars
  <2>1. UplinkIsBound' /\ \A g \in Generation : UplinkIsSound(g)'
    BY <1>0, <1>12 DEF RegistrationsInv, UplinkIsBound, UplinkIsSound, streamVars, server
  <2>2. UplinkStep
    BY <1>0, <1>12, <2>1 DEF UplinkStep, RegistrationsInv, StreamTypeOK, streamVars, server
  <2> QED
    BY <2>2, UplinkStepKeeps
<1> QED
  BY <1>1, <1>2, <1>3, <1>4, <1>5, <1>6, <1>7, <1>8, <1>9, <1>10, <1>11, <1>12 DEF StreamsNext

(* The invariant holds in every reachable state. *)
THEOREM PageInvAlways == StreamsSpec => []PageInv
<1>1. StreamsInit => PageInv
  BY PageInvInit
<1>2. PageInv /\ [StreamsNext]_streamVars => PageInv'
  BY PageInvNext
<1> QED
  BY <1>1, <1>2, PTL DEF StreamsSpec

(* Every variable always has its type: a page, its streams and its uplinks    *)
(* hold no message the code could not have put there.                         *)
THEOREM StreamTypesAlways == StreamsSpec => []StreamTypeOK
<1>1. PageInv => StreamTypeOK
  BY DEF PageInv, RegistrationsInv
<1> QED
  BY <1>1, PageInvAlways, PTL

(* What the hub registers is always served by a goroutine that will remove    *)
(* it, and a closed lease holds no intent, for every number of streams,       *)
(* generations, connections and requests.                                     *)
THEOREM RegistrationsAlwaysServed == StreamsSpec => []RegistrationsAreServed
<1>1. PageInv => RegistrationsAreServed
  BY DEF PageInv, RegistrationsInv, RegistrationsAreServed, UplinkIsSound
<1> QED
  BY <1>1, PageInvAlways, PTL

(* What the invariant says of a stream, told of its whole content. *)
LEMMA AheadByPosition ==
  ASSUME StreamTypeOK, NEW s \in Stream
  PROVE  /\ Len(down[s]) \in Nat /\ Len(sub[s].updates) \in Nat
         /\ DOMAIN Ahead(s) = 1 .. (Len(down[s]) + Len(sub[s].updates))
         /\ \A i \in 1 .. Len(down[s]) : Ahead(s)[i] = down[s][i]
         /\ \A i \in 1 .. Len(sub[s].updates) : Ahead(s)[Len(down[s]) + i] = sub[s].updates[i]
         /\ \A i \in 1 .. Len(sub[s].updates) :
              Shows(sub[s].updates[i]) /\ sub[s].updates[i].revision \in Nat
         /\ \A i \in 1 .. Len(down[s]) : down[s][i].revision \in Nat
<1> DEFINE q == down[s]
           u == sub[s].updates
<1>1. q \in Seq(Sendable) /\ u \in Seq(QueuedUpdate)
  BY DEF StreamTypeOK, Subscription
<1>2. Ahead(s) = q \o u
  BY DEF Ahead
<1> HIDE DEF q, u
<1>3. /\ Len(q) \in Nat /\ Len(u) \in Nat
      /\ DOMAIN (q \o u) = 1 .. (Len(q) + Len(u))
      /\ \A i \in 1 .. Len(q) : (q \o u)[i] = q[i]
      /\ \A i \in 1 .. Len(u) : (q \o u)[Len(q) + i] = u[i]
  <2>1. /\ Len(q) \in Nat /\ Len(u) \in Nat
        /\ DOMAIN (q \o u) = 1 .. (Len(q) + Len(u))
        /\ \A i \in 1 .. Len(q) : (q \o u)[i] = q[i]
    BY <1>1
  <2>2. ASSUME NEW i \in 1 .. Len(u) PROVE (q \o u)[Len(q) + i] = u[i]
    <3> DEFINE j == Len(q) + i
    <3>1. j \in 1 .. (Len(q) + Len(u)) /\ j > Len(q) /\ j - Len(q) = i
      BY <2>1
    <3> HIDE DEF j
    <3>2. (q \o u)[j] = u[j - Len(q)]
      BY <1>1, <2>1, <3>1
    <3> QED
      BY <3>1, <3>2 DEF j
  <2> QED
    BY <2>1, <2>2
<1>4. /\ \A i \in 1 .. Len(u) : u[i] \in QueuedUpdate
      /\ \A i \in 1 .. Len(q) : q[i] \in Sendable
  BY <1>1
<1>5. /\ \A i \in 1 .. Len(u) : Shows(u[i]) /\ u[i].revision \in Nat
      /\ \A i \in 1 .. Len(q) : q[i].revision \in Nat
  BY <1>4 DEF QueuedUpdate, Sendable, Message, Shows
<1> QED
  BY <1>2, <1>3, <1>5 DEF q, u

(* The invariant puts what a stream shows into order. *)
LEMMA InvAdvances == PageInv => StreamOnlyAdvances
<1> SUFFICES ASSUME PageInv, NEW s \in Stream, NEW i \in DOMAIN Ahead(s), Shows(Ahead(s)[i])
             PROVE  /\ page.at = "live" /\ page.stream = s => page.shown.revision < Ahead(s)[i].revision
                    /\ \A j \in DOMAIN Ahead(s) :
                         j > i /\ Shows(Ahead(s)[j]) => Ahead(s)[i].revision < Ahead(s)[j].revision
  BY DEF StreamOnlyAdvances
<1> DEFINE n == Len(down[s])
           k == Len(sub[s].updates)
           all == Ahead(s)
<1>1. StreamTypeOK /\ DownOrdered(s) /\ QueueOrdered(s) /\ ShownIsOlder(s)
  BY DEF PageInv, RegistrationsInv, UpdatesInv, StreamIsSound
<1>2. /\ n \in Nat /\ k \in Nat /\ DOMAIN all = 1 .. (n + k)
      /\ \A x \in 1 .. n : all[x] = down[s][x]
      /\ \A x \in 1 .. k : all[n + x] = sub[s].updates[x]
  BY <1>1, AheadByPosition
<1>3. \A x \in DOMAIN all : x \in 1 .. n \/ (x - n \in 1 .. k /\ x = n + (x - n) /\ x > n)
  <2> HIDE DEF n, k, all
  <2>1. n \in Nat /\ k \in Nat /\ DOMAIN all = 1 .. (n + k)
    BY <1>2
  <2>2. \A x \in 1 .. (n + k) : x \in 1 .. n \/ (x - n \in 1 .. k /\ x = n + (x - n) /\ x > n)
    BY <2>1
  <2> QED
    BY <2>1, <2>2
<1>4. \A x \in 1 .. n : Shows(down[s][x]) =>
        /\ \A y \in 1 .. n : y > x /\ Shows(down[s][y]) => down[s][x].revision < down[s][y].revision
        /\ \A y \in 1 .. k : down[s][x].revision < sub[s].updates[y].revision
        /\ page.at = "live" /\ page.stream = s => page.shown.revision < down[s][x].revision
  BY <1>1 DEF DownOrdered, ShownIsOlder
<1>5. \A x \in 1 .. k :
        /\ \A y \in 1 .. k : y > x => sub[s].updates[x].revision < sub[s].updates[y].revision
        /\ page.at = "live" /\ page.stream = s => page.shown.revision < sub[s].updates[x].revision
  BY <1>1 DEF QueueOrdered, ShownIsOlder
<1> HIDE DEF n, k, all
<1>6. CASE i \in 1 .. n
  <2>1. all[i] = down[s][i] /\ Shows(down[s][i])
    BY <1>2, <1>6 DEF all
  <2>2. ASSUME NEW j \in DOMAIN all, j > i, Shows(all[j]) PROVE all[i].revision < all[j].revision
    <3>1. CASE j \in 1 .. n
      BY <1>2, <1>4, <1>6, <2>1, <2>2, <3>1
    <3>2. CASE j - n \in 1 .. k /\ j = n + (j - n)
      <4>1. all[j] = sub[s].updates[j - n]
        BY <1>2, <3>2
      <4> QED
        BY <1>4, <1>6, <2>1, <3>2, <4>1
    <3> QED
      BY <1>3, <3>1, <3>2
  <2> QED
    BY <1>4, <1>6, <2>1, <2>2 DEF all
<1>7. CASE i - n \in 1 .. k /\ i = n + (i - n) /\ i > n
  <2>1. all[i] = sub[s].updates[i - n]
    BY <1>2, <1>7
  <2>2. ASSUME NEW j \in DOMAIN all, j > i PROVE all[i].revision < all[j].revision
    <3>1. j \in Nat /\ i \in Nat
      BY <1>2 DEF all
    <3>2. j \notin 1 .. n
      BY <1>2, <1>7, <2>2, <3>1
    <3>3. j - n \in 1 .. k /\ j = n + (j - n) /\ j - n > i - n
      BY <1>2, <1>3, <1>7, <2>2, <3>1, <3>2
    <3>4. all[j] = sub[s].updates[j - n]
      BY <1>2, <3>3
    <3> QED
      BY <1>5, <1>7, <2>1, <3>3, <3>4
  <2> QED
    BY <1>5, <1>7, <2>1, <2>2 DEF all
<1> QED
  BY <1>3, <1>6, <1>7 DEF all

(* The invariant says what arrives last on a registered stream. *)
LEMMA InvCurrent == PageInv => OpenStreamIsCurrent
<1> SUFFICES ASSUME PageInv, NEW s \in hub.ids, s \notin cut, s = page.stream
             PROVE  \/ \E i \in DOMAIN Ahead(s) :
                         /\ Shows(Ahead(s)[i])
                         /\ Ahead(s)[i].revision = committed /\ Ahead(s)[i].cursor = cursor
                         /\ \A j \in DOMAIN Ahead(s) : j > i => ~Shows(Ahead(s)[j])
                    \/ /\ \A i \in DOMAIN Ahead(s) : ~Shows(Ahead(s)[i])
                       /\ page.at = "live" /\ page.shown.revision = committed /\ page.shown.cursor = cursor
  BY DEF OpenStreamIsCurrent
<1> DEFINE n == Len(down[s])
           k == Len(sub[s].updates)
           all == Ahead(s)
<1>0. s \in Stream
  BY DEF PageInv, RegistrationsInv, StreamTypeOK, HubType
<1>1. /\ StreamTypeOK /\ DownOrdered(s) /\ QueueOrdered(s) /\ Carries(s) /\ sub[s].last = committed
      /\ committed \in Nat /\ StreamOnlyAdvances
  BY <1>0, InvAdvances DEF PageInv, RegistrationsInv, UpdatesInv, StreamIsSound, StreamTypeOK
<1>2. /\ n \in Nat /\ k \in Nat /\ DOMAIN all = 1 .. (n + k)
      /\ \A x \in 1 .. n : all[x] = down[s][x] /\ down[s][x].revision \in Nat
      /\ \A x \in 1 .. k : /\ all[n + x] = sub[s].updates[x]
                           /\ Shows(sub[s].updates[x]) /\ sub[s].updates[x].revision \in Nat
  BY <1>0, <1>1, AheadByPosition
<1>3. /\ \A x \in 1 .. n : Shows(down[s][x]) => down[s][x].revision <= committed
      /\ \A x \in 1 .. k : sub[s].updates[x].revision <= committed
  BY <1>1 DEF DownOrdered, QueueOrdered
<1>4. \A x \in DOMAIN all : Shows(all[x]) =>
        /\ all[x].revision <= committed /\ all[x].revision \in Nat
        /\ page.at = "live" => page.shown.revision < all[x].revision
        /\ \A y \in DOMAIN all : y > x /\ Shows(all[y]) => all[x].revision < all[y].revision
  <2>1. ASSUME NEW x \in DOMAIN all, Shows(all[x])
        PROVE  all[x].revision <= committed /\ all[x].revision \in Nat
    <3>1. CASE x \in 1 .. n
      BY <1>2, <1>3, <2>1, <3>1
    <3>2. CASE x \notin 1 .. n
      <4> HIDE DEF n, k, all
      <4>0. n \in Nat /\ k \in Nat /\ x \in 1 .. (n + k)
        BY <1>2
      <4>1. x - n \in 1 .. k /\ x = n + (x - n)
        BY <3>2, <4>0
      <4>2. all[x] = sub[s].updates[x - n]
        BY <1>2, <4>1
      <4> QED
        BY <1>2, <1>3, <4>1, <4>2
    <3> QED
      BY <3>1, <3>2
  <2> QED
    BY <1>0, <1>1, <2>1 DEF StreamOnlyAdvances
<1>5. ASSUME NEW i \in DOMAIN all, Shows(all[i]), Current(all[i])
      PROVE  \E x \in DOMAIN all : /\ Shows(all[x])
                                   /\ all[x].revision = committed /\ all[x].cursor = cursor
                                   /\ \A j \in DOMAIN all : j > x => ~Shows(all[j])
  <2>1. ASSUME NEW j \in DOMAIN all, j > i, Shows(all[j]) PROVE FALSE
    <3>1. all[i].revision < all[j].revision /\ all[j].revision <= committed /\ all[j].revision \in Nat
      BY <1>4, <1>5, <2>1
    <3> QED
      BY <1>1, <1>5, <3>1 DEF Current
  <2> QED
    BY <1>5, <2>1 DEF Current
<1> HIDE DEF n, k, all
<1>6. CASE \E i \in 1 .. n : Shows(down[s][i]) /\ Current(down[s][i])
  <2>1. PICK i \in 1 .. n : Shows(down[s][i]) /\ Current(down[s][i])
    BY <1>6
  <2>2. i \in DOMAIN all /\ all[i] = down[s][i]
    BY <1>2
  <2> QED
    BY <1>5, <2>1, <2>2 DEF all
<1>7. CASE \E i \in 1 .. k : Current(sub[s].updates[i])
  <2>1. PICK i \in 1 .. k : Current(sub[s].updates[i])
    BY <1>7
  <2>2. n + i \in DOMAIN all /\ all[n + i] = sub[s].updates[i] /\ Shows(sub[s].updates[i])
    BY <1>2
  <2> QED
    BY <1>5, <2>1, <2>2 DEF all
<1>8. CASE page.at = "live" /\ Current(page.shown)
  <2>1. ASSUME NEW i \in DOMAIN all, Shows(all[i]) PROVE FALSE
    <3>1. committed < all[i].revision /\ all[i].revision <= committed /\ all[i].revision \in Nat
      BY <1>4, <1>8, <2>1 DEF Current
    <3> QED
      BY <1>1, <3>1
  <2> QED
    BY <1>8, <2>1 DEF Current, all
<1> QED
  BY <1>1, <1>6, <1>7, <1>8 DEF Carries, n, k

(* An open stream always brings the page forward, and what arrives last on a  *)
(* registered one is the coordinator's state, for every number of streams,    *)
(* generations and changes, every queue and every send window.                *)
THEOREM StreamsAlwaysCurrent == StreamsSpec => []StreamsAreCurrent
<1>1. PageInv => StreamsAreCurrent
  BY InvCurrent, InvAdvances DEF StreamsAreCurrent
<1> QED
  BY <1>1, PageInvAlways, PTL

-----------------------------------------------------------------------------
(* Places of a tree.                                                        *)

LEMMA GreatestIsThere ==
  ASSUME NEW n \in Nat, NEW S \in SUBSET (0 .. n), S # {}
  PROVE  Max(S) \in S /\ \A y \in S : Max(S) >= y
<1> DEFINE R == OpToRel(<, Nat)
           T == {m \in Nat : n - m \in S}
<1>1. PICK s \in S : TRUE
  OBVIOUS
<1>2. s \in 0 .. n
  OBVIOUS
<1>3. n - s \in T
  <2>1. n - s \in Nat /\ n - (n - s) = s
    BY <1>2
  <2> QED
    BY <2>1, <1>1
<1>4. PICK x \in T : \A y \in T : ~(<<y, x>> \in R)
  <2>1. IsWellFoundedOn(R, Nat)
    BY NatLessThanWellFounded
  <2>2. T \subseteq Nat /\ T # {}
    BY <1>3
  <2> HIDE DEF R, T
  <2> QED
    BY <2>1, <2>2, WFMin
<1>5. \A y \in S : n - x >= y
  <2> SUFFICES ASSUME NEW y \in S  PROVE n - x >= y
    OBVIOUS
  <2>1. y \in 0 .. n
    OBVIOUS
  <2>2. n - y \in T
    <3>1. n - y \in Nat /\ n - (n - y) = y
      BY <2>1
    <3> QED
      BY <3>1
  <2>3. ~(n - y < x)
    <3>1. <<n - y, x>> \notin R
      BY <1>4, <2>2
    <3> QED
      BY <3>1, <2>2 DEF OpToRel
  <2> QED
    BY <2>1, <2>3
<1>6. n - x \in S
  OBVIOUS
<1> HIDE DEF T, R
<1> QED
  BY <1>5, <1>6 DEF Max

\* A folder on a valid path, and the prefix that is left of a path.
LEMMA PathIsCut ==
  ASSUME NEW tree, NEW path \in Seq(Folder) \ {<<>>}
  PROVE  ValidPath(tree, path) \in Seq(Folder) \ {<<>>}
<1> DEFINE S == {n \in 1 .. Len(path) : \A i \in 2 .. n : path[i] \in Children(tree, path[i - 1])}
<1>1. Len(path) \in Nat \ {0}
  OBVIOUS
<1>2. S \in SUBSET (0 .. Len(path)) /\ 1 \in S
  BY <1>1
<1>3. Max(S) \in 1 .. Len(path)
  <2>1. Max(S) \in S
    <3> HIDE DEF S
    <3> QED
      BY <1>1, <1>2, GreatestIsThere
  <2> QED
    BY <2>1
<1>4. ValidPath(tree, path) = SubSeq(path, 1, Max(S))
  BY DEF ValidPath
<1> HIDE DEF S
<1>5. SubSeq(path, 1, Max(S)) \in Seq(Folder) /\ Len(SubSeq(path, 1, Max(S))) = Max(S)
  BY <1>1, <1>3
<1> QED
  BY <1>3, <1>4, <1>5

LEMMA LastIsThere ==
  ASSUME NEW F, NEW path \in Seq(F) \ {<<>>}
  PROVE  Last(path) \in F
<1>1. Len(path) \in Nat \ {0}
  OBVIOUS
<1> QED
  BY <1>1 DEF Last

\* The way to the root is the root.
LEMMA RootIsFound ==
  ASSUME NEW tree
  PROVE  <<"root">> \in Locate(tree, "root")
<1>0. "root" \in Folder /\ IsFiniteSet(Folder)
  BY TreeAssumption
<1>1. 1 \in 1 .. Cardinality(Folder)
  <2>1. Cardinality(Folder) \in Nat
    BY <1>0, FS_CardinalityType
  <2>2. Cardinality(Folder) # 0
    BY <1>0, FS_EmptySet
  <2> QED
    BY <2>1, <2>2
<1>2. <<"root">> \in [1 .. 1 -> Folder]
  BY <1>0
<1>3. <<"root">> \in UNION {[1 .. n -> Folder] : n \in 1 .. Cardinality(Folder)}
  BY <1>1, <1>2
<1>4. <<"root">>[1] = "root" /\ Last(<<"root">>) = "root"
  BY DEF Last
<1>5. \A i \in 2 .. Len(<<"root">>) : <<"root">>[i] \in Children(tree, <<"root">>[i - 1])
  OBVIOUS
<1> QED
  BY <1>3, <1>4, <1>5 DEF Locate

LEMMA PathsAreFound ==
  ASSUME NEW tree, NEW folder, NEW path \in Locate(tree, folder)
  PROVE  /\ path \in Seq(Folder) \ {<<>>}
         /\ path[1] = "root"
<1>1. PICK n \in 1 .. Cardinality(Folder) : path \in [1 .. n -> Folder]
  BY DEF Locate
<1>2. n \in Nat \ {0}
  <2>1. Cardinality(Folder) \in Nat
    BY TreeAssumption, FS_CardinalityType
  <2> QED
    BY <2>1
<1>3. path \in Seq(Folder)
  BY <1>1, <1>2
<1>4. path # <<>>
  BY <1>1, <1>2
<1> QED
  BY <1>3, <1>4 DEF Locate

LEMMA FolderIsRestored ==
  ASSUME NEW tree, NEW saved \in Saved
  PROVE  RestoreFolder(tree, saved) \in NavState
<1> DEFINE S == {n \in 1 .. Len(saved) : Locate(tree, saved[n]) # {}}
           path == CHOOSE path \in Locate(tree, saved[Max(S)]) : TRUE
<1>1. saved \in Seq(Folder) \ {<<>>} /\ saved[1] = "root"
  <2>1. PICK old, f : saved \in Locate(old, f)
    BY DEF Saved
  <2> QED
    BY <2>1, PathsAreFound
<1>2. Len(saved) \in Nat \ {0}
  BY <1>1
<1>3. S \in SUBSET (0 .. Len(saved)) /\ 1 \in S
  BY <1>1, <1>2, RootIsFound
<1>4. Max(S) \in S
  <2> HIDE DEF S
  <2> QED
    BY <1>2, <1>3, GreatestIsThere
<1>5. path \in Locate(tree, saved[Max(S)])
  BY <1>4
<1>6. RestoreFolder(tree, saved) = Nav(path, Nil, Nil)
  BY DEF RestoreFolder
<1> HIDE DEF path, S
<1>7. path \in Seq(Folder) \ {<<>>}
  BY <1>5, PathsAreFound
<1> QED
  BY <1>6, <1>7 DEF Nav, NavState

-----------------------------------------------------------------------------
(* HackPuzzle: the spans of a board.                                        *)

Columns == Seq(Seq(Glyph))

LEMMA SpansAreSpans ==
  ASSUME NEW columns \in Columns
  PROVE  /\ Spans(columns) \subseteq PatternSpan
         /\ Spans(columns) \subseteq Brackets(columns)
<1> SUFFICES ASSUME NEW s \in Spans(columns)
             PROVE  s \in PatternSpan /\ s \in Brackets(columns)
  OBVIOUS
<1>1. PICK c \in DOMAIN columns : s \in SpansOf(columns[c], c)
  BY DEF Spans
<1>2. PICK i \in Starts(columns[c]) : s \in {[column |-> c, start |-> i, end |-> j] : j \in Ends(columns[c], i)}
  BY <1>1 DEF SpansOf
<1>3. PICK j \in Ends(columns[c], i) : s = [column |-> c, start |-> i, end |-> j]
  BY <1>2
<1>4. i \in DOMAIN columns[c] /\ j \in DOMAIN columns[c] /\ Span(columns[c], i, j)
  BY DEF Starts, Ends
<1>5. c \in Nat /\ i \in Nat /\ j \in Nat
  <2>1. columns[c] \in Seq(Glyph) /\ c \in Nat
    BY DEF Columns
  <2> QED
    BY <2>1, <1>4
<1>6. s \in {x \in [column : {c}, start : DOMAIN columns[c], end : DOMAIN columns[c]] :
              Span(columns[c], x.start, x.end)}
  BY <1>3, <1>4
<1> QED
  BY <1>3, <1>5, <1>6 DEF PatternSpan, Brackets

\* Letters may turn into fillers: the brackets stay, and no span is lost.
Blanked(old, new) ==
  /\ new \in Columns /\ DOMAIN new = DOMAIN old
  /\ \A c \in DOMAIN old :
       /\ DOMAIN new[c] = DOMAIN old[c]
       /\ \A i \in DOMAIN old[c] : new[c][i] = old[c][i] \/ (old[c][i] = "w" /\ new[c][i] = ".")

LEMMA SpansAreTheSame ==
  ASSUME NEW text \in Seq(Glyph), NEW other \in Seq(Glyph), DOMAIN other = DOMAIN text,
         \A i \in DOMAIN text : other[i] = text[i] \/ (text[i] = "w" /\ other[i] = "."),
         NEW i \in DOMAIN text, NEW j \in DOMAIN text
  PROVE  /\ Span(other, i, j) <=> Span(text, i, j)
         /\ ~Interrupted(text, i, j) => ~Interrupted(other, i, j)
         /\ other[i] \in Opener <=> text[i] \in Opener
<1>1. Opener = {"(", "["} /\ Closer \in [Opener -> {")", "]"}]
  BY DEF Opener, Closer
<1>2. \A k \in DOMAIN text : /\ other[k] \in Opener <=> text[k] \in Opener
                             /\ other[k] \in Opener => other[k] = text[k]
                             /\ \A o \in Opener : other[k] = Closer[o] <=> text[k] = Closer[o]
                             /\ other[k] = "w" => text[k] = "w"
  <2> SUFFICES ASSUME NEW k \in DOMAIN text
               PROVE  /\ other[k] \in Opener <=> text[k] \in Opener
                      /\ other[k] \in Opener => other[k] = text[k]
                      /\ \A o \in Opener : other[k] = Closer[o] <=> text[k] = Closer[o]
                      /\ other[k] = "w" => text[k] = "w"
    OBVIOUS
  <2>1. CASE other[k] = text[k]
    BY <2>1
  <2>2. CASE text[k] = "w" /\ other[k] = "."
    BY <2>2, <1>1
  <2> QED
    BY <2>1, <2>2
<1>3. i \in Nat /\ j \in Nat /\ \A k \in i + 1 .. j - 1 : k \in DOMAIN text
  <2>1. DOMAIN text = 1 .. Len(text) /\ Len(text) \in Nat
    OBVIOUS
  <2> QED
    BY <2>1
<1>4. Span(other, i, j) <=> Span(text, i, j)
  <2>1. CASE text[i] \in Opener
    BY <2>1, <1>2, <1>3 DEF Span
  <2>2. CASE text[i] \notin Opener
    BY <2>2, <1>2 DEF Span
  <2> QED
    BY <2>1, <2>2
<1>5. ~Interrupted(text, i, j) => ~Interrupted(other, i, j)
  BY <1>2, <1>3 DEF Interrupted
<1> QED
  BY <1>2, <1>4, <1>5

LEMMA BlankedKeepsSpans ==
  ASSUME NEW old \in Columns, NEW new \in Columns, Blanked(old, new)
  PROVE  /\ Brackets(new) = Brackets(old)
         /\ Spans(old) \subseteq Spans(new)
<1>1. \A c \in DOMAIN old :
        /\ old[c] \in Seq(Glyph) /\ new[c] \in Seq(Glyph) /\ DOMAIN new[c] = DOMAIN old[c]
        /\ \A i, j \in DOMAIN old[c] :
             /\ Span(new[c], i, j) <=> Span(old[c], i, j)
             /\ ~Interrupted(old[c], i, j) => ~Interrupted(new[c], i, j)
             /\ new[c][i] \in Opener <=> old[c][i] \in Opener
  <2> SUFFICES ASSUME NEW c \in DOMAIN old, NEW i \in DOMAIN old[c], NEW j \in DOMAIN old[c]
               PROVE  /\ old[c] \in Seq(Glyph) /\ new[c] \in Seq(Glyph) /\ DOMAIN new[c] = DOMAIN old[c]
                      /\ Span(new[c], i, j) <=> Span(old[c], i, j)
                      /\ ~Interrupted(old[c], i, j) => ~Interrupted(new[c], i, j)
                      /\ new[c][i] \in Opener <=> old[c][i] \in Opener
    <3>1. \A c \in DOMAIN old : old[c] \in Seq(Glyph) /\ new[c] \in Seq(Glyph) /\ DOMAIN new[c] = DOMAIN old[c]
      BY DEF Blanked, Columns
    <3> QED
      BY <3>1
  <2>1. old[c] \in Seq(Glyph) /\ new[c] \in Seq(Glyph) /\ DOMAIN new[c] = DOMAIN old[c]
    BY DEF Blanked, Columns
  <2>2. \A k \in DOMAIN old[c] : new[c][k] = old[c][k] \/ (old[c][k] = "w" /\ new[c][k] = ".")
    BY DEF Blanked
  <2> QED
    BY <2>1, <2>2, SpansAreTheSame
<1>2. DOMAIN new = DOMAIN old
  BY DEF Blanked
<1>3. Brackets(new) = Brackets(old)
  <2>1. \A c \in DOMAIN old :
          {s \in [column : {c}, start : DOMAIN new[c], end : DOMAIN new[c]] : Span(new[c], s.start, s.end)}
            = {s \in [column : {c}, start : DOMAIN old[c], end : DOMAIN old[c]] : Span(old[c], s.start, s.end)}
    BY <1>1
  <2> QED
    BY <1>2, <2>1 DEF Brackets
<1>4. ASSUME NEW s \in Spans(old)  PROVE s \in Spans(new)
  <2>1. PICK c \in DOMAIN old : s \in SpansOf(old[c], c)
    BY DEF Spans
  <2>2. PICK i \in Starts(old[c]) : s \in {[column |-> c, start |-> i, end |-> j] : j \in Ends(old[c], i)}
    BY <2>1 DEF SpansOf
  <2>3. PICK j \in Ends(old[c], i) : s = [column |-> c, start |-> i, end |-> j]
    BY <2>2
  <2>4. i \in DOMAIN old[c] /\ j \in DOMAIN old[c]
    BY DEF Starts, Ends
  <2>5. i \in Starts(new[c]) /\ j \in Ends(new[c], i)
    BY <2>4, <1>1 DEF Starts, Ends
  <2>6. s \in SpansOf(new[c], c)
    BY <2>3, <2>5 DEF SpansOf
  <2> QED
    BY <2>6, <1>2 DEF Spans
<1> QED
  BY <1>3, <1>4

LEMMA BracketsAreFinite ==
  ASSUME NEW columns \in Columns
  PROVE  IsFiniteSet(Brackets(columns))
<1> DEFINE Place(c) == [column : {c}, start : DOMAIN columns[c], end : DOMAIN columns[c]]
           In(c) == {s \in Place(c) : Span(columns[c], s.start, s.end)}
<1>1. ASSUME NEW c \in DOMAIN columns  PROVE IsFiniteSet(In(c))
  <2> DEFINE D == DOMAIN columns[c]
             f == [x \in D \X D |-> [column |-> c, start |-> x[1], end |-> x[2]]]
  <2>1. IsFiniteSet(D)
    <3>1. columns[c] \in Seq(Glyph)
      BY DEF Columns
    <3>2. D = 1 .. Len(columns[c]) /\ Len(columns[c]) \in Int
      BY <3>1
    <3> QED
      BY <3>2, FS_Interval
  <2>2. IsFiniteSet(D \X D)
    BY <2>1, FS_Product
  <2>3. f \in Surjection(D \X D, Place(c))
    <3>1. f \in [D \X D -> Place(c)]
      OBVIOUS
    <3>2. ASSUME NEW s \in Place(c)  PROVE \E x \in D \X D : f[x] = s
      <4>1. <<s.start, s.end>> \in D \X D /\ s = [column |-> c, start |-> s.start, end |-> s.end]
        OBVIOUS
      <4> WITNESS <<s.start, s.end>> \in D \X D
      <4> QED
        BY <4>1
    <3> HIDE DEF f
    <3> QED
      BY <3>1, <3>2 DEF Surjection
  <2>4. IsFiniteSet(Place(c))
    <3> HIDE DEF f, D, Place
    <3> QED
      BY <2>2, <2>3, FS_Surjection
  <2>5. In(c) \in SUBSET Place(c)
    OBVIOUS
  <2> HIDE DEF Place, In
  <2> QED
    BY <2>4, <2>5, FS_Subset
<1>2. IsFiniteSet(DOMAIN columns)
  <2>1. DOMAIN columns = 1 .. Len(columns) /\ Len(columns) \in Int
    BY DEF Columns
  <2> QED
    BY <2>1, FS_Interval
<1>3. IsFiniteSet({In(c) : c \in DOMAIN columns})
  <2> DEFINE g == [c \in DOMAIN columns |-> In(c)]
  <2> HIDE DEF In
  <2>1. g \in Surjection(DOMAIN columns, {In(c) : c \in DOMAIN columns})
    BY DEF Surjection
  <2> HIDE DEF g
  <2> QED
    BY <1>2, <2>1, FS_Surjection
<1>4. \A T \in {In(c) : c \in DOMAIN columns} : IsFiniteSet(T)
  BY <1>1
<1>5. Brackets(columns) = UNION {In(c) : c \in DOMAIN columns}
  BY DEF Brackets
<1> HIDE DEF In
<1> QED
  BY <1>3, <1>4, <1>5, FS_UNION

-----------------------------------------------------------------------------
(* HackPuzzle: the board.                                                   *)

\* A board: its candidates stand apart, letter by letter, and the secret is one of them.
BoardInv(p) ==
  /\ \A w \in p.words :
       /\ w.column \in DOMAIN p.columns /\ w.start \in Nat \ {0}
       /\ w.start + WordLength - 1 <= Len(p.columns[w.column])
       /\ \A i \in Cells(w) : p.columns[w.column][i] = "w"
  /\ \A v, w \in p.words : v # w /\ v.column = w.column =>
       v.start + WordLength <= w.start \/ w.start + WordLength <= v.start
  /\ \E w \in p.words : w.text = p.secret

\* A puzzle under way has attempts left, and ends in one way.
PuzzleInv(p) ==
  /\ p \in HackState /\ BoardInv(p)
  /\ p.left <= MaximumAttempts /\ (p.left = 0 <=> p.failed)
  /\ ~(p.solved /\ p.failed)

\* What a move makes of a puzzle.
Advance(p, q) ==
  /\ PuzzleInv(q) /\ q.gen = p.gen
  /\ Spans(p.columns) \subseteq Spans(q.columns) /\ p.used \subseteq q.used
  /\ p # q /\ Playing(q) => Moves(q) < Moves(p)

LEMMA CandidatesAreWords ==
  ASSUME NEW b \in Boards
  PROVE  b.words \subseteq Candidates
BY DEF Candidates

LEMMA BoardsAreSound ==
  ASSUME NEW g \in Nat, NEW p \in GenerateBoard(g), p # Nil
  PROVE  PuzzleInv(p) /\ p.gen = g /\ ~p.solved /\ ~p.failed
<1>0. /\ RowWidth \in Nat \ {0} /\ WordLength \in Nat \ {0} /\ MaximumAttempts \in Nat \ {0} /\ WordGap \in Nat
      /\ \A b \in Boards :
           /\ b.columns \in Columns /\ b.secret \in {w.text : w \in b.words}
           /\ \A w \in b.words : /\ w.column \in DOMAIN b.columns /\ w.start \in Nat \ {0}
                                /\ w.start + WordLength - 1 <= Len(b.columns[w.column])
  BY BoardAssumption DEF Columns
<1>1. PICK b \in Boards :
        /\ Placed(b)
        /\ p = [gen |-> g, columns |-> b.columns, words |-> b.words, secret |-> b.secret, used |-> {},
                left |-> MaximumAttempts, solved |-> FALSE, failed |-> FALSE]
  BY DEF GenerateBoard
<1>2. /\ p.gen = g /\ p.columns = b.columns /\ p.words = b.words /\ p.secret = b.secret /\ p.used = {}
      /\ p.left = MaximumAttempts /\ p.solved = FALSE /\ p.failed = FALSE
  BY <1>1
<1>3. p \in HackState
  <2>1. b.words \in SUBSET Candidates
    BY CandidatesAreWords
  <2>2. b.secret \in {w.text : w \in Candidates}
    BY <1>0, <2>1
  <2> QED
    BY <1>0, <1>1, <2>1, <2>2 DEF HackState, Columns
<1>4. BoardInv(p)
  <2>1. ASSUME NEW w \in b.words, NEW i \in Cells(w)  PROVE b.columns[w.column][i] = "w"
    <3>1. w.column \in DOMAIN b.columns /\ w.start \in Nat \ {0}
          /\ w.start + WordLength - 1 <= Len(b.columns[w.column])
      BY <1>0
    <3>2. b.columns[w.column] \in Seq(Glyph)
      BY <1>0, <3>1 DEF Columns
    <3>3. i \in DOMAIN b.columns[w.column]
      BY <1>0, <3>1, <3>2 DEF Cells
    <3>4. InWord(b.words, w.column, i)
      BY DEF InWord
    <3> QED
      BY <1>1, <3>1, <3>3, <3>4 DEF Placed
  <2>2. ASSUME NEW v \in b.words, NEW w \in b.words, v # w, v.column = w.column
        PROVE  v.start + WordLength <= w.start \/ w.start + WordLength <= v.start
    <3>1. v.start \in Nat /\ w.start \in Nat
      BY <1>0
    <3>2. \/ v.start + WordLength + WordGap <= w.start
          \/ w.start + WordLength + WordGap <= v.start
      BY <1>1, <2>2 DEF Placed
    <3> QED
      BY <1>0, <3>1, <3>2
  <2>3. \E w \in b.words : w.text = b.secret
    BY <1>0
  <2> QED
    BY <1>0, <1>2, <2>1, <2>2, <2>3 DEF BoardInv
<1> QED
  BY <1>0, <1>2, <1>3, <1>4 DEF PuzzleInv

\* What dotCandidate does to a text.
LEMMA DottedIsBlanked ==
  ASSUME NEW p \in HackState, BoardInv(p), NEW w \in p.words
  PROVE  LET q == Dotted(p, w) IN
         /\ Blanked(p.columns, q.columns)
         /\ \A c \in DOMAIN p.columns : c # w.column => q.columns[c] = p.columns[c]
         /\ \A i \in DOMAIN p.columns[w.column] : i \notin Cells(w) => q.columns[w.column][i] = p.columns[w.column][i]
         /\ q.words = p.words \ {w}
         /\ q \in HackState
         /\ q.gen = p.gen /\ q.secret = p.secret /\ q.used = p.used
         /\ q.left = p.left /\ q.solved = p.solved /\ q.failed = p.failed
<1> DEFINE q == Dotted(p, w)
           text == p.columns[w.column]
           blank == [i \in DOMAIN text |-> IF i \in Cells(w) THEN "." ELSE text[i]]
           columns == [p.columns EXCEPT ![w.column] = blank]
<1>1. /\ p.columns \in Columns /\ p.words \in SUBSET Candidates
      /\ w.column \in DOMAIN p.columns
      /\ \A i \in Cells(w) : text[i] = "w"
  BY DEF HackState, BoardInv, Columns
<1>2. text \in Seq(Glyph)
  BY <1>1 DEF Columns
<1>3. blank \in Seq(Glyph) /\ DOMAIN blank = DOMAIN text
  <2>1. "." \in Glyph
    BY DEF Glyph
  <2>2. DOMAIN text = 1 .. Len(text) /\ Len(text) \in Nat /\ \A i \in DOMAIN text : text[i] \in Glyph
    BY <1>2
  <2>3. blank \in [1 .. Len(text) -> Glyph]
    BY <2>1, <2>2
  <2> HIDE DEF blank, text
  <2> QED
    BY <2>2, <2>3
<1>4. columns \in Columns /\ DOMAIN columns = DOMAIN p.columns
  <2>1. DOMAIN p.columns = 1 .. Len(p.columns) /\ Len(p.columns) \in Nat
        /\ \A c \in DOMAIN p.columns : p.columns[c] \in Seq(Glyph)
    BY <1>1 DEF Columns
  <2> HIDE DEF blank
  <2>2. columns \in [1 .. Len(p.columns) -> Seq(Glyph)]
    BY <1>3, <2>1
  <2> HIDE DEF columns
  <2> QED
    BY <2>1, <2>2 DEF Columns
<1>5. /\ columns[w.column] = blank
      /\ \A c \in DOMAIN p.columns : c # w.column => columns[c] = p.columns[c]
  BY <1>1
<1>6. q = [p EXCEPT !.words = @ \ {w}, !.columns = columns]
  BY DEF Dotted
<1>7. \A i \in DOMAIN text : blank[i] = text[i] \/ (text[i] = "w" /\ blank[i] = ".")
  BY <1>1
<1>8. \A i \in DOMAIN text : i \notin Cells(w) => blank[i] = text[i]
  OBVIOUS
<1> HIDE DEF columns, blank, q
<1>9. /\ q.columns = columns /\ q.words = p.words \ {w}
      /\ q.gen = p.gen /\ q.secret = p.secret /\ q.used = p.used
      /\ q.left = p.left /\ q.solved = p.solved /\ q.failed = p.failed
      /\ q \in HackState
  <2>1. columns \in Seq(Seq(Glyph)) /\ p.words \ {w} \in SUBSET Candidates
    BY <1>1, <1>4 DEF Columns
  <2> QED
    BY <1>6, <2>1 DEF HackState
<1>10. Blanked(p.columns, columns)
  <2>1. ASSUME NEW c \in DOMAIN p.columns
        PROVE  /\ DOMAIN columns[c] = DOMAIN p.columns[c]
               /\ \A i \in DOMAIN p.columns[c] :
                    columns[c][i] = p.columns[c][i] \/ (p.columns[c][i] = "w" /\ columns[c][i] = ".")
    <3>1. CASE c = w.column
      BY <3>1, <1>3, <1>5, <1>7
    <3>2. CASE c # w.column
      BY <3>2, <1>5
    <3> QED
      BY <3>1, <3>2
  <2> QED
    BY <1>4, <2>1 DEF Blanked
<1>11. \A i \in DOMAIN text : i \notin Cells(w) => columns[w.column][i] = text[i]
  BY <1>5, <1>8
<1> QED
  BY <1>5, <1>9, <1>10, <1>11 DEF q

LEMMA DottedIsABoard ==
  ASSUME NEW p \in HackState, BoardInv(p), NEW w \in p.words, w.text # p.secret
  PROVE  BoardInv(Dotted(p, w))
<1> DEFINE q == Dotted(p, w)
<1>1. /\ Blanked(p.columns, q.columns)
      /\ \A c \in DOMAIN p.columns : c # w.column => q.columns[c] = p.columns[c]
      /\ \A i \in DOMAIN p.columns[w.column] : i \notin Cells(w) => q.columns[w.column][i] = p.columns[w.column][i]
      /\ q.words = p.words \ {w}
      /\ q.secret = p.secret
      /\ q \in HackState
  BY DottedIsBlanked
<1> HIDE DEF q
<1>0. WordLength \in Nat \ {0}
  BY BoardAssumption
<1>2. /\ p.columns \in Columns /\ q.columns \in Columns
      /\ \A v \in p.words :
           /\ v.column \in DOMAIN p.columns /\ v.start \in Nat \ {0}
           /\ v.start + WordLength - 1 <= Len(p.columns[v.column])
           /\ \A i \in Cells(v) : p.columns[v.column][i] = "w"
  BY <1>1 DEF BoardInv, HackState, Columns
<1>3. ASSUME NEW v \in q.words
      PROVE  /\ v.column \in DOMAIN q.columns /\ v.start \in Nat \ {0}
             /\ v.start + WordLength - 1 <= Len(q.columns[v.column])
             /\ \A i \in Cells(v) : q.columns[v.column][i] = "w"
  <2>1. v \in p.words /\ v # w
    BY <1>1
  <2>2. /\ v.column \in DOMAIN q.columns
        /\ DOMAIN q.columns[v.column] = DOMAIN p.columns[v.column]
    BY <1>1, <1>2, <2>1 DEF Blanked
  <2>3. p.columns[v.column] \in Seq(Glyph) /\ q.columns[v.column] \in Seq(Glyph)
    BY <1>2, <2>1, <2>2 DEF Columns
  <2>4. Len(q.columns[v.column]) = Len(p.columns[v.column])
    BY <2>2, <2>3
  <2>5. ASSUME NEW i \in Cells(v)  PROVE q.columns[v.column][i] = "w"
    <3>1. i \in DOMAIN p.columns[v.column]
      BY <1>0, <1>2, <2>1, <2>3 DEF Cells
    <3>2. CASE v.column = w.column
      <4>1. v.start + WordLength <= w.start \/ w.start + WordLength <= v.start
        BY <2>1, <3>2 DEF BoardInv
      <4>2. i \notin Cells(w)
        BY <1>0, <1>2, <2>1, <4>1 DEF Cells
      <4> QED
        BY <1>1, <1>2, <2>1, <3>1, <3>2, <4>2
    <3>3. CASE v.column # w.column
      BY <1>1, <1>2, <2>1, <3>3
    <3> QED
      BY <3>2, <3>3
  <2> QED
    BY <1>2, <2>1, <2>2, <2>4, <2>5
<1>4. \A v, x \in q.words : v # x /\ v.column = x.column =>
        v.start + WordLength <= x.start \/ x.start + WordLength <= v.start
  BY <1>1 DEF BoardInv
<1>5. \E v \in q.words : v.text = q.secret
  BY <1>1 DEF BoardInv
<1>6. BoardInv(q)
  BY <1>3, <1>4, <1>5 DEF BoardInv
<1> QED
  BY <1>6 DEF q

-----------------------------------------------------------------------------
(* HackPuzzle: the moves.                                                   *)

LEMMA BracketsLeftAreCounted ==
  ASSUME NEW p \in HackState
  PROVE  /\ IsFiniteSet(Brackets(p.columns) \ p.used)
         /\ Cardinality(Brackets(p.columns) \ p.used) \in Nat
<1>1. p.columns \in Columns
  BY DEF HackState, Columns
<1>2. IsFiniteSet(Brackets(p.columns))
  BY <1>1, BracketsAreFinite
<1>3. IsFiniteSet(Brackets(p.columns) \ p.used)
  BY <1>2, FS_Difference
<1> QED
  BY <1>3, FS_CardinalityType

LEMMA PlayingIsPlaying ==
  ASSUME NEW p, PuzzleInv(p)
  PROVE  /\ p # Nil /\ p.left \in 0 .. MaximumAttempts /\ MaximumAttempts \in Nat \ {0}
         /\ Playing(p) <=> p.solved = FALSE /\ p.failed = FALSE
         /\ Playing(p) => p.left >= 1
<1>1. p \in HackState
  BY DEF PuzzleInv
<1>2. p # Nil
  BY <1>1, NilAssumption
<1>3. p.left \in Nat /\ p.solved \in BOOLEAN /\ p.failed \in BOOLEAN
  BY <1>1 DEF HackState
<1>4. MaximumAttempts \in Nat \ {0}
  BY BoardAssumption
<1> QED
  BY <1>2, <1>3, <1>4 DEF PuzzleInv, Playing

LEMMA SolvingAdvances ==
  ASSUME NEW p, PuzzleInv(p), Playing(p)
  PROVE  Advance(p, ForceSuccess(p))
<1> DEFINE q == ForceSuccess(p)
<1>1. p \in HackState /\ p.solved = FALSE /\ p.failed = FALSE /\ BoardInv(p)
  BY PlayingIsPlaying DEF PuzzleInv
<1>2. /\ q \in HackState /\ q.solved = TRUE /\ q.failed = FALSE
      /\ q.gen = p.gen /\ q.columns = p.columns /\ q.words = p.words /\ q.secret = p.secret
      /\ q.used = p.used /\ q.left = p.left
  BY <1>1 DEF ForceSuccess, HackState
<1> HIDE DEF q
<1>3. BoardInv(q)
  BY <1>1, <1>2 DEF BoardInv
<1>4. PuzzleInv(q)
  BY <1>1, <1>2, <1>3 DEF PuzzleInv
<1>5. ~Playing(q)
  BY <1>2 DEF Playing
<1>6. Advance(p, q)
  BY <1>2, <1>4, <1>5 DEF Advance
<1> QED
  BY <1>6 DEF q

LEMMA SpendingAdvances ==
  ASSUME NEW p, PuzzleInv(p), Playing(p)
  PROVE  Advance(p, SpendAttempt(p))
<1> DEFINE q == SpendAttempt(p)
<1>1. p \in HackState /\ p.solved = FALSE /\ p.failed = FALSE /\ BoardInv(p)
      /\ p.left \in 1 .. MaximumAttempts /\ MaximumAttempts \in Nat \ {0}
  <2>1. p.left \in 0 .. MaximumAttempts /\ MaximumAttempts \in Nat \ {0} /\ p.left >= 1
    BY PlayingIsPlaying
  <2>2. p.left \in 1 .. MaximumAttempts
    BY <2>1
  <2>3. p.solved = FALSE /\ p.failed = FALSE
    BY PlayingIsPlaying
  <2> QED
    BY <2>1, <2>2, <2>3 DEF PuzzleInv
<1>2. /\ q = [p EXCEPT !.left = p.left - 1, !.failed = (p.left = 1)]
      /\ p.left - 1 \in Nat /\ (p.left = 1) \in BOOLEAN
  BY <1>1 DEF SpendAttempt
<1>3. /\ q \in HackState /\ q.solved = FALSE /\ q.failed = (p.left = 1)
      /\ q.gen = p.gen /\ q.columns = p.columns /\ q.words = p.words /\ q.secret = p.secret
      /\ q.used = p.used /\ q.left = p.left - 1
  <2> DEFINE x == p.left - 1
             f == (p.left = 1)
  <2>1. x \in Nat /\ f \in BOOLEAN /\ q = [p EXCEPT !.left = x, !.failed = f]
    BY <1>2
  <2> HIDE DEF x, f, q
  <2>2. /\ q \in HackState /\ q.solved = p.solved /\ q.failed = f
        /\ q.gen = p.gen /\ q.columns = p.columns /\ q.words = p.words /\ q.secret = p.secret
        /\ q.used = p.used /\ q.left = x
    BY <1>1, <2>1, ZenonT(20) DEF HackState
  <2> QED
    BY <1>1, <2>2 DEF x, f
<1> HIDE DEF q
<1>4. BoardInv(q)
  BY <1>1, <1>3 DEF BoardInv
<1>5. PuzzleInv(q)
  <2>0. q.left = 0 <=> p.left = 1
    BY <1>1, <1>3
  <2>1. q.left <= MaximumAttempts /\ (q.left = 0 <=> q.failed)
    <3>1. q.left <= MaximumAttempts
      BY <1>1, <1>3
    <3>2. q.left = 0 <=> q.failed
      BY <1>3, <2>0, Zenon
    <3> QED
      BY <3>1, <3>2
  <2> QED
    BY <1>3, <1>4, <2>1 DEF PuzzleInv
<1>6. Moves(q) < Moves(p)
  <2> DEFINE n == Cardinality(Brackets(p.columns) \ p.used)
  <2>1. n \in Nat
    BY <1>1, BracketsLeftAreCounted
  <2>2. Moves(q) = (MaximumAttempts + 1) * n + (p.left - 1) /\ Moves(p) = (MaximumAttempts + 1) * n + p.left
    BY <1>3 DEF Moves
  <2> HIDE DEF n
  <2> DEFINE m == (MaximumAttempts + 1) * n
  <2>3. m \in Nat
    BY <1>1, <2>1
  <2>4. Moves(q) = m + (p.left - 1) /\ Moves(p) = m + p.left
    BY <2>2
  <2> HIDE DEF m
  <2> QED
    BY <1>1, <2>3, <2>4
<1>7. Advance(p, q)
  BY <1>3, <1>5, <1>6 DEF Advance
<1> QED
  BY <1>7 DEF q

LEMMA GuessAdvances ==
  ASSUME NEW p, PuzzleInv(p), Playing(p), NEW target, ApplyGuess(p, target) # p
  PROVE  Advance(p, ApplyGuess(p, target))
<1>1. CASE Candidate(p, target) # {}
  <2>1. CASE \E w \in Candidate(p, target) : w.text = p.secret
    <3>1. ApplyGuess(p, target) = ForceSuccess(p)
      BY <1>1, <2>1 DEF ApplyGuess, ForceSuccess
    <3> QED
      BY <3>1, SolvingAdvances
  <2>2. CASE ~ \E w \in Candidate(p, target) : w.text = p.secret
    <3>1. ApplyGuess(p, target) = SpendAttempt(p)
      BY <1>1, <2>2 DEF ApplyGuess
    <3> QED
      BY <3>1, SpendingAdvances
  <2> QED
    BY <2>1, <2>2
<1>2. CASE Candidate(p, target) = {} /\ Filler(p, target) /\ ~StartsSpan(p, target)
  <2>1. ApplyGuess(p, target) = SpendAttempt(p)
    BY <1>2 DEF ApplyGuess
  <2> QED
    BY <2>1, SpendingAdvances
<1>3. CASE Candidate(p, target) = {} /\ ~(Filler(p, target) /\ ~StartsSpan(p, target))
  <2>1. ApplyGuess(p, target) = p
    BY <1>3 DEF ApplyGuess
  <2> QED
    BY <2>1
<1> QED
  BY <1>1, <1>2, <1>3

\* A span more is used: the moves it stood for are gone, whatever attempts it restored.
LEMMA UsedSpanIsGone ==
  ASSUME NEW p \in HackState, NEW q \in HackState, NEW s \in Brackets(p.columns), s \notin p.used,
         q.used = p.used \cup {s}, Brackets(q.columns) = Brackets(p.columns),
         MaximumAttempts \in Nat, q.left <= MaximumAttempts
  PROVE  Moves(q) < Moves(p)
<1> DEFINE B == Brackets(p.columns) \ p.used
           n == Cardinality(B)
<1>1. IsFiniteSet(B) /\ n \in Nat
  BY BracketsLeftAreCounted
<1>2. Brackets(q.columns) \ q.used = B \ {s}
  OBVIOUS
<1>3. s \in B
  OBVIOUS
<1>4. Cardinality(B \ {s}) = n - 1
  <2> HIDE DEF B
  <2> QED
    BY <1>1, <1>3, FS_RemoveElement
<1>5. n # 0
  <2> HIDE DEF B
  <2> QED
    BY <1>1, <1>3, FS_EmptySet
<1>6. Moves(q) = (MaximumAttempts + 1) * (n - 1) + q.left /\ Moves(p) = (MaximumAttempts + 1) * n + p.left
  BY <1>2, <1>4 DEF Moves
<1>7. q.left \in Nat /\ p.left \in Nat
  BY DEF HackState
<1> HIDE DEF n
<1> DEFINE M == MaximumAttempts
           x == q.left
           y == p.left
<1>8. M \in Nat /\ x \in Nat /\ y \in Nat /\ x <= M
  BY <1>7
<1>9. Moves(q) = (M + 1) * (n - 1) + x /\ Moves(p) = (M + 1) * n + y
  BY <1>6
<1> HIDE DEF M, x, y
<1>10. (M + 1) * n = (M + 1) * (n - 1) + (M + 1)
  BY <1>1, <1>8
<1> DEFINE k == (M + 1) * (n - 1)
<1>11. k \in Int
  BY <1>1, <1>8
<1>12. Moves(q) = k + x /\ Moves(p) = k + (M + 1) + y
  BY <1>9, <1>10
<1> HIDE DEF k
<1> QED
  BY <1>8, <1>11, <1>12

LEMMA PatternAdvances ==
  ASSUME NEW p, PuzzleInv(p), Playing(p), NEW s, NEW q \in ApplyPattern(p, s)
  PROVE  Advance(p, q)
<1> DEFINE spent == [p EXCEPT !.used = @ \cup {s}]
<1>1. p \in HackState /\ p.solved = FALSE /\ p.failed = FALSE /\ BoardInv(p)
      /\ p.left \in 1 .. MaximumAttempts /\ MaximumAttempts \in Nat \ {0}
  <2>1. p.left \in 0 .. MaximumAttempts /\ MaximumAttempts \in Nat \ {0} /\ p.left >= 1
    BY PlayingIsPlaying
  <2>2. p.left \in 1 .. MaximumAttempts
    BY <2>1
  <2>3. p.solved = FALSE /\ p.failed = FALSE
    BY PlayingIsPlaying
  <2> QED
    BY <2>1, <2>2, <2>3 DEF PuzzleInv
<1>2. s \in Spans(p.columns) /\ s \notin p.used
      /\ q \in {[spent EXCEPT !.left = MaximumAttempts]} \cup {Dotted(spent, w) : w \in Decoys(p)}
  BY DEF ApplyPattern
<1>3. s \in PatternSpan /\ s \in Brackets(p.columns)
  <2>1. p.columns \in Columns
    BY <1>1 DEF HackState, Columns
  <2> QED
    BY <1>2, <2>1, SpansAreSpans
<1>4. /\ spent \in HackState /\ spent.solved = FALSE /\ spent.failed = FALSE
      /\ spent.gen = p.gen /\ spent.columns = p.columns /\ spent.words = p.words /\ spent.secret = p.secret
      /\ spent.used = p.used \cup {s} /\ spent.left = p.left
  <2>1. p.used \cup {s} \in SUBSET PatternSpan
    BY <1>1, <1>3 DEF HackState
  <2> QED
    BY <1>1, <2>1 DEF HackState
<1> HIDE DEF spent
<1>5. BoardInv(spent)
  BY <1>1, <1>4 DEF BoardInv
<1>6. CASE q = [spent EXCEPT !.left = MaximumAttempts]
  <2>1. /\ q \in HackState /\ q.solved = FALSE /\ q.failed = FALSE
        /\ q.gen = p.gen /\ q.columns = p.columns /\ q.words = p.words /\ q.secret = p.secret
        /\ q.used = p.used \cup {s} /\ q.left = MaximumAttempts
    BY <1>1, <1>4, <1>6 DEF HackState
  <2>2. BoardInv(q)
    BY <1>1, <2>1 DEF BoardInv
  <2>3. PuzzleInv(q)
    BY <1>1, <2>1, <2>2 DEF PuzzleInv
  <2>4. Moves(q) < Moves(p)
    BY <1>1, <1>2, <1>3, <2>1, UsedSpanIsGone
  <2> QED
    BY <2>1, <2>3, <2>4 DEF Advance
<1>7. CASE q \in {Dotted(spent, w) : w \in Decoys(p)}
  <2>1. PICK w \in p.words : w.text # p.secret /\ q = Dotted(spent, w)
    BY <1>7 DEF Decoys
  <2>2. /\ Blanked(p.columns, q.columns) /\ q \in HackState
        /\ q.gen = p.gen /\ q.used = p.used \cup {s} /\ q.left = p.left /\ q.solved = FALSE /\ q.failed = FALSE
    BY <1>4, <1>5, <2>1, DottedIsBlanked
  <2>3. BoardInv(q)
    BY <1>4, <1>5, <2>1, DottedIsABoard
  <2>4. PuzzleInv(q)
    BY <1>1, <2>2, <2>3 DEF PuzzleInv
  <2>5. Brackets(q.columns) = Brackets(p.columns) /\ Spans(p.columns) \subseteq Spans(q.columns)
    <3>1. p.columns \in Columns /\ q.columns \in Columns
      BY <1>1, <2>2 DEF HackState, Columns
    <3> QED
      BY <3>1, <2>2, BlankedKeepsSpans
  <2>6. Moves(q) < Moves(p)
    BY <1>1, <1>2, <1>3, <2>2, <2>5, UsedSpanIsGone
  <2> QED
    BY <2>2, <2>4, <2>5, <2>6 DEF Advance
<1> QED
  BY <1>2, <1>6, <1>7

-----------------------------------------------------------------------------
(* LockedTerminal: checkpoints, places and cursors.                         *)

LEMMA CheckpointIsTyped ==
  ASSUME NEW r \in Checkpoint
  PROVE  /\ r.active \in BOOLEAN /\ r.tree \in Tree /\ r.nav \in NavState
         /\ r.hack \in HackState \cup {Nil} /\ r.cursor \in ScreenCursor
         /\ r # Nil
BY NilAssumption DEF Checkpoint

LEMMA ChildrenAreNodes ==
  ASSUME NEW tree \in Tree, NEW path \in Seq(Folder) \ {<<>>}
  PROVE  /\ tree[Last(path)] \in Seq(Folder \cup Entry \cup Command)
         /\ Children(tree, Last(path)) \subseteq Folder \cup Entry \cup Command
         /\ \A i \in 1 .. Len(tree[Last(path)]) : tree[Last(path)][i] \in Children(tree, Last(path))
<1>1. Last(path) \in Folder
  BY LastIsThere
<1>2. tree[Last(path)] \in Seq((Folder \ {"root"}) \cup Entry \cup Command)
  BY <1>1 DEF Tree
<1> DEFINE s == tree[Last(path)]
<1>3. s \in Seq(Folder \cup Entry \cup Command)
  <2>1. Len(s) \in Nat /\ DOMAIN s = 1 .. Len(s) /\ \A i \in 1 .. Len(s) : s[i] \in Folder \cup Entry \cup Command
    BY <1>2
  <2>2. s \in [1 .. Len(s) -> Folder \cup Entry \cup Command]
    BY <1>2, <2>1
  <2> QED
    BY <2>1, <2>2
<1>4. Children(tree, Last(path)) = {s[i] : i \in DOMAIN s}
  BY DEF Children, ToSet
<1>5. DOMAIN s = 1 .. Len(s) /\ \A i \in DOMAIN s : s[i] \in Folder \cup Entry \cup Command
  BY <1>3
<1> HIDE DEF s
<1>6. /\ s \in Seq(Folder \cup Entry \cup Command)
      /\ Children(tree, Last(path)) \subseteq Folder \cup Entry \cup Command
      /\ \A i \in 1 .. Len(s) : s[i] \in Children(tree, Last(path))
  BY <1>3, <1>4, <1>5
<1> QED
  BY <1>6 DEF s

LEMMA NavStates ==
  /\ Default \in NavState
  /\ \A path \in Seq(Folder) \ {<<>>}, e \in Entry \cup {Nil}, c \in Command \cup {Nil} :
       Nav(path, e, c) \in NavState
<1>1. <<"root">> \in Seq(Folder) \ {<<>>}
  BY TreeAssumption
<1> QED
  BY <1>1 DEF Default, Nav, NavState

LEMMA PlacesStayPlaces ==
  ASSUME NEW nav \in NavState, NEW tree \in Tree,
         NEW next \in Enter(nav, tree) \cup Open(nav, tree) \cup Run(nav, tree) \cup {Back(nav)}
  PROVE  next \in NavState
<1>1. nav.path \in Seq(Folder) \ {<<>>} /\ nav.entry \in Entry \cup {Nil} /\ nav.command \in Command \cup {Nil}
  BY DEF NavState
<1>2. CASE next \in Enter(nav, tree)
  <2>1. PICK f \in Folder : next = Nav(Append(nav.path, f), Nil, Nil)
    BY <1>2 DEF Enter
  <2>2. Append(nav.path, f) \in Seq(Folder) \ {<<>>}
    BY <1>1
  <2> QED
    BY <2>1, <2>2, NavStates
<1>3. CASE next \in Open(nav, tree)
  BY <1>1, <1>3, NavStates DEF Open
<1>4. CASE next \in Run(nav, tree)
  <2>1. PICK c \in Command : next = [nav EXCEPT !.command = c]
    BY <1>4 DEF Run
  <2> QED
    BY <1>1, <2>1 DEF NavState
<1>5. CASE next = Back(nav)
  <2>1. CASE nav.entry # Nil
    <3>1. next = [nav EXCEPT !.entry = Nil]
      BY <1>5, <2>1 DEF Back
    <3> QED
      BY <1>1, <3>1 DEF NavState
  <2>2. CASE nav.entry = Nil /\ Len(nav.path) > 1
    <3>1. next = Nav(Front(nav.path), Nil, Nil)
      BY <1>5, <2>2 DEF Back
    <3>2. Front(nav.path) \in Seq(Folder) /\ Len(Front(nav.path)) = Len(nav.path) - 1 /\ Len(nav.path) \in Nat
      BY <1>1, <2>2 DEF Front
    <3>3. Front(nav.path) # <<>>
      BY <2>2, <3>2
    <3> QED
      BY <3>1, <3>2, <3>3, NavStates
  <2>3. CASE nav.entry = Nil /\ ~(Len(nav.path) > 1)
    <3>1. next = [nav EXCEPT !.command = Nil]
      BY <1>5, <2>3 DEF Back
    <3> QED
      BY <1>1, <3>1 DEF NavState
  <2> QED
    BY <2>1, <2>2, <2>3
<1> QED
  BY <1>2, <1>3, <1>4, <1>5

LEMMA RevalidatedIsAPlace ==
  ASSUME NEW nav \in NavState, NEW tree
  PROVE  Revalidate(nav, tree) \in NavState
<1> DEFINE path == ValidPath(tree, nav.path)
           kept(id) == IF id \in Children(tree, Last(path)) THEN id ELSE Nil
<1>1. nav.path \in Seq(Folder) \ {<<>>} /\ nav.entry \in Entry \cup {Nil} /\ nav.command \in Command \cup {Nil}
  BY DEF NavState
<1>2. path \in Seq(Folder) \ {<<>>}
  BY <1>1, PathIsCut
<1>3. kept(nav.entry) \in Entry \cup {Nil} /\ kept(nav.command) \in Command \cup {Nil}
  BY <1>1
<1>4. Revalidate(nav, tree) = Nav(path, kept(nav.entry), kept(nav.command))
  BY DEF Revalidate
<1> HIDE DEF path, kept
<1> QED
  BY <1>2, <1>3, <1>4, NavStates

\* There is always one context.
LEMMA ContextIsOne ==
  ASSUME NEW r \in Checkpoint
  PROVE  /\ Context(r) \in ScreenContext
         /\ Context(r)[1] = "hack" <=> Playing(r.hack)
         /\ Context(r)[1] = "menu" => Context(r) = <<"menu", r.nav.path>>
<1>1. r.nav \in NavState /\ r.hack \in HackState \cup {Nil}
  BY CheckpointIsTyped
<1>2. r.nav.path \in Seq(Folder) /\ r.nav.entry \in Entry \cup {Nil} /\ r.nav.command \in Command \cup {Nil}
  BY <1>1 DEF NavState
<1>3. CASE Playing(r.hack)
  <2>1. Context(r) = <<"hack", r.hack.gen>>
    BY <1>3 DEF Context
  <2>2. r.hack.gen \in Nat
    BY <1>1, <1>3 DEF Playing, HackState
  <2> QED
    BY <1>3, <2>1, <2>2 DEF ScreenContext
<1>4. CASE ~Playing(r.hack) /\ r.nav.entry # Nil
  <2>1. Context(r) = <<"entry", r.nav.entry>>
    BY <1>4 DEF Context
  <2> QED
    BY <1>2, <1>4, <2>1 DEF ScreenContext
<1>5. CASE ~Playing(r.hack) /\ r.nav.entry = Nil /\ r.nav.command # Nil
  <2>1. Context(r) = <<"command", r.nav.command>>
    BY <1>5 DEF Context
  <2> QED
    BY <1>2, <1>5, <2>1 DEF ScreenContext
<1>6. CASE ~Playing(r.hack) /\ r.nav.entry = Nil /\ r.nav.command = Nil
  <2>1. Context(r) = <<"menu", r.nav.path>>
    BY <1>6 DEF Context
  <2> QED
    BY <1>2, <1>6, <2>1 DEF ScreenContext
<1> QED
  BY <1>3, <1>4, <1>5, <1>6

\* A cursor that is repaired is valid, and nothing else of the checkpoint changes.
LEMMA RepairedIsValid ==
  ASSUME NEW r \in Checkpoint
  PROVE  /\ Repaired(r) \in Checkpoint
         /\ ValidCursor(Repaired(r))
         /\ Repaired(r).hack = r.hack /\ Repaired(r).nav = r.nav /\ Repaired(r).tree = r.tree
<1>1. r.tree \in Tree /\ r.nav \in NavState /\ r.cursor \in ScreenCursor
  BY CheckpointIsTyped
<1>2. r.nav.path \in Seq(Folder) \ {<<>>}
  BY <1>1 DEF NavState
<1> DEFINE children == r.tree[Last(r.nav.path)]
<1>3. /\ children \in Seq(Folder \cup Entry \cup Command)
      /\ children # <<>> => Head(children) \in Children(r.tree, Last(r.nav.path))
      /\ Children(r.tree, Last(r.nav.path)) \subseteq Folder \cup Entry \cup Command
  <2>1. /\ children \in Seq(Folder \cup Entry \cup Command)
        /\ Children(r.tree, Last(r.nav.path)) \subseteq Folder \cup Entry \cup Command
        /\ \A i \in 1 .. Len(children) : children[i] \in Children(r.tree, Last(r.nav.path))
    BY <1>1, <1>2, ChildrenAreNodes
  <2> HIDE DEF children
  <2>2. children # <<>> => 1 \in 1 .. Len(children) /\ Head(children) = children[1]
    BY <2>1
  <2> QED
    BY <2>1, <2>2
<1>4. CASE ValidCursor(r)
  BY <1>4 DEF Repaired
<1>5. CASE ~ValidCursor(r)
  <2> DEFINE at == Fresh(r)
             q == [r EXCEPT !.cursor = Cursor(Context(r), at)]
  <2>1. Repaired(r) = q
    BY <1>5 DEF Repaired
  <2>2. /\ \/ at = Nil
           \/ at = <<"node", Head(children)>> /\ Context(r)[1] = "menu" /\ children # <<>>
           \/ at = <<"page", 0>> /\ Context(r)[1] # "menu" /\ Context(r)[1] # "hack"
    BY DEF Fresh
  <2>3. at \in ScreenTarget \cup {Nil}
    BY <1>3, <2>2 DEF ScreenTarget
  <2> HIDE DEF at
  <2>4. Cursor(Context(r), at) \in ScreenCursor
    BY <2>3, ContextIsOne DEF Cursor, ScreenCursor
  <2>5. /\ q \in Checkpoint /\ q.cursor = Cursor(Context(r), at)
        /\ q.hack = r.hack /\ q.nav = r.nav /\ q.tree = r.tree
    BY <2>4 DEF Checkpoint
  <2> HIDE DEF q
  <2>6. Context(q) = Context(r)
    BY <2>5 DEF Context
  <2>7. ValidTarget(q, at)
    <3>1. CASE at = Nil
      BY <3>1 DEF ValidTarget
    <3>2. CASE at = <<"node", Head(children)>> /\ Context(r)[1] = "menu" /\ children # <<>>
      <4>1. at[1] = "node" /\ at[2] \in Children(q.tree, Last(q.nav.path))
        BY <1>3, <2>5, <3>2
      <4> QED
        BY <2>6, <3>2, <4>1 DEF ValidTarget
    <3>3. CASE at = <<"page", 0>> /\ Context(r)[1] # "menu" /\ Context(r)[1] # "hack"
      <4>1. at[1] = "page" /\ at[2] <= MaxPage
        BY <3>3, TreeAssumption
      <4> QED
        BY <2>6, <3>3, <4>1 DEF ValidTarget
    <3> QED
      BY <2>2, <3>1, <3>2, <3>3
  <2>8. ValidCursor(q)
    BY <2>5, <2>6, <2>7 DEF ValidCursor, Cursor
  <2> QED
    BY <2>1, <2>5, <2>8
<1> QED
  BY <1>4, <1>5

-----------------------------------------------------------------------------
(* LockedTerminal: the invariant of the checkpoints.                        *)

Held(r) == IF r = Nil THEN Nil ELSE r.hack

\* The terminal that is shown has a checkpoint.
ShownInv ==
  /\ runtimes \in [Terminal -> Checkpoint \cup {Nil}]
  /\ active = Nil \/ (active \in Terminal /\ runtimes[active] \in Checkpoint)

\* The puzzles are sound, and each has a number of its own that was drawn for it.
PuzzlesInv ==
  /\ puzzles \in 0 .. MaxPuzzles
  /\ \A t \in Terminal : Held(runtimes[t]) # Nil =>
       /\ PuzzleInv(Held(runtimes[t]))
       /\ Held(runtimes[t]).gen \in 1 .. puzzles
       /\ \A u \in Terminal : u # t /\ Held(runtimes[u]) # Nil =>
            Held(runtimes[u]).gen # Held(runtimes[t]).gen

LifecycleEvent == {"started", "interrupted", "reset", "succeeded", "failed"}

\* The log has a line for each number, and no outcome for one that was not drawn.
LogInv ==
  /\ audit \in [1 .. MaxPuzzles -> [latest : LifecycleEvent \cup {Nil}, outcomes : Seq(LifecycleEvent)]]
  /\ \A g \in puzzles + 1 .. MaxPuzzles : audit[g].outcomes = <<>>

TerminalsInv == ShownInv /\ PuzzlesInv /\ LogInv /\ CursorIsValid /\ AuditFollowsThePuzzles

\* What a transaction does to the puzzle of a terminal: it is played, or drawn.
Played(t, rs, a) ==
  /\ t = active /\ a = active /\ Held(runtimes[t]) # Nil /\ rs[t] # Nil
  /\ Playing(Held(runtimes[t])) /\ Advance(Held(runtimes[t]), Held(rs[t]))
  /\ controllerSession' = controllerSession
Drawn(t, rs, a) ==
  /\ t = a /\ PuzzleInv(Held(rs[t])) /\ ~Held(rs[t]).solved /\ ~Held(rs[t]).failed
  /\ Held(rs[t]).gen = puzzles + 1 /\ puzzles' = puzzles + 1 /\ puzzles < MaxPuzzles
  /\ Held(runtimes[t]) = Nil \/ (t = active /\ Held(runtimes[t]).failed)

\* Every transaction leaves the other puzzles alone or lets them go.
Transaction(rs, a) ==
  /\ rs \in [Terminal -> Checkpoint \cup {Nil}]
  /\ a = Nil \/ (a \in Terminal /\ rs[a] \in Checkpoint)
  /\ \A t \in Terminal : \/ Held(rs[t]) = Held(runtimes[t])
                         \/ rs[t] = Nil /\ a # t
                         \/ Played(t, rs, a)
                         \/ Drawn(t, rs, a)
  /\ puzzles' = puzzles \/ \E t \in Terminal : Drawn(t, rs, a)

LEMMA HeldIsHeld ==
  ASSUME NEW r \in Checkpoint \cup {Nil}
  PROVE  /\ r = Nil => Held(r) = Nil
         /\ r # Nil => r \in Checkpoint /\ Held(r) = r.hack
         /\ r \in Checkpoint => Held(r) = r.hack /\ r # Nil
         /\ Held(r) # Nil => r # Nil /\ Held(r) = r.hack /\ Held(r) \in HackState
BY NilAssumption, CheckpointIsTyped DEF Held

\* The projection repairs the cursor that is shown, and keeps every puzzle.
LEMMA ProjectionKeepsPuzzles ==
  ASSUME NEW rs, NEW a, Transaction(rs, a), Commit(rs, a)
  PROVE  /\ ShownInv' /\ CursorIsValid'
         /\ \A t \in Terminal : /\ Held(runtimes'[t]) = Held(rs[t])
                                /\ runtimes'[t] = Nil <=> rs[t] = Nil
<1>1. /\ rs \in [Terminal -> Checkpoint \cup {Nil}]
      /\ a = Nil \/ (a \in Terminal /\ rs[a] \in Checkpoint)
  BY DEF Transaction
<1>2. active' = a /\ runtimes' = Projection(rs, a)
  BY DEF Commit
<1>3. CASE a = Nil \/ assigned' = {}
  <2>1. runtimes' = rs
    BY <1>2, <1>3 DEF Projection
  <2> QED
    BY <1>1, <1>2, <1>3, <2>1 DEF ShownInv, CursorIsValid
<1>4. CASE ~(a = Nil \/ assigned' = {})
  <2>1. runtimes' = [rs EXCEPT ![a] = Repaired(rs[a])] /\ a \in Terminal /\ rs[a] \in Checkpoint
    BY <1>1, <1>2, <1>4 DEF Projection
  <2>2. /\ Repaired(rs[a]) \in Checkpoint /\ ValidCursor(Repaired(rs[a]))
        /\ Repaired(rs[a]).hack = rs[a].hack
    BY <2>1, RepairedIsValid
  <2>3. runtimes'[a] = Repaired(rs[a]) /\ \A t \in Terminal : t # a => runtimes'[t] = rs[t]
    BY <1>1, <2>1
  <2>4. runtimes' \in [Terminal -> Checkpoint \cup {Nil}]
    BY <1>1, <2>1, <2>2
  <2>5. Held(runtimes'[a]) = Held(rs[a]) /\ runtimes'[a] # Nil /\ rs[a] # Nil
    BY <2>1, <2>2, <2>3, HeldIsHeld
  <2> QED
    BY <1>2, <2>1, <2>2, <2>3, <2>4, <2>5 DEF ShownInv, CursorIsValid
<1> QED
  BY <1>3, <1>4

\* The numbers stay different: a puzzle that is drawn has a new one.
LEMMA NumbersStayDifferent ==
  ASSUME NEW rs, NEW a, ShownInv, PuzzlesInv, Transaction(rs, a), Commit(rs, a)
  PROVE  PuzzlesInv'
<1> USE DEF PuzzlesInv
<1>1. \A t \in Terminal : Held(runtimes'[t]) = Held(rs[t])
  BY ProjectionKeepsPuzzles
<1>2. puzzles \in 0 .. MaxPuzzles /\ puzzles' \in 0 .. MaxPuzzles /\ puzzles' >= puzzles
  <2>1. puzzles' = puzzles \/ (puzzles' = puzzles + 1 /\ puzzles < MaxPuzzles)
    BY DEF Transaction, Drawn
  <2> QED
    BY <2>1, TreeAssumption
<1>3. ASSUME NEW t \in Terminal, Held(rs[t]) # Nil
      PROVE  /\ PuzzleInv(Held(rs[t])) /\ Held(rs[t]).gen \in 1 .. puzzles'
             /\ \/ t = a /\ Held(rs[t]).gen = puzzles + 1
                \/ Held(runtimes[t]) # Nil /\ Held(rs[t]).gen = Held(runtimes[t]).gen
  <2>1. CASE Held(rs[t]) = Held(runtimes[t])
    <3>1. Held(runtimes[t]).gen \in 1 .. puzzles
      BY <1>3, <2>1
    <3>2. Held(runtimes[t]).gen \in 1 .. puzzles'
      BY <1>2, <3>1
    <3> QED
      BY <1>3, <2>1, <3>2
  <2>2. CASE rs[t] = Nil /\ a # t
    BY <1>3, <2>2 DEF Held
  <2>3. CASE Played(t, rs, a)
    <3>1. Held(runtimes[t]) # Nil /\ PuzzleInv(Held(rs[t])) /\ Held(rs[t]).gen = Held(runtimes[t]).gen
      BY <2>3 DEF Played, Advance
    <3>2. Held(runtimes[t]).gen \in 1 .. puzzles
      BY <3>1
    <3>3. Held(runtimes[t]).gen \in 1 .. puzzles'
      BY <1>2, <3>2
    <3> QED
      BY <3>1, <3>3
  <2>4. CASE Drawn(t, rs, a)
    <3>1. PuzzleInv(Held(rs[t])) /\ t = a /\ Held(rs[t]).gen = puzzles + 1 /\ puzzles' = puzzles + 1
      BY <2>4 DEF Drawn
    <3>2. puzzles + 1 \in 1 .. puzzles'
      BY <1>2, <3>1
    <3> QED
      BY <3>1, <3>2
  <2> QED
    BY <2>1, <2>2, <2>3, <2>4 DEF Transaction
<1>4. ASSUME NEW t \in Terminal, Held(rs[t]) # Nil, NEW u \in Terminal, u # t, Held(rs[u]) # Nil
      PROVE  Held(rs[u]).gen # Held(rs[t]).gen
  <2>1. \A v \in Terminal : Held(runtimes[v]) # Nil => Held(runtimes[v]).gen \in 1 .. puzzles
    OBVIOUS
  <2>2. \A v \in Terminal : Held(runtimes[v]) # Nil => Held(runtimes[v]).gen # puzzles + 1
    BY <1>2, <2>1
  <2>3. \/ t = a /\ Held(rs[t]).gen = puzzles + 1
        \/ Held(runtimes[t]) # Nil /\ Held(rs[t]).gen = Held(runtimes[t]).gen
    BY <1>3, <1>4
  <2>4. \/ u = a /\ Held(rs[u]).gen = puzzles + 1
        \/ Held(runtimes[u]) # Nil /\ Held(rs[u]).gen = Held(runtimes[u]).gen
    BY <1>3, <1>4
  <2>5. Held(runtimes[t]) # Nil /\ Held(runtimes[u]) # Nil => Held(runtimes[u]).gen # Held(runtimes[t]).gen
    BY <1>4
  <2> QED
    BY <1>4, <2>2, <2>3, <2>4, <2>5
<1> QED
  BY <1>1, <1>2, <1>3, <1>4

-----------------------------------------------------------------------------
(* LockedTerminal: the audit log.                                           *)

OutcomeEvents == {"succeeded", "failed"}

\* The line of a puzzle after an event about it.
Line(g, e) ==
  [latest   |-> e,
   outcomes |-> IF e \in OutcomeEvents THEN Append(audit[g].outcomes, e) ELSE audit[g].outcomes]

\* A line of the log stays, or gets an event that is about its puzzle.
LEMMA AnEventIsRecorded ==
  ASSUME LogInv, NEW rs, NEW a, Commit(rs, a), NEW g \in 1 .. MaxPuzzles
  PROVE  \/ audit'[g] = audit[g] /\ \A x \in LifecycleEvents(rs, a) : x[1] # g
         \/ \E x \in LifecycleEvents(rs, a) :
              /\ x[1] = g
              /\ audit'[g] = Line(g, x[2])
<1> DEFINE events == LifecycleEvents(rs, a)
           f == CHOOSE x \in events : x[1] = g
           line == [latest   |-> f[2],
                    outcomes |-> IF f[2] \in {"succeeded", "failed"} THEN Append(audit[g].outcomes, f[2])
                                 ELSE audit[g].outcomes]
<1>1. audit' = Recorded(events) /\ g \in DOMAIN audit
  BY DEF LogInv, Commit
<1> HIDE DEF events
<1>2. audit'[g] = IF \A x \in events : x[1] # g THEN audit[g] ELSE line
  BY <1>1 DEF Recorded
<1>3. CASE \A x \in events : x[1] # g
  <2>1. audit'[g] = audit[g]
    BY <1>2, <1>3
  <2> QED
    BY <1>3, <2>1 DEF events
<1>4. CASE ~ \A x \in events : x[1] # g
  <2>1. audit'[g] = line
    BY <1>2, <1>4
  <2>2. f \in events /\ f[1] = g
    BY <1>4
  <2> HIDE DEF f
  <2>3. audit'[g] = Line(g, f[2])
    BY <2>1 DEF OutcomeEvents, Line
  <2> QED
    BY <2>2, <2>3 DEF events
<1> QED
  BY <1>3, <1>4

\* What the events of a transaction are about: the puzzle that was shown, and the one that is.
LEMMA EventsAreAboutTheShown ==
  ASSUME NEW rs, NEW a, NEW x \in LifecycleEvents(rs, a)
  PROVE  LET old == Shown(runtimes, active)
             new == Shown(rs, a) IN
         /\ x = <<x[1], x[2]>> /\ x[2] \in LifecycleEvent
         /\ \/ old # Nil /\ x[1] = old.gen /\ x[2] = "interrupted" /\ Playing(old)
            \/ new # Nil /\ x[1] = new.gen
         /\ x[2] \in OutcomeEvents => /\ old # Nil /\ new # Nil /\ active = a /\ old.gen = new.gen /\ x[1] = new.gen
                                      /\ x[2] = "succeeded" => ~old.solved /\ new.solved
                                      /\ x[2] = "failed" => ~old.failed /\ new.failed
<1> DEFINE old == Shown(runtimes, active)
           new == Shown(rs, a)
           left == IF Playing(old) THEN {<<old.gen, "interrupted">>} ELSE {}
           told == {<<new.gen, e>> : e \in {e \in {"succeeded", "failed"} :
                       CASE e = "succeeded" -> ~old.solved /\ new.solved
                         [] e = "failed" -> ~old.failed /\ new.failed}}
<1>1. LifecycleEvents(rs, a) =
        CASE old # Nil /\ new # Nil /\ active # a -> left \cup {<<new.gen, "started">>}
          [] old = Nil /\ new # Nil -> {<<new.gen, "started">>}
          [] new = Nil -> left
          [] OTHER -> IF old.gen # new.gen THEN {<<new.gen, "reset">>}
                      ELSE IF Playing(old) /\ Playing(new) /\ liveBroadcast' /\ ControllerChanged THEN left
                      ELSE told
  BY DEF LifecycleEvents
<1> HIDE DEF old, new
<1>2. \A y \in left : y = <<old.gen, "interrupted">> /\ Playing(old) /\ old # Nil
  BY DEF Playing
<1>3. \A y \in told : \/ y = <<new.gen, "succeeded">> /\ ~old.solved /\ new.solved
                      \/ y = <<new.gen, "failed">> /\ ~old.failed /\ new.failed
  OBVIOUS
<1> HIDE DEF left, told
<1> DEFINE About(y) ==
             /\ y = <<y[1], y[2]>> /\ y[2] \in LifecycleEvent
             /\ \/ old # Nil /\ y[1] = old.gen /\ y[2] = "interrupted" /\ Playing(old)
                \/ new # Nil /\ y[1] = new.gen
             /\ y[2] \in OutcomeEvents => /\ old # Nil /\ new # Nil /\ active = a /\ old.gen = new.gen
                                          /\ y[1] = new.gen
                                          /\ y[2] = "succeeded" => ~old.solved /\ new.solved
                                          /\ y[2] = "failed" => ~old.failed /\ new.failed
<1>b. /\ "interrupted" \notin OutcomeEvents /\ "started" \notin OutcomeEvents /\ "reset" \notin OutcomeEvents
      /\ "succeeded" # "failed"
  BY DEF OutcomeEvents
<1>c. /\ "interrupted" \in LifecycleEvent /\ "started" \in LifecycleEvent /\ "reset" \in LifecycleEvent
      /\ "succeeded" \in LifecycleEvent /\ "failed" \in LifecycleEvent
  BY DEF LifecycleEvent
<1>4. ASSUME x \in left  PROVE About(x)
  <2>1. x = <<old.gen, "interrupted">> /\ Playing(old) /\ old # Nil
    BY <1>2, <1>4
  <2>2. x[1] = old.gen /\ x[2] = "interrupted" /\ x = <<x[1], x[2]>>
    BY <2>1
  <2> QED
    BY <2>1, <2>2, <1>b, <1>c
<1>5. ASSUME NEW e \in {"started", "reset"}, new # Nil, x = <<new.gen, e>>  PROVE About(x)
  <2>1. x[1] = new.gen /\ x[2] = e /\ x = <<x[1], x[2]>>
    BY <1>5
  <2> QED
    BY <2>1, <1>5, <1>b, <1>c
<1>7. ASSUME new # Nil, old # Nil, active = a, old.gen = new.gen, x \in told  PROVE About(x)
  <2>1. \/ x = <<new.gen, "succeeded">> /\ ~old.solved /\ new.solved
        \/ x = <<new.gen, "failed">> /\ ~old.failed /\ new.failed
    BY <1>3, <1>7
  <2>2. /\ x[1] = new.gen /\ x = <<x[1], x[2]>>
        /\ \/ x[2] = "succeeded" /\ ~old.solved /\ new.solved
           \/ x[2] = "failed" /\ ~old.failed /\ new.failed
    BY <2>1
  <2> QED
    BY <2>2, <1>7, <1>b, <1>c
<1>8. \/ x \in left
      \/ new # Nil /\ x = <<new.gen, "started">>
      \/ new # Nil /\ x = <<new.gen, "reset">>
      \/ new # Nil /\ old # Nil /\ active = a /\ old.gen = new.gen /\ x \in told
  <2>1. CASE old # Nil /\ new # Nil /\ active # a
    BY <1>1, <2>1
  <2>2. CASE old = Nil /\ new # Nil
    BY <1>1, <2>2
  <2>3. CASE new = Nil
    BY <1>1, <2>3
  <2>4. CASE old # Nil /\ new # Nil /\ active = a
    <3>1. x \in (IF old.gen # new.gen THEN {<<new.gen, "reset">>}
                 ELSE IF Playing(old) /\ Playing(new) /\ liveBroadcast' /\ ControllerChanged THEN left
                 ELSE told)
      BY <1>1, <2>4
    <3> QED
      BY <2>4, <3>1
  <2> QED
    BY <2>1, <2>2, <2>3, <2>4
<1>9. About(x)
  <2> HIDE DEF About
  <2> QED
    BY <1>4, <1>5, <1>7, <1>8
<1> QED
  BY <1>9 DEF About, old, new

\* A puzzle that is left while it can be played is interrupted.
LEMMA LeftIsInterrupted ==
  ASSUME NEW rs, NEW a, active # a, Playing(Shown(runtimes, active))
  PROVE  <<Shown(runtimes, active).gen, "interrupted">> \in LifecycleEvents(rs, a)
<1> DEFINE old == Shown(runtimes, active)
           new == Shown(rs, a)
           left == IF Playing(old) THEN {<<old.gen, "interrupted">>} ELSE {}
<1>1. old # Nil
  BY DEF Playing
<1>2. CASE new # Nil
  <2>1. LifecycleEvents(rs, a) = left \cup {<<new.gen, "started">>}
    BY <1>1, <1>2 DEF LifecycleEvents
  <2> QED
    BY <2>1
<1>3. CASE new = Nil
  <2>1. LifecycleEvents(rs, a) = left
    BY <1>1, <1>3 DEF LifecycleEvents
  <2> QED
    BY <2>1
<1> QED
  BY <1>2, <1>3

\* The outcome of the puzzle that is played is told when there is one.
LEMMA OutcomeIsTold ==
  ASSUME NEW rs, NEW a, active = a, Shown(runtimes, active) # Nil, Shown(rs, a) # Nil,
         Shown(rs, a).gen = Shown(runtimes, active).gen, ~ControllerChanged
  PROVE  /\ ~Shown(runtimes, active).solved /\ Shown(rs, a).solved =>
              <<Shown(rs, a).gen, "succeeded">> \in LifecycleEvents(rs, a)
         /\ ~Shown(runtimes, active).failed /\ Shown(rs, a).failed =>
              <<Shown(rs, a).gen, "failed">> \in LifecycleEvents(rs, a)
         /\ \A x \in LifecycleEvents(rs, a) : x[2] \in OutcomeEvents
<1> DEFINE old == Shown(runtimes, active)
           new == Shown(rs, a)
           told == {<<new.gen, e>> : e \in {e \in {"succeeded", "failed"} :
                       CASE e = "succeeded" -> ~old.solved /\ new.solved
                         [] e = "failed" -> ~old.failed /\ new.failed}}
<1>1. LifecycleEvents(rs, a) = told
  BY DEF LifecycleEvents
<1> HIDE DEF old, new
<1>2. ~old.solved /\ new.solved => <<new.gen, "succeeded">> \in told
  OBVIOUS
<1>3. ~old.failed /\ new.failed => <<new.gen, "failed">> \in told
  OBVIOUS
<1>4. \A x \in told : x[2] \in OutcomeEvents
  <2>1. \A x \in told : x = <<new.gen, "succeeded">> \/ x = <<new.gen, "failed">>
    OBVIOUS
  <2> HIDE DEF told
  <2> QED
    BY <2>1 DEF OutcomeEvents
<1> QED
  BY <1>1, <1>2, <1>3, <1>4 DEF old, new


\* What is shown is held by the terminal that is shown, before and after.
LEMMA ShownIsHeld ==
  ASSUME NEW rs, NEW a, ShownInv, PuzzlesInv, Transaction(rs, a), Commit(rs, a)
  PROVE  /\ Shown(runtimes, active) # Nil =>
              active \in Terminal /\ Held(runtimes[active]) = Shown(runtimes, active)
         /\ active # Nil => Shown(runtimes, active) = Held(runtimes[active])
         /\ Shown(rs, a) # Nil => a \in Terminal /\ Held(rs[a]) = Shown(rs, a)
         /\ a # Nil => Shown(rs, a) = Held(rs[a])
         /\ \A t, u \in Terminal :
              /\ Held(runtimes[t]) # Nil /\ Held(runtimes[u]) # Nil /\ Held(runtimes[t]).gen = Held(runtimes[u]).gen => t = u
              /\ Held(rs[t]) # Nil /\ Held(rs[u]) # Nil /\ Held(rs[t]).gen = Held(rs[u]).gen => t = u
         /\ \A t \in Terminal : Held(runtimes[t]) # Nil => Held(runtimes[t]).gen \in 1 .. puzzles
         /\ puzzles \in Nat /\ puzzles <= MaxPuzzles /\ MaxPuzzles \in Nat
         /\ puzzles' = puzzles \/ puzzles' = puzzles + 1
<1>1. active # Nil => /\ active \in Terminal /\ runtimes[active] \in Checkpoint
                      /\ Held(runtimes[active]) = Shown(runtimes, active)
  BY HeldIsHeld DEF ShownInv, Shown
<1>2. a # Nil => a \in Terminal /\ rs[a] \in Checkpoint /\ Held(rs[a]) = Shown(rs, a)
  BY HeldIsHeld DEF Transaction, Shown
<1>3. PuzzlesInv' /\ \A t \in Terminal : Held(runtimes'[t]) = Held(rs[t])
  BY NumbersStayDifferent, ProjectionKeepsPuzzles
<1>4. \A t, u \in Terminal :
        Held(rs[t]) # Nil /\ Held(rs[u]) # Nil /\ Held(rs[t]).gen = Held(rs[u]).gen => t = u
  BY <1>3 DEF PuzzlesInv
<1>5. \A t, u \in Terminal :
        Held(runtimes[t]) # Nil /\ Held(runtimes[u]) # Nil /\ Held(runtimes[t]).gen = Held(runtimes[u]).gen => t = u
  BY DEF PuzzlesInv
<1>6. puzzles \in Nat /\ puzzles <= MaxPuzzles /\ MaxPuzzles \in Nat
  BY TreeAssumption DEF PuzzlesInv
<1>7. puzzles' = puzzles \/ puzzles' = puzzles + 1
  BY DEF Transaction, Drawn
<1>8. \A t \in Terminal : Held(runtimes[t]) # Nil => Held(runtimes[t]).gen \in 1 .. puzzles
  BY DEF PuzzlesInv
<1>9. Shown(runtimes, active) # Nil => active # Nil
  BY DEF Shown
<1>10. Shown(rs, a) # Nil => a # Nil
  BY DEF Shown
<1> QED
  BY <1>1, <1>2, <1>4, <1>5, <1>6, <1>7, <1>8, <1>9, <1>10

\* An event is about the puzzle that was shown or the one that is.
LEMMA EventsHaveHolders ==
  ASSUME NEW rs, NEW a, ShownInv, PuzzlesInv, Transaction(rs, a), Commit(rs, a),
         NEW x \in LifecycleEvents(rs, a)
  PROVE  /\ x[2] \in LifecycleEvent
         /\ \/ /\ active \in Terminal /\ Held(runtimes[active]) # Nil
               /\ x[1] = Held(runtimes[active]).gen /\ x[2] = "interrupted"
            \/ a \in Terminal /\ Held(rs[a]) # Nil /\ x[1] = Held(rs[a]).gen
         /\ x[2] \in OutcomeEvents =>
              /\ active = a /\ a \in Terminal /\ Held(runtimes[a]) # Nil /\ Held(rs[a]) # Nil
              /\ x[1] = Held(runtimes[a]).gen /\ x[1] = Held(rs[a]).gen
              /\ x[2] = "succeeded" => ~Held(runtimes[a]).solved /\ Held(rs[a]).solved
              /\ x[2] = "failed" => ~Held(runtimes[a]).failed /\ Held(rs[a]).failed
<1> DEFINE old == Shown(runtimes, active)
           new == Shown(rs, a)
<1>1. /\ old # Nil => active \in Terminal /\ Held(runtimes[active]) = old
      /\ new # Nil => a \in Terminal /\ Held(rs[a]) = new
  BY ShownIsHeld
<1>2. /\ x[2] \in LifecycleEvent
      /\ \/ old # Nil /\ x[1] = old.gen /\ x[2] = "interrupted"
         \/ new # Nil /\ x[1] = new.gen
      /\ x[2] \in OutcomeEvents => /\ old # Nil /\ new # Nil /\ active = a /\ old.gen = new.gen /\ x[1] = new.gen
                                   /\ x[2] = "succeeded" => ~old.solved /\ new.solved
                                   /\ x[2] = "failed" => ~old.failed /\ new.failed
  BY EventsAreAboutTheShown
<1> HIDE DEF old, new
<1> QED
  BY <1>1, <1>2

\* A line that no outcome is told of keeps its outcomes.
LEMMA OutcomesAreKept ==
  ASSUME NEW rs, NEW a, ShownInv, PuzzlesInv, LogInv, Transaction(rs, a), Commit(rs, a),
         NEW g \in 1 .. MaxPuzzles
  PROVE  /\ (\A x \in LifecycleEvents(rs, a) : x[1] = g => x[2] \notin OutcomeEvents) =>
              audit'[g].outcomes = audit[g].outcomes
         /\ audit[g].outcomes # <<>> => audit'[g].outcomes # <<>>
         /\ audit'[g] \in [latest : LifecycleEvent \cup {Nil}, outcomes : Seq(LifecycleEvent)]
<1> DEFINE events == LifecycleEvents(rs, a)
<1>1. \/ audit'[g] = audit[g] /\ \A x \in events : x[1] # g
      \/ \E x \in events :
           /\ x[1] = g
           /\ audit'[g] = Line(g, x[2])
  BY AnEventIsRecorded
<1>2. audit[g] \in [latest : LifecycleEvent \cup {Nil}, outcomes : Seq(LifecycleEvent)]
  BY DEF LogInv
<1>3. \A x \in events : x[2] \in LifecycleEvent
  BY EventsHaveHolders
<1> HIDE DEF events
<1>4. CASE audit'[g] = audit[g]
  BY <1>2, <1>4
<1>5. ASSUME NEW x \in events, x[1] = g,
             audit'[g] = Line(g, x[2])
      PROVE  /\ (\A y \in events : y[1] = g => y[2] \notin OutcomeEvents) => audit'[g].outcomes = audit[g].outcomes
             /\ audit[g].outcomes # <<>> => audit'[g].outcomes # <<>>
             /\ audit'[g] \in [latest : LifecycleEvent \cup {Nil}, outcomes : Seq(LifecycleEvent)]
  <2> DEFINE s == audit[g].outcomes
             e == x[2]
  <2>1. s \in Seq(LifecycleEvent) /\ e \in LifecycleEvent
    BY <1>2, <1>3
  <2>2. CASE e \in OutcomeEvents
    <3>1. audit'[g] = [latest |-> e, outcomes |-> Append(s, e)]
      BY <1>5, <2>2 DEF Line
    <3> HIDE DEF s, e
    <3>2. Append(s, e) \in Seq(LifecycleEvent) /\ Append(s, e) # <<>>
      BY <2>1
    <3>3. audit'[g].outcomes = Append(s, e)
      BY <3>1
    <3>4. audit'[g] \in [latest : LifecycleEvent \cup {Nil}, outcomes : Seq(LifecycleEvent)]
      BY <2>1, <3>1, <3>2
    <3>5. ~(\A y \in events : y[1] = g => y[2] \notin OutcomeEvents)
      BY <1>5, <2>2 DEF e
    <3> QED
      BY <3>2, <3>3, <3>4, <3>5
  <2>3. CASE e \notin OutcomeEvents
    <3>1. audit'[g] = [latest |-> e, outcomes |-> s]
      BY <1>5, <2>3 DEF Line
    <3>2. audit'[g].outcomes = s
      BY <3>1
    <3> QED
      BY <2>1, <3>1, <3>2
  <2> QED
    BY <2>2, <2>3
<1> QED
  BY <1>1, <1>4, <1>5 DEF events

\* After a transaction the log says of every puzzle that is held what became of it.
LEMMA HeldPuzzlesAreLogged ==
  ASSUME TerminalsInv, NEW rs, NEW a, Transaction(rs, a), Commit(rs, a),
         NEW t \in Terminal, Held(rs[t]) # Nil
  PROVE  LET q == Held(rs[t]) IN
         /\ audit'[q.gen].outcomes = Outcome(q)
         /\ Playing(q) /\ t # a => audit'[q.gen].latest = "interrupted"
<1> DEFINE p == Held(runtimes[t])
           q == Held(rs[t])
           events == LifecycleEvents(rs, a)
<1>1. ShownInv /\ PuzzlesInv /\ LogInv /\ AuditFollowsThePuzzles
  BY DEF TerminalsInv
<1>2. /\ PuzzlesInv' /\ Held(runtimes'[t]) = q
      /\ q.gen \in 1 .. MaxPuzzles
  <2>1. PuzzlesInv' /\ Held(runtimes'[t]) = q
    BY <1>1, NumbersStayDifferent, ProjectionKeepsPuzzles
  <2>2. q.gen \in 1 .. puzzles' /\ puzzles' \in 0 .. MaxPuzzles
    BY <2>1 DEF PuzzlesInv
  <2>3. MaxPuzzles \in Nat
    BY TreeAssumption
  <2> HIDE DEF q
  <2> QED
    BY <2>1, <2>2, <2>3
<1>3. \A x \in events :
        /\ \/ /\ active \in Terminal /\ Held(runtimes[active]) # Nil
              /\ x[1] = Held(runtimes[active]).gen /\ x[2] = "interrupted"
           \/ a \in Terminal /\ Held(rs[a]) # Nil /\ x[1] = Held(rs[a]).gen
        /\ x[2] \in OutcomeEvents =>
             /\ active = a /\ a \in Terminal /\ Held(runtimes[a]) # Nil /\ Held(rs[a]) # Nil
             /\ x[1] = Held(runtimes[a]).gen /\ x[1] = Held(rs[a]).gen
             /\ x[2] = "succeeded" => ~Held(runtimes[a]).solved /\ Held(rs[a]).solved
             /\ x[2] = "failed" => ~Held(runtimes[a]).failed /\ Held(rs[a]).failed
  BY <1>1, EventsHaveHolders
<1>4. \/ audit'[q.gen] = audit[q.gen] /\ \A x \in events : x[1] # q.gen
      \/ \E x \in events :
           /\ x[1] = q.gen
           /\ audit'[q.gen] = Line(q.gen, x[2])
  <2> DEFINE g == q.gen
  <2>1. LogInv /\ g \in 1 .. MaxPuzzles
    BY <1>1, <1>2
  <2> HIDE DEF g
  <2>2. \/ audit'[g] = audit[g] /\ \A x \in events : x[1] # g
        \/ \E x \in events :
             /\ x[1] = g
             /\ audit'[g] = Line(g, x[2])
    BY <2>1, AnEventIsRecorded
  <2> QED
    BY <2>2 DEF g
<1>5. (\A x \in events : x[1] = q.gen => x[2] \notin OutcomeEvents) => audit'[q.gen].outcomes = audit[q.gen].outcomes
  <2> HIDE DEF q
  <2> QED
    BY <1>1, <1>2, OutcomesAreKept
<1>6. /\ \A u \in Terminal : Held(runtimes[u]) # Nil /\ Held(runtimes[u]).gen = q.gen /\ p # Nil /\ p.gen = q.gen => u = t
      /\ \A u \in Terminal : Held(rs[u]) # Nil /\ Held(rs[u]).gen = q.gen => u = t
  BY <1>1, ShownIsHeld
<1>7. p # Nil => /\ audit[p.gen].outcomes = Outcome(p)
                 /\ Playing(p) /\ t # active => audit[p.gen].latest = "interrupted"
  <2>1. p # Nil => runtimes[t] # Nil /\ p = runtimes[t].hack
    BY DEF Held
  <2> QED
    BY <1>1, <2>1 DEF AuditFollowsThePuzzles
<1>8. CASE q = p
  <2>1. \A x \in events : x[1] = q.gen => x[2] \notin OutcomeEvents
    <3> SUFFICES ASSUME NEW x \in events, x[1] = q.gen, x[2] \in OutcomeEvents  PROVE FALSE
      OBVIOUS
    <3>1. t = a
      BY <1>3, <1>6
    <3>2. x[2] = "succeeded" \/ x[2] = "failed"
      BY DEF OutcomeEvents
    <3> QED
      BY <1>3, <1>8, <3>1, <3>2
  <2>2. ASSUME Playing(q), t # a  PROVE audit'[q.gen].latest = "interrupted"
    <3>1. CASE t # active
      <4>1. \A x \in events : x[1] # q.gen
        BY <1>3, <1>6, <1>8, <2>2, <3>1
      <4> QED
        BY <1>4, <1>7, <1>8, <2>2, <3>1, <4>1
    <3>2. CASE t = active
      <4>1. Shown(runtimes, active) = q
        <5>1. active # Nil
          BY <3>2, NilAssumption
        <5> QED
          BY <1>1, <1>8, <3>2, <5>1, ShownIsHeld
      <4>2. <<q.gen, "interrupted">> \in events
        BY <2>2, <3>2, <4>1, LeftIsInterrupted
      <4>3. \E x \in events : x[1] = q.gen
        <5>1. <<q.gen, "interrupted">>[1] = q.gen
          OBVIOUS
        <5> QED
          BY <4>2, <5>1
      <4>4. \A x \in events : x[1] = q.gen => x[2] = "interrupted"
        BY <1>3, <1>6, <2>2
      <4> HIDE DEF events, q
      <4>5. PICK x \in events :
              /\ x[1] = q.gen
              /\ audit'[q.gen] = Line(q.gen, x[2])
        BY <1>4, <4>3
      <4> QED
        BY <4>4, <4>5 DEF Line
    <3> QED
      BY <3>1, <3>2
  <2> QED
    BY <1>5, <1>7, <1>8, <2>1, <2>2
<1>9. CASE Played(t, rs, a)
  <2>1. /\ t = active /\ a = active /\ p # Nil /\ Playing(p) /\ PuzzleInv(q) /\ q.gen = p.gen
        /\ controllerSession' = controllerSession
    BY <1>9 DEF Played, Advance
  <2>2. /\ ~p.solved /\ ~p.failed /\ q.solved \in BOOLEAN /\ q.failed \in BOOLEAN /\ ~(q.solved /\ q.failed)
    BY <2>1 DEF Playing, PuzzleInv, HackState
  <2>3. audit[q.gen].outcomes = <<>>
    <3>1. Outcome(p) = <<>>
      BY <2>2 DEF Outcome
    <3> QED
      BY <1>7, <2>1, <3>1
  <2>4. Shown(runtimes, active) = p /\ Shown(rs, a) = q
    <3>1. active # Nil
      BY <2>1, NilAssumption
    <3> QED
      BY <1>1, <2>1, <3>1, ShownIsHeld
  <2>5. /\ q.solved => <<q.gen, "succeeded">> \in events
        /\ q.failed => <<q.gen, "failed">> \in events
        /\ \A x \in events : x[2] \in OutcomeEvents
    <3>1. ~ControllerChanged
      BY <2>1 DEF ControllerChanged
    <3>2. active = a /\ p # Nil /\ q # Nil /\ q.gen = p.gen /\ ~p.solved /\ ~p.failed
      BY <2>1, <2>2
    <3> HIDE DEF p, q
    <3> QED
      BY <2>4, <3>1, <3>2, OutcomeIsTold
  <2>6. \A x \in events : (x[2] = "succeeded" /\ q.solved) \/ (x[2] = "failed" /\ q.failed)
    <3>1. \A x \in events : x[2] = "succeeded" \/ x[2] = "failed"
      BY <2>5 DEF OutcomeEvents
    <3>2. \A x \in events : /\ x[2] = "succeeded" => q.solved
                            /\ x[2] = "failed" => q.failed
      BY <1>3, <2>1, <2>5
    <3> HIDE DEF events, q
    <3> QED
      BY <3>1, <3>2, Zenon
  <2>7. (\E x \in events : x[1] = q.gen) \/ (~q.solved /\ ~q.failed)
    <3>1. <<q.gen, "succeeded">>[1] = q.gen /\ <<q.gen, "failed">>[1] = q.gen
      OBVIOUS
    <3> HIDE DEF events, q
    <3>2. CASE q.solved
      BY <2>5, <3>1, <3>2, Zenon
    <3>3. CASE q.failed
      BY <2>5, <3>1, <3>3, Zenon
    <3> QED
      BY <3>2, <3>3, Zenon
  <2>8. audit'[q.gen].outcomes = Outcome(q)
    <3>1. ASSUME NEW x \in events, x[1] = q.gen,
                 audit'[q.gen] = Line(q.gen, x[2])
          PROVE  audit'[q.gen].outcomes = Outcome(q)
      <4>1. audit'[q.gen].outcomes = Append(audit[q.gen].outcomes, x[2])
        BY <2>5, <3>1 DEF Line
      <4>2. audit'[q.gen].outcomes = <<x[2]>>
        BY <2>3, <4>1
      <4>3. CASE x[2] = "succeeded" /\ q.solved
        <5>1. ~q.failed
          BY <2>2, <4>3
        <5>2. Outcome(q) = <<"succeeded">>
          BY <4>3, <5>1 DEF Outcome
        <5> QED
          BY <4>2, <4>3, <5>2
      <4>4. CASE x[2] = "failed" /\ q.failed
        <5>1. ~q.solved
          BY <2>2, <4>4
        <5>2. Outcome(q) = <<"failed">>
          BY <4>4, <5>1 DEF Outcome
        <5> QED
          BY <4>2, <4>4, <5>2
      <4> QED
        BY <2>6, <4>3, <4>4
    <3>2. ASSUME audit'[q.gen] = audit[q.gen], \A x \in events : x[1] # q.gen
          PROVE  audit'[q.gen].outcomes = Outcome(q)
      <4>1. ~q.solved /\ ~q.failed
        BY <2>7, <3>2
      <4>2. Outcome(q) = <<>>
        BY <4>1 DEF Outcome
      <4> QED
        BY <2>3, <3>2, <4>2
    <3> HIDE DEF events, q
    <3> QED
      BY <1>4, <3>1, <3>2
  <2> QED
    BY <2>1, <2>8
<1>10. CASE Drawn(t, rs, a)
  <2>1. t = a /\ ~q.solved /\ ~q.failed /\ q.gen = puzzles + 1 /\ puzzles < MaxPuzzles
    BY <1>10 DEF Drawn
  <2>2. audit[q.gen].outcomes = <<>>
    <3>1. q.gen \in puzzles + 1 .. MaxPuzzles
      <4>1. puzzles \in Nat /\ MaxPuzzles \in Nat
        BY <1>1, ShownIsHeld
      <4> HIDE DEF q
      <4> QED
        BY <2>1, <4>1
    <3> QED
      BY <1>1, <3>1 DEF LogInv
  <2>3. \A x \in events : x[1] = q.gen => x[2] \notin OutcomeEvents
    <3> SUFFICES ASSUME NEW x \in events, x[1] = q.gen, x[2] \in OutcomeEvents  PROVE FALSE
      OBVIOUS
    <3>1. a \in Terminal /\ Held(runtimes[a]) # Nil /\ q.gen = Held(runtimes[a]).gen
      BY <1>3
    <3>2. q.gen \in 1 .. puzzles /\ puzzles \in Nat
      BY <1>1, <3>1, ShownIsHeld
    <3> HIDE DEF q
    <3> QED
      BY <2>1, <3>2
  <2>4. Outcome(q) = <<>>
    BY <2>1 DEF Outcome
  <2> QED
    BY <1>5, <2>1, <2>2, <2>3, <2>4
<1>11. CASE rs[t] = Nil
  BY <1>11 DEF Held
<1> QED
  BY <1>8, <1>9, <1>10, <1>11 DEF Transaction

\* A puzzle that nobody holds any more has its outcome on record, or was interrupted.
LEMMA ForgottenPuzzlesAreLogged ==
  ASSUME TerminalsInv, NEW rs, NEW a, Transaction(rs, a), Commit(rs, a),
         NEW g \in 1 .. puzzles', \A t \in Terminal : Held(rs[t]) = Nil \/ Held(rs[t]).gen # g
  PROVE  audit'[g].outcomes # <<>> \/ audit'[g].latest = "interrupted"
<1> DEFINE events == LifecycleEvents(rs, a)
<1>1. ShownInv /\ PuzzlesInv /\ LogInv /\ AuditFollowsThePuzzles
  BY DEF TerminalsInv
<1>2. g \in 1 .. puzzles /\ g \in 1 .. MaxPuzzles
  <2>1. /\ puzzles \in Nat /\ puzzles <= MaxPuzzles /\ MaxPuzzles \in Nat
        /\ puzzles' = puzzles \/ puzzles' = puzzles + 1
    BY <1>1, ShownIsHeld
  <2>2. CASE puzzles' = puzzles
    BY <2>1, <2>2
  <2>3. CASE puzzles' # puzzles
    <3>1. PICK t \in Terminal : Drawn(t, rs, a)
      BY <2>3 DEF Transaction
    <3>2. Held(rs[t]).gen = puzzles + 1 /\ PuzzleInv(Held(rs[t]))
      BY <3>1 DEF Drawn
    <3>3. Held(rs[t]) # Nil
      BY <3>2, NilAssumption DEF PuzzleInv
    <3>4. g # puzzles + 1
      BY <3>2, <3>3
    <3> QED
      BY <2>1, <3>4
  <2> QED
    BY <2>2, <2>3
<1>3. \A x \in events : x[1] = g =>
        /\ active \in Terminal /\ Held(runtimes[active]) # Nil
        /\ Held(runtimes[active]).gen = g /\ x[2] = "interrupted"
  BY <1>1, EventsHaveHolders
<1>4. \/ audit'[g] = audit[g] /\ \A x \in events : x[1] # g
      \/ \E x \in events :
           /\ x[1] = g
           /\ audit'[g] = Line(g, x[2])
  <2>1. LogInv /\ g \in 1 .. MaxPuzzles
    BY <1>1, <1>2
  <2> QED
    BY <2>1, AnEventIsRecorded
<1>5. audit[g].outcomes # <<>> => audit'[g].outcomes # <<>>
  BY <1>1, <1>2, OutcomesAreKept
<1>6. CASE \A t \in Terminal : Held(runtimes[t]) = Nil \/ Held(runtimes[t]).gen # g
  <2>1. \A t \in Terminal : runtimes[t] = Nil \/ runtimes[t].hack = Nil \/ runtimes[t].hack.gen # g
    BY <1>6 DEF Held
  <2>2. audit[g].outcomes # <<>> \/ audit[g].latest = "interrupted"
    BY <1>1, <1>2, <2>1 DEF AuditFollowsThePuzzles
  <2>3. \A x \in events : x[1] # g
    BY <1>3, <1>6
  <2> HIDE DEF events
  <2> QED
    BY <1>4, <2>2, <2>3
<1>7. ASSUME NEW t \in Terminal, Held(runtimes[t]) # Nil, Held(runtimes[t]).gen = g
      PROVE  audit'[g].outcomes # <<>> \/ audit'[g].latest = "interrupted"
  <2> DEFINE p == Held(runtimes[t])
  <2>1. /\ audit[g].outcomes = Outcome(p)
        /\ Playing(p) /\ t # active => audit[g].latest = "interrupted"
    <3>1. runtimes[t] # Nil /\ p = runtimes[t].hack
      BY <1>7 DEF Held
    <3> QED
      BY <1>1, <1>7, <3>1 DEF AuditFollowsThePuzzles
  <2>2. p.solved \/ p.failed => audit'[g].outcomes # <<>>
    <3>1. ASSUME p.solved \/ p.failed  PROVE Outcome(p) # <<>>
      <4>1. CASE p.solved /\ p.failed
        BY <4>1 DEF Outcome
      <4>2. CASE p.solved /\ ~p.failed
        BY <4>2 DEF Outcome
      <4>3. CASE ~p.solved /\ p.failed
        BY <4>3 DEF Outcome
      <4> QED
        BY <3>1, <4>1, <4>2, <4>3
    <3> QED
      BY <1>5, <2>1, <3>1
  <2>3. ~Playing(p) => p.solved \/ p.failed
    BY <1>7 DEF Playing
  <2>4. CASE rs[t] = Nil /\ a # t /\ Playing(p)
    <3>1. CASE t # active
      <4>1. \A x \in events : x[1] # g
        BY <1>1, <1>3, <1>7, <3>1, ShownIsHeld
      <4> HIDE DEF events, p
      <4> QED
        BY <1>4, <2>1, <2>4, <3>1, <4>1
    <3>2. CASE t = active
      <4>1. Shown(runtimes, active) = p
        <5>1. active # Nil
          BY <3>2, NilAssumption
        <5> QED
          BY <1>1, <3>2, <5>1, ShownIsHeld
      <4>2. <<g, "interrupted">> \in events
        BY <1>7, <2>4, <3>2, <4>1, LeftIsInterrupted
      <4>3. \E x \in events : x[1] = g
        <5>1. <<g, "interrupted">>[1] = g
          OBVIOUS
        <5> QED
          BY <4>2, <5>1
      <4> HIDE DEF events, p
      <4>4. PICK x \in events :
              /\ x[1] = g
              /\ audit'[g] = Line(g, x[2])
        BY <1>4, <4>3
      <4>5. audit'[g].latest = x[2]
        BY <4>4 DEF Line
      <4>6. x[2] = "interrupted"
        BY <1>3, <4>4
      <4> QED
        BY <4>5, <4>6
    <3> QED
      BY <3>1, <3>2
  <2>5. CASE Held(rs[t]) = Held(runtimes[t])
    BY <1>7, <2>5
  <2>6. CASE Played(t, rs, a)
    <3>1. Held(rs[t]).gen = g /\ PuzzleInv(Held(rs[t]))
      BY <1>7, <2>6 DEF Played, Advance
    <3>2. Held(rs[t]) # Nil
      BY <3>1, NilAssumption DEF PuzzleInv
    <3> QED
      BY <3>1, <3>2
  <2>7. CASE Drawn(t, rs, a)
    <3>1. p.failed
      BY <1>7, <2>7 DEF Drawn
    <3> QED
      BY <2>2, <3>1
  <2> QED
    BY <2>2, <2>3, <2>4, <2>5, <2>6, <2>7 DEF Transaction
<1> QED
  BY <1>6, <1>7

\* The log has no outcome of a puzzle to come.
LEMMA LogIsKept ==
  ASSUME TerminalsInv, NEW rs, NEW a, Transaction(rs, a), Commit(rs, a)
  PROVE  LogInv'
<1>1. ShownInv /\ PuzzlesInv /\ LogInv
  BY DEF TerminalsInv
<1>2. audit' \in [1 .. MaxPuzzles -> [latest : LifecycleEvent \cup {Nil}, outcomes : Seq(LifecycleEvent)]]
  <2> DEFINE R == [latest : LifecycleEvent \cup {Nil}, outcomes : Seq(LifecycleEvent)]
  <2>1. \A g \in 1 .. MaxPuzzles : audit'[g] \in R
    BY <1>1, OutcomesAreKept
  <2>2. audit' = Recorded(LifecycleEvents(rs, a)) /\ DOMAIN audit = 1 .. MaxPuzzles
    BY <1>1 DEF Commit, LogInv
  <2>3. \A events : Recorded(events) \in [DOMAIN audit -> {Recorded(events)[g] : g \in DOMAIN audit}]
    BY DEF Recorded
  <2>4. audit' = [g \in 1 .. MaxPuzzles |-> audit'[g]]
    BY <2>2, <2>3
  <2> HIDE DEF R
  <2>5. audit' \in [1 .. MaxPuzzles -> R]
    BY <2>1, <2>4
  <2> QED
    BY <2>5 DEF R
<1>3. ASSUME NEW g \in puzzles' + 1 .. MaxPuzzles  PROVE audit'[g].outcomes = <<>>
  <2>1. /\ puzzles \in Nat /\ puzzles <= MaxPuzzles /\ MaxPuzzles \in Nat
        /\ puzzles' = puzzles \/ puzzles' = puzzles + 1
        /\ \A t \in Terminal : Held(runtimes[t]) # Nil => Held(runtimes[t]).gen \in 1 .. puzzles
    BY <1>1, ShownIsHeld
  <2>2. g \in puzzles + 1 .. MaxPuzzles /\ g \in 1 .. MaxPuzzles /\ g \notin 1 .. puzzles
    BY <2>1
  <2>3. audit[g].outcomes = <<>>
    BY <1>1, <2>2 DEF LogInv
  <2>4. \A x \in LifecycleEvents(rs, a) : x[1] = g => x[2] \notin OutcomeEvents
    BY <1>1, <2>1, <2>2, EventsHaveHolders
  <2> QED
    BY <1>1, <2>2, <2>3, <2>4, OutcomesAreKept
<1> QED
  BY <1>2, <1>3 DEF LogInv

\* Every transaction keeps the invariant.
LEMMA TransactionsKeepTheInvariant ==
  ASSUME TerminalsInv, NEW rs, NEW a, Transaction(rs, a), Commit(rs, a)
  PROVE  TerminalsInv'
<1>1. ShownInv /\ PuzzlesInv /\ LogInv
  BY DEF TerminalsInv
<1>2. ShownInv' /\ CursorIsValid' /\ PuzzlesInv' /\ LogInv'
  BY <1>1, ProjectionKeepsPuzzles, NumbersStayDifferent, LogIsKept
<1>3. \A t \in Terminal : Held(runtimes'[t]) = Held(rs[t])
  BY ProjectionKeepsPuzzles
<1>4. active' = a
  BY DEF Commit
<1>5. ASSUME NEW t \in Terminal, runtimes'[t] # Nil, runtimes'[t].hack # Nil
      PROVE  LET p == runtimes'[t].hack IN
             /\ audit'[p.gen].outcomes = Outcome(p)
             /\ Playing(p) /\ t # active' => audit'[p.gen].latest = "interrupted"
  <2>1. runtimes'[t].hack = Held(rs[t]) /\ Held(rs[t]) # Nil
    BY <1>3, <1>5 DEF Held
  <2> QED
    BY <1>4, <2>1, HeldPuzzlesAreLogged
<1>6. ASSUME NEW g \in 1 .. puzzles',
             \A t \in Terminal : runtimes'[t] = Nil \/ runtimes'[t].hack = Nil \/ runtimes'[t].hack.gen # g
      PROVE  audit'[g].outcomes # <<>> \/ audit'[g].latest = "interrupted"
  <2>1. \A t \in Terminal : Held(rs[t]) = Nil \/ Held(rs[t]).gen # g
    BY <1>3, <1>6 DEF Held
  <2> QED
    BY <2>1, ForgottenPuzzlesAreLogged
<1>7. AuditFollowsThePuzzles'
  BY <1>5, <1>6 DEF AuditFollowsThePuzzles
<1> QED
  BY <1>2, <1>7 DEF TerminalsInv

-----------------------------------------------------------------------------
(* LockedTerminal: the checkpoints of a transaction.                        *)

\* A checkpoint that is created has no puzzle, or one of its own that nobody has played.
LEMMA CreatedIsFresh ==
  ASSUME puzzles \in Nat, NEW t \in Terminal, NEW tree \in Tree, NEW r \in CreateRuntime(t, tree)
  PROVE  /\ r \in Checkpoint
         /\ r.hack # Nil => /\ t \in Locked /\ PuzzleInv(r.hack) /\ r.hack.gen = puzzles + 1
                            /\ ~r.hack.solved /\ ~r.hack.failed
<1>1. PICK h \in IF t \in Locked THEN GenerateBoard(puzzles + 1) ELSE {Nil} :
        r = Repaired([active |-> TRUE, tree |-> tree, nav |-> Default, hack |-> h, cursor |-> Cursor(Nil, Nil)])
  BY DEF CreateRuntime
<1> DEFINE q == [active |-> TRUE, tree |-> tree, nav |-> Default, hack |-> h, cursor |-> Cursor(Nil, Nil)]
<1>2. h # Nil => /\ t \in Locked /\ PuzzleInv(h) /\ h.gen = puzzles + 1 /\ ~h.solved /\ ~h.failed
  <2> SUFFICES ASSUME h # Nil
               PROVE  t \in Locked /\ PuzzleInv(h) /\ h.gen = puzzles + 1 /\ ~h.solved /\ ~h.failed
    OBVIOUS
  <2>1. t \in Locked /\ h \in GenerateBoard(puzzles + 1)
    OBVIOUS
  <2>2. puzzles + 1 \in Nat
    OBVIOUS
  <2> QED
    BY <2>1, <2>2, BoardsAreSound
<1>3. h \in HackState \cup {Nil}
  BY <1>2 DEF PuzzleInv
<1>4. Default \in NavState /\ Cursor(Nil, Nil) \in ScreenCursor
  BY NavStates DEF Cursor, ScreenCursor
<1>5. q \in Checkpoint /\ q.hack = h
  BY <1>3, <1>4 DEF Checkpoint
<1> HIDE DEF q
<1>6. r \in Checkpoint /\ r.hack = h
  BY <1>1, <1>5, RepairedIsValid DEF q
<1> QED
  BY <1>2, <1>6

\* An edit of the tree and a change of the screen leave the puzzle as it is.
LEMMA UpdatedKeepsThePuzzle ==
  ASSUME NEW r \in Checkpoint, NEW tree \in Tree
  PROVE  /\ UpdateRuntime(r, tree) \in Checkpoint /\ UpdateRuntime(r, tree).hack = r.hack
         /\ ReactivateRuntime(r, tree) \in Checkpoint /\ ReactivateRuntime(r, tree).hack = r.hack
         /\ Suspended(r) \in Checkpoint /\ Suspended(r).hack = r.hack
<1>1. ASSUME NEW x \in Checkpoint
      PROVE  UpdateRuntime(x, tree) \in Checkpoint /\ UpdateRuntime(x, tree).hack = x.hack
  <2> DEFINE nav == Revalidate(x.nav, tree)
             q == [x EXCEPT !.tree = tree, !.nav = nav]
  <2>1. UpdateRuntime(x, tree) = Repaired(q)
    BY DEF UpdateRuntime
  <2>2. nav \in NavState
    BY CheckpointIsTyped, RevalidatedIsAPlace
  <2> HIDE DEF nav
  <2>3. q \in Checkpoint /\ q.hack = x.hack
    BY <2>2 DEF Checkpoint
  <2> HIDE DEF q
  <2> QED
    BY <2>1, <2>3, RepairedIsValid
<1>2. /\ [r EXCEPT !.active = TRUE] \in Checkpoint /\ [r EXCEPT !.active = TRUE].hack = r.hack
      /\ [r EXCEPT !.active = FALSE] \in Checkpoint /\ [r EXCEPT !.active = FALSE].hack = r.hack
  BY DEF Checkpoint
<1>3. UpdateRuntime([r EXCEPT !.active = TRUE], tree) \in Checkpoint
      /\ UpdateRuntime([r EXCEPT !.active = TRUE], tree).hack = r.hack
  BY <1>1, <1>2
<1>4. UpdateRuntime(r, tree) \in Checkpoint /\ UpdateRuntime(r, tree).hack = r.hack
  BY <1>1
<1> QED
  BY <1>2, <1>3, <1>4 DEF ReactivateRuntime, Suspended

LEMMA DraftsAreTrees ==
  ASSUME NEW t \in Terminal, NEW tree \in Draft[t]
  PROVE  tree \in Tree
BY TreeAssumption DEF Tree

\* What enters is a checkpoint with the puzzle it had, or a new one.
LEMMA EnteringIsSound ==
  ASSUME ShownInv, PuzzlesInv, NEW t \in Terminal, NEW tree \in Draft[t], NEW r \in Entering(t, tree)
  PROVE  /\ r \in Checkpoint
         /\ runtimes[t] # Nil => r.hack = Held(runtimes[t])
         /\ runtimes[t] = Nil /\ r.hack # Nil =>
              /\ t \in Locked /\ PuzzleInv(r.hack) /\ r.hack.gen = puzzles + 1
              /\ ~r.hack.solved /\ ~r.hack.failed
<1>1. tree \in Tree /\ puzzles \in Nat
  BY DraftsAreTrees DEF PuzzlesInv
<1>2. CASE runtimes[t] = Nil
  <2>1. r \in CreateRuntime(t, tree)
    BY <1>2 DEF Entering
  <2> QED
    BY <1>1, <1>2, <2>1, CreatedIsFresh
<1>3. CASE runtimes[t] # Nil
  <2>1. r = ReactivateRuntime(runtimes[t], tree)
    BY <1>3 DEF Entering
  <2>2. runtimes[t] \in Checkpoint /\ Held(runtimes[t]) = runtimes[t].hack
    BY <1>3, HeldIsHeld DEF ShownInv
  <2> QED
    BY <1>1, <1>3, <2>1, <2>2, UpdatedKeepsThePuzzle
<1> QED
  BY <1>2, <1>3

\* What is left is kept with its puzzle, or let go.
LEMMA LeavingIsSound ==
  ASSUME ShownInv, NEW keep \in BOOLEAN
  PROVE  /\ Leaving(runtimes, keep) \in [Terminal -> Checkpoint \cup {Nil}]
         /\ \A t \in Terminal :
              \/ Held(Leaving(runtimes, keep)[t]) = Held(runtimes[t])
              \/ Leaving(runtimes, keep)[t] = Nil /\ t = active
<1>1. CASE active = Nil
  BY <1>1 DEF Leaving, ShownInv
<1>2. CASE active # Nil
  <2> DEFINE left == IF ~keep /\ Playing(runtimes[active].hack) THEN Nil ELSE Suspended(runtimes[active])
  <2>1. active \in Terminal /\ runtimes[active] \in Checkpoint /\ runtimes \in [Terminal -> Checkpoint \cup {Nil}]
    BY <1>2 DEF ShownInv
  <2>2. Leaving(runtimes, keep) = [runtimes EXCEPT ![active] = left]
    BY <1>2 DEF Leaving
  <2>3. Suspended(runtimes[active]) \in Checkpoint /\ Suspended(runtimes[active]).hack = runtimes[active].hack
    <3>1. PICK tree : tree \in Tree
      BY <2>1, CheckpointIsTyped
    <3> QED
      BY <2>1, <3>1, UpdatedKeepsThePuzzle
  <2>4. left = Nil \/ (left \in Checkpoint /\ Held(left) = Held(runtimes[active]))
    BY <2>1, <2>3, HeldIsHeld
  <2> HIDE DEF left
  <2>5. Leaving(runtimes, keep) \in [Terminal -> Checkpoint \cup {Nil}]
    BY <2>1, <2>2, <2>4
  <2>6. Leaving(runtimes, keep)[active] = left
        /\ \A t \in Terminal : t # active => Leaving(runtimes, keep)[t] = runtimes[t]
    BY <2>1, <2>2
  <2> QED
    BY <2>4, <2>5, <2>6
<1> QED
  BY <1>1, <1>2

\* A terminal that enters: the one that is left keeps its puzzle or lets it go.
LEMMA EnteringIsATransaction ==
  ASSUME ShownInv, PuzzlesInv, NEW t \in Terminal, NEW tree \in Draft[t], NEW keep \in BOOLEAN,
         NEW r \in Entering(t, tree), t \in Locked /\ runtimes[t] = Nil => puzzles < MaxPuzzles,
         Generated(r), NEW q \in Checkpoint, q.hack = r.hack
  PROVE  Transaction([IF t = active THEN runtimes ELSE Leaving(runtimes, keep) EXCEPT ![t] = q], t)
<1> DEFINE before == IF t = active THEN runtimes ELSE Leaving(runtimes, keep)
           rs == [before EXCEPT ![t] = q]
<1>1. /\ before \in [Terminal -> Checkpoint \cup {Nil}]
      /\ \A u \in Terminal : u # t => \/ Held(before[u]) = Held(runtimes[u])
                                      \/ before[u] = Nil /\ u = active
  BY LeavingIsSound DEF ShownInv
<1> HIDE DEF before
<1>2. /\ rs \in [Terminal -> Checkpoint \cup {Nil}] /\ rs[t] = q
      /\ \A u \in Terminal : u # t => rs[u] = before[u]
  BY <1>1
<1> HIDE DEF rs
<1>3. Held(rs[t]) = r.hack
  BY <1>2, HeldIsHeld
<1>4. puzzles \in Nat
  BY DEF PuzzlesInv
<1>5. CASE runtimes[t] = Nil /\ r.hack # Nil
  <2>1. /\ t \in Locked /\ PuzzleInv(r.hack) /\ r.hack.gen = puzzles + 1
        /\ ~r.hack.solved /\ ~r.hack.failed
    BY <1>5, EnteringIsSound
  <2>2. puzzles' = puzzles + 1
    <3>1. puzzles + 1 > puzzles
      BY <1>4
    <3> QED
      BY <1>5, <2>1, <3>1 DEF Generated
  <2>3. Held(runtimes[t]) = Nil
    BY <1>5 DEF Held
  <2>4. Drawn(t, rs, t)
    BY <1>3, <1>5, <2>1, <2>2, <2>3 DEF Drawn
  <2> QED
    BY <1>1, <1>2, <2>4 DEF Transaction, rs, before
<1>6. CASE ~(runtimes[t] = Nil /\ r.hack # Nil)
  <2>1. r.hack = Held(runtimes[t])
    BY <1>6, EnteringIsSound DEF Held
  <2>2. puzzles' = puzzles
    <3>1. r.hack # Nil => ~(r.hack.gen > puzzles)
      <4>1. r.hack # Nil => r.hack.gen \in 1 .. puzzles
        BY <2>1 DEF PuzzlesInv
      <4> QED
        BY <1>4, <4>1
    <3> QED
      BY <3>1 DEF Generated
  <2> QED
    BY <1>1, <1>2, <1>3, <2>1, <2>2 DEF Transaction, rs, before
<1> QED
  BY <1>5, <1>6

\* The controller acts: the place or the cursor changes, or the puzzle advances.
LEMMA ActingIsATransaction ==
  ASSUME ShownInv, active # Nil, NEW r \in Checkpoint, puzzles' = puzzles,
         \/ r.hack = runtimes[active].hack
         \/ /\ Playing(runtimes[active].hack) /\ Advance(runtimes[active].hack, r.hack)
            /\ controllerSession' = controllerSession
  PROVE  Transaction([runtimes EXCEPT ![active] = r], active)
<1> DEFINE rs == [runtimes EXCEPT ![active] = r]
<1>1. active \in Terminal /\ runtimes[active] \in Checkpoint /\ runtimes \in [Terminal -> Checkpoint \cup {Nil}]
  BY DEF ShownInv
<1>2. /\ rs \in [Terminal -> Checkpoint \cup {Nil}] /\ rs[active] = r
      /\ \A t \in Terminal : t # active => rs[t] = runtimes[t]
  BY <1>1
<1> HIDE DEF rs
<1>3. Held(rs[active]) = r.hack /\ rs[active] # Nil /\ Held(runtimes[active]) = runtimes[active].hack
  BY <1>1, <1>2, HeldIsHeld
<1>4. Held(rs[active]) = Held(runtimes[active]) \/ Played(active, rs, active)
  BY <1>3 DEF Played, Playing
<1> QED
  BY <1>1, <1>2, <1>4 DEF Transaction, rs

-----------------------------------------------------------------------------
(* LockedTerminal: every action is a transaction.                           *)

Transacted == \E rs, a : Transaction(rs, a) /\ Commit(rs, a)

\* Nothing of the checkpoints changes but what the projection repairs.
LEMMA StandingIsATransaction ==
  ASSUME ShownInv, puzzles' = puzzles
  PROVE  Transaction(runtimes, active)
BY DEF ShownInv, Transaction

LEMMA BroadcastsAreTransactions ==
  ASSUME ShownInv, OpenBroadcast \/ CloseBroadcast
  PROVE  Transacted
<1>1. CASE OpenBroadcast
  <2>1. Transaction(runtimes, Nil)
    BY <1>1 DEF OpenBroadcast, ShownInv, Transaction
  <2> QED
    BY <1>1, <2>1 DEF OpenBroadcast, Transacted
<1>2. CASE CloseBroadcast
  <2> DEFINE rs == [t \in Terminal |-> Nil]
  <2>1. rs \in [Terminal -> Checkpoint \cup {Nil}] /\ \A t \in Terminal : rs[t] = Nil /\ Nil # t
    BY NilAssumption
  <2>2. Commit(rs, Nil) /\ puzzles' = puzzles
    BY <1>2 DEF CloseBroadcast
  <2> HIDE DEF rs
  <2>3. Transaction(rs, Nil)
    BY <2>1, <2>2 DEF Transaction
  <2> QED
    BY <2>2, <2>3 DEF Transacted
<1> QED
  BY <1>1, <1>2

LEMMA SessionsAreTransactions ==
  ASSUME ShownInv, NEW s \in LogicalSession, Assign(s) \/ FreeCharacter(s) \/ HandControl(s)
  PROVE  Transacted
<1>1. puzzles' = puzzles /\ Commit(runtimes, active)
  BY DEF Assign, FreeCharacter, HandControl
<1> QED
  BY <1>1, StandingIsATransaction DEF Transacted

LEMMA ActivationIsATransaction ==
  ASSUME ShownInv, PuzzlesInv, NEW t \in Terminal, NEW keep \in BOOLEAN, NEW tree \in Draft[t],
         ActivateTerminal(t, tree, keep)
  PROVE  Transacted
<1>1. PICK r \in Entering(t, tree) :
        /\ Generated(r)
        /\ Commit([IF t = active THEN runtimes ELSE Leaving(runtimes, keep) EXCEPT ![t] = r], t)
  BY DEF ActivateTerminal
<1>2. t \in Locked /\ runtimes[t] = Nil => puzzles < MaxPuzzles
  BY DEF ActivateTerminal
<1>3. r \in Checkpoint
  BY EnteringIsSound
<1>4. Transaction([IF t = active THEN runtimes ELSE Leaving(runtimes, keep) EXCEPT ![t] = r], t)
  BY <1>1, <1>2, <1>3, EnteringIsATransaction
<1> QED
  BY <1>1, <1>4 DEF Transacted

LEMMA ClearingIsATransaction ==
  ASSUME ShownInv, NEW keep \in BOOLEAN, ClearTerminal(keep)
  PROVE  Transacted
<1>1. puzzles' = puzzles /\ Commit(Leaving(runtimes, keep), Nil)
  BY DEF ClearTerminal
<1>2. Transaction(Leaving(runtimes, keep), Nil)
  BY <1>1, LeavingIsSound, NilAssumption DEF Transaction
<1> QED
  BY <1>1, <1>2 DEF Transacted

LEMMA TransitionIsATransaction ==
  ASSUME ShownInv, PuzzlesInv, NEW t \in Terminal, NEW tree \in Draft[t], NEW nav \in NavState,
         FollowTransition(t, tree, nav)
  PROVE  Transacted
<1>1. PICK r \in Entering(t, tree) :
        Generated(r) /\ Commit([Leaving(runtimes, TRUE) EXCEPT ![t] = [r EXCEPT !.nav = nav]], t)
  BY DEF FollowTransition
<1>2. t # active /\ (t \in Locked /\ runtimes[t] = Nil => puzzles < MaxPuzzles)
  BY DEF FollowTransition
<1> DEFINE q == [r EXCEPT !.nav = nav]
<1>3. q \in Checkpoint /\ q.hack = r.hack
  <2>1. r \in Checkpoint
    BY EnteringIsSound
  <2> QED
    BY <2>1 DEF Checkpoint
<1>4. Commit([Leaving(runtimes, TRUE) EXCEPT ![t] = q], t)
  BY <1>1
<1> HIDE DEF q
<1>5. Transaction([IF t = active THEN runtimes ELSE Leaving(runtimes, TRUE) EXCEPT ![t] = q], t)
  BY <1>1, <1>2, <1>3, EnteringIsATransaction
<1>6. Transaction([Leaving(runtimes, TRUE) EXCEPT ![t] = q], t)
  <2>1. (IF t = active THEN runtimes ELSE Leaving(runtimes, TRUE)) = Leaving(runtimes, TRUE)
    BY <1>2
  <2> QED
    BY <1>5, <2>1
<1> QED
  BY <1>4, <1>6 DEF Transacted

LEMMA EditIsATransaction ==
  ASSUME ShownInv, NEW tree, UpdateLiveTerminal(tree)
  PROVE  Transacted
<1> DEFINE r == UpdateRuntime(runtimes[active], tree)
<1>1. /\ active # Nil /\ tree \in Draft[active] /\ puzzles' = puzzles
      /\ Commit([runtimes EXCEPT ![active] = r], active)
  BY DEF UpdateLiveTerminal
<1>2. active \in Terminal /\ runtimes[active] \in Checkpoint
  BY <1>1 DEF ShownInv
<1>3. r \in Checkpoint /\ r.hack = runtimes[active].hack
  BY <1>1, <1>2, DraftsAreTrees, UpdatedKeepsThePuzzle
<1> HIDE DEF r
<1>4. Transaction([runtimes EXCEPT ![active] = r], active)
  BY <1>1, <1>3, ActingIsATransaction
<1> QED
  BY <1>1, <1>4 DEF Transacted

LEMMA ForcingIsATransaction ==
  ASSUME ShownInv, PuzzlesInv, ForceHackSuccess
  PROVE  Transacted
<1> DEFINE p == runtimes[active].hack
           q == [runtimes[active] EXCEPT !.hack = ForceSuccess(p)]
           r == Repaired(q)
<1>1. /\ active # Nil /\ Playing(p) /\ puzzles' = puzzles /\ controllerSession' = controllerSession
      /\ Commit([runtimes EXCEPT ![active] = r], active)
  BY DEF ForceHackSuccess
<1>2. active \in Terminal /\ runtimes[active] \in Checkpoint /\ Held(runtimes[active]) = p
  BY <1>1, HeldIsHeld DEF ShownInv
<1>3. PuzzleInv(p)
  BY <1>1, <1>2 DEF PuzzlesInv, Playing
<1>4. Advance(p, ForceSuccess(p))
  BY <1>1, <1>3, SolvingAdvances
<1>5. q \in Checkpoint /\ q.hack = ForceSuccess(p)
  <2>1. ForceSuccess(p) \in HackState
    BY <1>4 DEF Advance, PuzzleInv
  <2> QED
    BY <1>2, <2>1 DEF Checkpoint
<1> HIDE DEF q
<1>6. r \in Checkpoint /\ r.hack = ForceSuccess(p)
  BY <1>5, RepairedIsValid
<1> HIDE DEF r
<1>7. Transaction([runtimes EXCEPT ![active] = r], active)
  BY <1>1, <1>4, <1>6, ActingIsATransaction
<1> QED
  BY <1>1, <1>7 DEF Transacted

LEMMA ResetIsATransaction ==
  ASSUME ShownInv, PuzzlesInv, NEW tree, ResetFailedHack(tree)
  PROVE  Transacted
<1>1. /\ active # Nil /\ tree \in Draft[active] /\ runtimes[active].hack.failed /\ puzzles < MaxPuzzles
      /\ puzzles \in Nat
  BY DEF ResetFailedHack, PuzzlesInv
<1>2. PICK r \in CreateRuntime(active, tree) :
        r.hack # Nil /\ Generated(r) /\ Commit([runtimes EXCEPT ![active] = r], active)
  BY DEF ResetFailedHack
<1>3. /\ active \in Terminal /\ runtimes[active] \in Checkpoint /\ Held(runtimes[active]) = runtimes[active].hack
      /\ runtimes \in [Terminal -> Checkpoint \cup {Nil}]
  BY <1>1, HeldIsHeld DEF ShownInv
<1>4. /\ r \in Checkpoint /\ PuzzleInv(r.hack) /\ r.hack.gen = puzzles + 1
      /\ ~r.hack.solved /\ ~r.hack.failed
  BY <1>1, <1>2, <1>3, DraftsAreTrees, CreatedIsFresh
<1>5. puzzles' = puzzles + 1
  <2>1. puzzles + 1 > puzzles
    BY <1>1
  <2> QED
    BY <1>2, <1>4, <2>1 DEF Generated
<1> DEFINE rs == [runtimes EXCEPT ![active] = r]
<1>6. /\ rs \in [Terminal -> Checkpoint \cup {Nil}] /\ rs[active] = r
      /\ \A t \in Terminal : t # active => rs[t] = runtimes[t]
  BY <1>3, <1>4
<1>7. Commit(rs, active)
  BY <1>2
<1> HIDE DEF rs
<1>8. Held(rs[active]) = r.hack
  BY <1>4, <1>6, HeldIsHeld
<1>9. Drawn(active, rs, active)
  BY <1>1, <1>3, <1>4, <1>5, <1>8 DEF Drawn
<1>10. Transaction(rs, active)
  BY <1>3, <1>4, <1>6, <1>9 DEF Transaction
<1> QED
  BY <1>7, <1>10 DEF Transacted

\* The controller's actions change the active checkpoint, and nobody else's.
LEMMA AppliedIsATransaction ==
  ASSUME ShownInv, active # Nil, NEW r \in Checkpoint, ApplyRuntime(r),
         \/ r.hack = runtimes[active].hack
         \/ Playing(runtimes[active].hack) /\ Advance(runtimes[active].hack, r.hack)
  PROVE  Transacted
<1> DEFINE q == Repaired(r)
<1>1. puzzles' = puzzles /\ controllerSession' = controllerSession /\ Commit([runtimes EXCEPT ![active] = q], active)
  BY DEF ApplyRuntime
<1>2. q \in Checkpoint /\ q.hack = r.hack
  BY RepairedIsValid
<1> HIDE DEF q
<1>3. Transaction([runtimes EXCEPT ![active] = q], active)
  BY <1>1, <1>2, ActingIsATransaction
<1> QED
  BY <1>1, <1>3 DEF Transacted

LEMMA MovesAreTransactions ==
  ASSUME ShownInv, Navigate \/ ShowCommand
  PROVE  Transacted
<1> DEFINE r == runtimes[active]
<1>1. active # Nil /\ \E nav \in Enter(r.nav, r.tree) \cup Open(r.nav, r.tree) \cup Run(r.nav, r.tree) \cup {Back(r.nav)} :
                        ApplyRuntime([r EXCEPT !.nav = nav])
  BY DEF Navigate, ShowCommand, CanAct
<1>2. r \in Checkpoint
  BY <1>1 DEF ShownInv
<1>3. PICK nav \in Enter(r.nav, r.tree) \cup Open(r.nav, r.tree) \cup Run(r.nav, r.tree) \cup {Back(r.nav)} :
        ApplyRuntime([r EXCEPT !.nav = nav])
  BY <1>1
<1>4. nav \in NavState
  BY <1>2, <1>3, CheckpointIsTyped, PlacesStayPlaces
<1> DEFINE q == [r EXCEPT !.nav = nav]
<1>5. q \in Checkpoint /\ q.hack = runtimes[active].hack
  BY <1>2, <1>4 DEF Checkpoint
<1>6. ApplyRuntime(q)
  BY <1>3
<1> HIDE DEF q
<1> QED
  BY <1>1, <1>5, <1>6, AppliedIsATransaction

LEMMA PlayIsATransaction ==
  ASSUME ShownInv, PuzzlesInv, Guess \/ ActivatePattern
  PROVE  Transacted
<1> DEFINE r == runtimes[active]
<1>1. /\ active # Nil /\ Playing(r.hack)
      /\ \/ \E target : ApplyGuess(r.hack, target) # r.hack /\ ApplyRuntime([r EXCEPT !.hack = ApplyGuess(r.hack, target)])
         \/ \E s : \E p \in ApplyPattern(r.hack, s) : ApplyRuntime([r EXCEPT !.hack = p])
  BY DEF Guess, ActivatePattern, CanAct
<1>2. active \in Terminal /\ r \in Checkpoint /\ Held(runtimes[active]) = r.hack
  BY <1>1, HeldIsHeld DEF ShownInv
<1>3. PuzzleInv(r.hack)
  BY <1>1, <1>2 DEF PuzzlesInv, Playing
<1>4. PICK p : Advance(r.hack, p) /\ ApplyRuntime([r EXCEPT !.hack = p])
  <2>1. CASE \E target : ApplyGuess(r.hack, target) # r.hack /\ ApplyRuntime([r EXCEPT !.hack = ApplyGuess(r.hack, target)])
    <3>1. PICK target : /\ ApplyGuess(r.hack, target) # r.hack
                        /\ ApplyRuntime([r EXCEPT !.hack = ApplyGuess(r.hack, target)])
      BY <2>1
    <3>2. Advance(r.hack, ApplyGuess(r.hack, target))
      BY <1>1, <1>3, <3>1, GuessAdvances
    <3> QED
      BY <3>1, <3>2
  <2>2. CASE \E s : \E p \in ApplyPattern(r.hack, s) : ApplyRuntime([r EXCEPT !.hack = p])
    BY <1>1, <1>3, <2>2, PatternAdvances
  <2> QED
    BY <1>1, <2>1, <2>2
<1> DEFINE q == [r EXCEPT !.hack = p]
<1>5. q \in Checkpoint /\ q.hack = p
  <2>1. p \in HackState
    BY <1>4 DEF Advance, PuzzleInv
  <2> QED
    BY <1>2, <2>1 DEF Checkpoint
<1>6. ApplyRuntime(q)
  BY <1>4
<1> HIDE DEF q
<1> QED
  BY <1>1, <1>4, <1>5, <1>6, AppliedIsATransaction

\* What a page may point at is a target.
LEMMA PointedIsATarget ==
  ASSUME NEW r \in Checkpoint, NEW at \in Pointed(r)
  PROVE  at \in ScreenTarget \cup {Nil}
<1>1. r.tree \in Tree /\ r.nav \in NavState /\ r.hack \in HackState \cup {Nil}
  BY CheckpointIsTyped
<1>2. CASE at = Nil
  BY <1>2
<1>3. CASE at \in {<<"node", id>> : id \in Children(r.tree, Last(r.nav.path))}
  <2>1. r.nav.path \in Seq(Folder) \ {<<>>}
    BY <1>1 DEF NavState
  <2>2. Children(r.tree, Last(r.nav.path)) \subseteq Folder \cup Entry \cup Command
    BY <1>1, <2>1, ChildrenAreNodes
  <2> QED
    BY <1>3, <2>2 DEF ScreenTarget
<1>4. CASE at \in {<<"page", n>> : n \in 0 .. MaxPage}
  BY <1>4, TreeAssumption DEF ScreenTarget
<1>5. CASE r.hack # Nil /\ at \in {<<"word", w.id>> : w \in r.hack.words}
  <2>1. r.hack.words \subseteq Candidates
    BY <1>1, <1>5 DEF HackState
  <2> QED
    BY <1>5, <2>1 DEF ScreenTarget
<1>6. CASE at \in {<<"cell", x[1], x[2]>> : x \in Aim}
  <2>1. PICK x \in Aim : at = <<"cell", x[1], x[2]>>
    BY <1>6
  <2>2. x[1] \in Nat /\ x[2] \in Nat
    BY TreeAssumption
  <2>3. at \in {"cell"} \X Nat \X Nat
    BY <2>1, <2>2
  <2> QED
    BY <2>3 DEF ScreenTarget
<1>7. CASE r.hack # Nil /\ at \in {<<"pattern", s>> : s \in Spans(r.hack.columns)}
  <2>1. r.hack.columns \in Columns
    BY <1>1, <1>7 DEF HackState, Columns
  <2>2. Spans(r.hack.columns) \subseteq PatternSpan
    BY <2>1, SpansAreSpans
  <2> QED
    BY <1>7, <2>2 DEF ScreenTarget
<1> QED
  BY <1>2, <1>3, <1>4, <1>5, <1>6, <1>7 DEF Pointed

LEMMA PointingIsATransaction ==
  ASSUME ShownInv, Present
  PROVE  Transacted
<1> DEFINE r == runtimes[active]
<1>1. PICK at \in Pointed(r) : ApplyRuntime([r EXCEPT !.cursor = Cursor(Context(r), at)])
  BY DEF Present
<1>2. active # Nil /\ r \in Checkpoint
  BY DEF Present, CanAct, ShownInv
<1> DEFINE pointed == Cursor(Context(r), at)
           q == [r EXCEPT !.cursor = pointed]
<1>3. ApplyRuntime(q)
  BY <1>1
<1>4. pointed \in ScreenCursor
  BY <1>2, PointedIsATarget, ContextIsOne DEF Cursor, ScreenCursor
<1> HIDE DEF pointed
<1>5. q \in Checkpoint /\ q.hack = runtimes[active].hack
  BY <1>2, <1>4 DEF Checkpoint
<1> HIDE DEF q
<1> QED
  BY <1>2, <1>3, <1>5, AppliedIsATransaction

LEMMA StepsAreTransactions ==
  ASSUME TerminalsInv, TerminalsNext
  PROVE  Transacted
<1>1. ShownInv /\ PuzzlesInv
  BY DEF TerminalsInv
<1>2. CASE OpenBroadcast \/ CloseBroadcast
  BY <1>1, <1>2, BroadcastsAreTransactions
<1>3. CASE \E s \in LogicalSession : Assign(s) \/ FreeCharacter(s) \/ HandControl(s)
  BY <1>1, <1>3, SessionsAreTransactions
<1>4. CASE \E t \in Terminal, keep \in BOOLEAN : \E tree \in Draft[t] : ActivateTerminal(t, tree, keep)
  BY <1>1, <1>4, ActivationIsATransaction
<1>5. CASE \E keep \in BOOLEAN : ClearTerminal(keep)
  BY <1>1, <1>5, ClearingIsATransaction
<1>6. CASE \E t \in Terminal : \E tree \in Draft[t] : FollowTransition(t, tree, Default)
  BY <1>1, <1>6, NavStates, TransitionIsATransaction
<1>7. CASE \E t \in Terminal, saved \in Saved : \E tree \in Draft[t] :
             FollowTransition(t, tree, RestoreFolder(tree, saved))
  <2>1. PICK t \in Terminal, saved \in Saved :
          \E tree \in Draft[t] : FollowTransition(t, tree, RestoreFolder(tree, saved))
    BY <1>7
  <2>2. \A tree : RestoreFolder(tree, saved) \in NavState
    BY FolderIsRestored
  <2> QED
    BY <1>1, <2>1, <2>2, TransitionIsATransaction
<1>8. CASE \E tree \in UNION {Draft[t] : t \in Terminal} : UpdateLiveTerminal(tree) \/ ResetFailedHack(tree)
  BY <1>1, <1>8, EditIsATransaction, ResetIsATransaction
<1>9. CASE ForceHackSuccess
  BY <1>1, <1>9, ForcingIsATransaction
<1>10. CASE ShowCommand \/ Navigate
  BY <1>1, <1>10, MovesAreTransactions
<1>11. CASE Guess \/ ActivatePattern
  BY <1>1, <1>11, PlayIsATransaction
<1>12. CASE Present
  BY <1>1, <1>12, PointingIsATransaction
<1> QED
  BY <1>2, <1>3, <1>4, <1>5, <1>6, <1>7, <1>8, <1>9, <1>10, <1>11, <1>12
     DEF TerminalsNext, OverseerActs, Player

-----------------------------------------------------------------------------
(* LockedTerminal: the theorems.                                            *)

LEMMA NoTerminalIsOpen ==
  ASSUME TerminalsInit
  PROVE  TerminalsInv
<1>1. ShownInv /\ CursorIsValid
  BY DEF TerminalsInit, ShownInv, CursorIsValid
<1>2. puzzles = 0 /\ \A t \in Terminal : runtimes[t] = Nil /\ Held(runtimes[t]) = Nil
  BY DEF TerminalsInit, Held
<1>3. PuzzlesInv
  BY <1>2, TreeAssumption DEF PuzzlesInv
<1>4. LogInv
  BY <1>2 DEF TerminalsInit, LogInv
<1>5. AuditFollowsThePuzzles
  BY <1>2 DEF AuditFollowsThePuzzles
<1> QED
  BY <1>1, <1>3, <1>4, <1>5 DEF TerminalsInv

LEMMA StepsKeepTheInvariant ==
  ASSUME TerminalsInv, [TerminalsNext]_terminalVars
  PROVE  TerminalsInv'
<1>1. CASE TerminalsNext
  BY <1>1, StepsAreTransactions, TransactionsKeepTheInvariant DEF Transacted
<1>2. CASE UNCHANGED terminalVars
  <2>1. /\ liveBroadcast' = liveBroadcast /\ assigned' = assigned /\ controllerSession' = controllerSession
        /\ active' = active /\ runtimes' = runtimes /\ puzzles' = puzzles /\ audit' = audit
    BY <1>2 DEF terminalVars
  <2>2. ShownInv' /\ PuzzlesInv'
    BY <2>1 DEF TerminalsInv, ShownInv, PuzzlesInv
  <2>3. LogInv' /\ CursorIsValid'
    BY <2>1 DEF TerminalsInv, LogInv, CursorIsValid
  <2>4. AuditFollowsThePuzzles'
    BY <2>1 DEF TerminalsInv, AuditFollowsThePuzzles
  <2> QED
    BY <2>2, <2>3, <2>4 DEF TerminalsInv
<1> QED
  BY <1>1, <1>2

\* A puzzle that stays the same puzzle advances when it changes.
LEMMA StepsAdvancePuzzles ==
  ASSUME TerminalsInv, [TerminalsNext]_terminalVars, NEW t \in Terminal,
         runtimes[t] # Nil, runtimes'[t] # Nil, runtimes[t].hack # Nil, runtimes'[t].hack # Nil,
         runtimes[t].hack.gen = runtimes'[t].hack.gen, runtimes[t].hack # runtimes'[t].hack
  PROVE  Advance(runtimes[t].hack, runtimes'[t].hack)
<1>1. CASE TerminalsNext
  <2>1. PICK rs, a : Transaction(rs, a) /\ Commit(rs, a)
    BY <1>1, StepsAreTransactions DEF Transacted
  <2>2. Held(runtimes[t]) = runtimes[t].hack /\ Held(rs[t]) = runtimes'[t].hack
    BY <2>1, ProjectionKeepsPuzzles DEF Held
  <2>3. CASE rs[t] = Nil
    BY <2>2, <2>3 DEF Held
  <2>4. CASE Drawn(t, rs, a)
    <3>1. Held(rs[t]).gen = puzzles + 1
      BY <2>4 DEF Drawn
    <3>2. Held(runtimes[t]).gen \in 1 .. puzzles /\ puzzles \in Nat
      BY <2>2 DEF TerminalsInv, PuzzlesInv
    <3>3. Held(runtimes[t]).gen # puzzles + 1
      BY <3>2
    <3> QED
      BY <2>2, <3>1, <3>3
  <2>5. CASE Played(t, rs, a)
    BY <2>2, <2>5 DEF Played
  <2> QED
    BY <2>1, <2>2, <2>3, <2>4, <2>5 DEF Transaction
<1>2. CASE UNCHANGED terminalVars
  BY <1>2 DEF terminalVars
<1> QED
  BY <1>1, <1>2

\* The invariant of the checkpoints, their puzzles and the log (internal/live/service.go
\* under the coordinator's transactions).
THEOREM TerminalsAreSound ==
  TerminalsSpec => []TerminalsInv
<1>1. TerminalsInit => TerminalsInv
  BY NoTerminalIsOpen
<1>2. TerminalsInv /\ [TerminalsNext]_terminalVars => TerminalsInv'
  BY StepsKeepTheInvariant
<1> QED
  BY <1>1, <1>2, PTL DEF TerminalsSpec

\* No cursor of another screen is shown (revalidateControllerPresentation).
THEOREM CursorIsAlwaysValid ==
  TerminalsSpec => []CursorIsValid
<1>1. TerminalsInv => CursorIsValid
  BY DEF TerminalsInv
<1> QED
  BY <1>1, TerminalsAreSound, PTL

\* The log has every outcome once, and every puzzle that was left (deriveHackLifecycleEvents).
THEOREM AuditAlwaysFollowsThePuzzles ==
  TerminalsSpec => []AuditFollowsThePuzzles
<1>1. TerminalsInv => AuditFollowsThePuzzles
  BY DEF TerminalsInv
<1> QED
  BY <1>1, TerminalsAreSound, PTL

LEMMA TheSecretStays ==
  ASSUME TerminalsInv
  PROVE  SecretStaysOnBoard
<1> SUFFICES ASSUME NEW t \in Terminal, runtimes[t] # Nil, Playing(runtimes[t].hack)
             PROVE  LET p == runtimes[t].hack IN
                    /\ \A w \in p.words : \A i \in Cells(w) : p.columns[w.column][i] = "w"
                    /\ \E w \in p.words : w.text = p.secret
  BY DEF SecretStaysOnBoard
<1>1. Held(runtimes[t]) = runtimes[t].hack /\ Held(runtimes[t]) # Nil
  BY DEF Held, Playing
<1>2. BoardInv(runtimes[t].hack)
  BY <1>1 DEF TerminalsInv, PuzzlesInv, PuzzleInv
<1> QED
  BY <1>2 DEF BoardInv

\* A puzzle can be won until it is lost, what was offered stays on offer, and every move
\* leaves fewer to be made (ApplyGuess, ApplyPattern, dotCandidate).
THEOREM PuzzlesAlwaysStayFair ==
  TerminalsSpec => PuzzlesStayFair
<1>1. TerminalsInv => SecretStaysOnBoard
  BY TheSecretStays
<1>2. TerminalsInv /\ [TerminalsNext]_terminalVars =>
        [LET stay(p, q) == Spans(p.columns) \subseteq Spans(q.columns) /\ p.used \subseteq q.used IN
         \A t \in Terminal : Kept(t, stay)]_terminalVars
  <2> SUFFICES ASSUME TerminalsInv, [TerminalsNext]_terminalVars
               PROVE  LET stay(p, q) == Spans(p.columns) \subseteq Spans(q.columns) /\ p.used \subseteq q.used IN
                      \A t \in Terminal : Kept(t, stay)
    OBVIOUS
  <2> QED
    BY StepsAdvancePuzzles DEF Kept, Advance
<1>3. TerminalsInv /\ [TerminalsNext]_terminalVars =>
        [LET fewer(p, q) == Playing(q) => Moves(q) < Moves(p) IN
         \A t \in Terminal : Kept(t, fewer)]_terminalVars
  <2> SUFFICES ASSUME TerminalsInv, [TerminalsNext]_terminalVars
               PROVE  LET fewer(p, q) == Playing(q) => Moves(q) < Moves(p) IN
                      \A t \in Terminal : Kept(t, fewer)
    OBVIOUS
  <2> QED
    BY StepsAdvancePuzzles DEF Kept, Advance
<1> QED
  BY <1>1, <1>2, <1>3, TerminalsAreSound, PTL
     DEF TerminalsSpec, PuzzlesStayFair, BoardsKeepTheirWord, SpansStay, EveryMoveCounts
=============================================================================
