---------------------------- MODULE Coordination ----------------------------
(***************************************************************************)
(* The coordination aggregate of internal/control: recognised player       *)
(* sessions and their physical streams, the roster, the broadcast with its *)
(* character claims and its one controller, and the per-session replay     *)
(* cache of player requests.  Service.commit runs every transition under   *)
(* one mutex on a private copy, so one transition is one action; a call    *)
(* that is refused without caching its answer changes nothing and is no    *)
(* action at all.  What a terminal does with an authorised player action   *)
(* is the subject of TerminalControl and is a free choice here.            *)
(***************************************************************************)
EXTENDS Naturals, FiniteSets

CONSTANTS
  Session,             \* identifiers the ID source mints for logical sessions
  Connection,          \* physical stream ids: one per Subscribe call, never reused
  Character,           \* roster character ids
  Action,              \* payload fingerprints of terminal actions
  RequestId,           \* client-chosen request ids, ordered as Go orders strings
  RequestResultLimit,  \* replay records kept per session (256 in production)
  Name,                \* session labels; label n stands for "PLAYER n"
  MaxInFlight,         \* bound: actions resolved but not yet dispatched
  MaxEpochs,           \* bound: broadcasts started
  MaxRevision,         \* bound: accepted transitions
  None

ASSUME ConstantsAssumption ==
  /\ None \notin Session \cup Connection \cup Character
  /\ RequestId \subseteq Nat
  /\ RequestResultLimit \in Nat \ {0}
  /\ Name \subseteq Nat \ {0}
  /\ MaxInFlight \in Nat /\ MaxEpochs \in Nat /\ MaxRevision \in Nat

VARIABLES
  revision,    \* ProcessRuntime.Revision
  minted,      \* session ids ever minted (they are random, hence never minted twice)
  issued,      \* connection ids ever issued by the Subscribe handler
  known,       \* DOMAIN SessionsByID
  conns,       \* LogicalSession.ConnectionIDs
  name,        \* LogicalSession.FallbackName, 0 when the session is unknown
  cache,       \* LogicalSession.RequestResults
  config,      \* ActivePlayerConfig # nil
  roster,      \* DOMAIN RosterByID
  broadcast,   \* Broadcast.ID, 0 when no broadcast is active
  epochs,      \* broadcast ids minted so far
  assign,      \* AssignmentsBySession
  owner,       \* SessionByCharacter
  controller,  \* ControllerSessionID
  inFlight,    \* actions resolved to a stream under RLock and not yet dispatched
  applied,     \* history: logical requests that mutated state, until evicted
  twice        \* history: some logical request mutated state a second time

people  == <<minted, issued, known, conns, name>>
books   == <<config, roster>>
claims  == <<broadcast, epochs, assign, owner, controller>>
history == <<applied, twice>>
\* A step changes copies of these (cloneProcessRuntime, ...) and commit installs them at once.
vars == <<revision, people, cache, books, claims, inFlight, history>>

-----------------------------------------------------------------------------
(* Requests, answers and the replay cache.                                 *)

\* A request that validRuntimeCommand lets through, as far as its fingerprint tells it apart.
Request ==
  [kind : {"select"}, broadcast : Nat, target : Character]
    \cup [kind : {"action"}, broadcast : Nat, target : Action]

Reason == {"accepted", "conflict", "staleBroadcast", "unassigned", "notController",
           "disconnected", "terminal"}

Record == [request : Request, reason : Reason]

\* A stored record is never taken for a missing one.
ASSUME RecordAssumption == None \notin Record

Logical == Session \X RequestId \X Request

Call == [session : Session, conn : Connection, id : RequestId, request : Request]

Stored(s) == {id \in RequestId : cache[s][id] # None}

\* storeRequestResult makes room for a new id by dropping the smallest one.
Evicted(s, id) ==
  IF cache[s][id] = None /\ Cardinality(Stored(s)) >= RequestResultLimit
  THEN {least \in Stored(s) : \A other \in Stored(s) : least <= other}
  ELSE {}

StoreResult(s, id, record) ==
  cache' = [cache EXCEPT ![s] = [i \in RequestId |->
                                  CASE i = id -> record
                                    [] i # id /\ i \in Evicted(s, id) -> None
                                    [] OTHER -> cache[s][i]]]

NoResults == [s \in Session |-> [id \in RequestId |-> None]]

Retained(s, id) == {l \in applied : ~(l[1] = s /\ l[2] \in Evicted(s, id))}

Apply(s, id, request) ==
  /\ twice' = (twice \/ <<s, id, request>> \in applied)
  /\ applied' = Retained(s, id) \cup {<<s, id, request>>}

Refuse(s, id) == applied' = Retained(s, id) /\ UNCHANGED twice

-----------------------------------------------------------------------------
(* Roles.                                                                  *)

Connected(s) == conns[s] # {}

SessionAssigned(s) == assign[s] # None \/ \E ch \in Character : owner[ch] = s

CharacterOwner(ch) ==
  IF owner[ch] # None \/ \A s \in Session : assign[s] # ch
  THEN owner[ch]
  ELSE CHOOSE s \in Session : assign[s] = ch

CharacterClaimed(ch) == CharacterOwner(ch) # None

\* clearControllerIfSession: losing its claim costs a session its control.
ControllerWithout(s) == IF controller = s THEN None ELSE controller

FirstController(s) == IF controller = None THEN s ELSE controller

SessionOf(conn) ==
  IF \E s \in known : conn \in conns[s] THEN CHOOSE s \in known : conn \in conns[s] ELSE None

\* nextFallbackName: the first label no recognised session carries.
FirstFreeLabel(n) ==
  /\ n > 0
  /\ \A s \in known : name[s] # n
  /\ \A m \in 1 .. n - 1 : \E s \in known : name[s] = m

\* commit accepted the transition.
Accepted == revision < MaxRevision /\ revision' = revision + 1

-----------------------------------------------------------------------------
Init ==
  /\ revision = 0 /\ epochs = 0 /\ broadcast = 0
  /\ minted = {} /\ issued = {} /\ known = {}
  /\ conns = [s \in Session |-> {}]
  /\ name = [s \in Session |-> 0]
  /\ cache = NoResults
  /\ config = FALSE /\ roster = {}
  /\ assign = [s \in Session |-> None]
  /\ owner = [ch \in Character |-> None]
  /\ controller = None
  /\ inFlight = {} /\ applied = {} /\ twice = FALSE

-----------------------------------------------------------------------------
(* Player streams.                                                         *)

\* AttachSubscriptionAndRegister with an unrecognised handle.
SubscribeNew(conn, s) ==
  /\ conn \notin issued /\ s \notin minted
  /\ issued' = issued \cup {conn}
  /\ minted' = minted \cup {s}
  /\ known' = known \cup {s}
  /\ \E n \in 0 .. Cardinality(known) + 1 : FirstFreeLabel(n) /\ name' = [name EXCEPT ![s] = n]
  /\ conns' = [conns EXCEPT ![s] = {conn}]
  /\ Accepted
  /\ UNCHANGED <<cache, books, claims, inFlight, history>>

\* Mutant of SubscribeKnown: stream ids come back after a disconnect.
SubscribeReusingId(conn, s) ==
  /\ s \in known /\ conn \notin conns[s]
  /\ issued' = issued \cup {conn}
  /\ conns' = [t \in Session |-> IF t = s THEN conns[t] \cup {conn} ELSE conns[t] \ {conn}]
  /\ Accepted
  /\ UNCHANGED <<minted, known, name, cache, books, claims, inFlight, history>>

\* AttachSubscriptionAndRegister with the handle of a recognised session.
SubscribeKnown(conn, s) ==
  /\ conn \notin issued /\ s \in known
  /\ issued' = issued \cup {conn}
  /\ conns' = [conns EXCEPT ![s] = @ \cup {conn}]
  /\ Accepted
  /\ UNCHANGED <<minted, known, name, cache, books, claims, inFlight, history>>

\* DetachConnection: the claim, the control and the replay records stay.
DetachConnection(conn) ==
  /\ SessionOf(conn) # None
  /\ conns' = [conns EXCEPT ![SessionOf(conn)] = @ \ {conn}]
  /\ Accepted
  /\ UNCHANGED <<minted, issued, known, name, cache, books, claims, inFlight, history>>

RenameLogicalSession(s, n) ==
  /\ s \in known
  /\ \A t \in known : name[t] # n
  /\ name' = [name EXCEPT ![s] = n]
  /\ Accepted
  /\ UNCHANGED <<minted, issued, known, conns, cache, books, claims, inFlight, history>>

-----------------------------------------------------------------------------
(* The authored roster changes only while no broadcast is active.  The      *)
(* three character operations also need the caller's ExpectedRevision to be *)
(* the current one; with an older one they are refused and change nothing.  *)

InstallPlayerConfig(entries) ==
  /\ broadcast = 0
  /\ roster' = entries /\ config' = TRUE
  /\ Accepted
  /\ UNCHANGED <<people, cache, claims, inFlight, history>>

ClearPlayerConfig ==
  /\ broadcast = 0
  /\ roster' = {} /\ config' = FALSE
  /\ Accepted
  /\ UNCHANGED <<people, cache, claims, inFlight, history>>

AddCharacter(ch) ==
  /\ config /\ broadcast = 0 /\ ch \notin roster
  /\ roster' = roster \cup {ch}
  /\ Accepted
  /\ UNCHANGED <<config, people, cache, claims, inFlight, history>>

\* Only the profile behind the id changes.
UpdateCharacter(ch) ==
  /\ config /\ broadcast = 0 /\ ch \in roster
  /\ Accepted
  /\ UNCHANGED <<books, people, cache, claims, inFlight, history>>

DeleteCharacter(ch) ==
  /\ config /\ broadcast = 0 /\ ch \in roster
  /\ roster' = roster \ {ch}
  /\ Accepted
  /\ UNCHANGED <<config, people, cache, claims, inFlight, history>>

-----------------------------------------------------------------------------
(* Broadcast epochs.                                                       *)

FreshClaims ==
  /\ assign' = [s \in Session |-> None]
  /\ owner' = [ch \in Character |-> None]
  /\ controller' = None

StartBroadcast ==
  /\ config /\ broadcast = 0 /\ epochs < MaxEpochs
  /\ epochs' = epochs + 1 /\ broadcast' = epochs + 1
  /\ FreshClaims
  /\ cache' = NoResults
  /\ Accepted
  /\ UNCHANGED <<people, books, inFlight, history>>

EndBroadcast ==
  /\ broadcast # 0
  /\ broadcast' = 0
  /\ FreshClaims
  /\ cache' = NoResults
  /\ Accepted
  /\ UNCHANGED <<epochs, people, books, inFlight, history>>

\* Shutdown drops the whole aggregate; nothing survives but the randomness of ids.
Shutdown ==
  /\ revision' = 0 /\ broadcast' = 0
  /\ known' = {} /\ conns' = [s \in Session |-> {}] /\ name' = [s \in Session |-> 0]
  /\ cache' = NoResults
  /\ config' = FALSE /\ roster' = {}
  /\ FreshClaims
  /\ UNCHANGED <<minted, issued, epochs, inFlight, history>>

-----------------------------------------------------------------------------
(* Claims and control, as the Overseer sets them.                          *)

AssignCharacter(s, ch) ==
  /\ broadcast # 0 /\ s \in known /\ ch \in roster
  /\ ~SessionAssigned(s) /\ ~CharacterClaimed(ch)
  /\ assign' = [assign EXCEPT ![s] = ch]
  /\ owner' = [owner EXCEPT ![ch] = s]
  /\ controller' = IF Connected(s) THEN FirstController(s) ELSE controller
  /\ Accepted
  /\ UNCHANGED <<broadcast, epochs, people, cache, books, inFlight, history>>

ReleaseCharacter(s) ==
  /\ broadcast # 0 /\ s \in known /\ assign[s] # None
  /\ assign' = [assign EXCEPT ![s] = None]
  /\ owner' = [owner EXCEPT ![assign[s]] = None]
  /\ controller' = ControllerWithout(s)
  /\ Accepted
  /\ UNCHANGED <<broadcast, epochs, people, cache, books, inFlight, history>>

\* Mutant of MoveCharacter: the former owner's side of the claim stays.
MoveCharacterOneSided(ch, s) ==
  /\ broadcast # 0 /\ ch \in roster /\ s \in known /\ ~SessionAssigned(s)
  /\ assign' = [assign EXCEPT ![s] = ch]
  /\ owner' = [owner EXCEPT ![ch] = s]
  /\ controller' = ControllerWithout(CharacterOwner(ch))
  /\ Accepted
  /\ UNCHANGED <<broadcast, epochs, people, cache, books, inFlight, history>>

\* Mutant of MoveCharacter: control travels with the character.
MoveCharacterWithControl(ch, s) ==
  LET former == CharacterOwner(ch) IN
  /\ broadcast # 0 /\ ch \in roster /\ s \in known /\ ~SessionAssigned(s)
  /\ assign' = [t \in Session |-> CASE t = s -> ch [] t # s /\ t = former -> None
                                    [] OTHER -> assign[t]]
  /\ owner' = [owner EXCEPT ![ch] = s]
  /\ controller' = IF controller = former /\ former # None THEN s ELSE controller
  /\ Accepted
  /\ UNCHANGED <<broadcast, epochs, people, cache, books, inFlight, history>>

MoveCharacter(ch, s) ==
  LET former == CharacterOwner(ch) IN
  /\ broadcast # 0 /\ ch \in roster /\ s \in known /\ ~SessionAssigned(s)
  /\ assign' = [t \in Session |-> CASE t = s -> ch [] t # s /\ t = former -> None
                                    [] OTHER -> assign[t]]
  /\ owner' = [owner EXCEPT ![ch] = s]
  /\ controller' = IF former # None THEN ControllerWithout(former) ELSE controller
  /\ Accepted
  /\ UNCHANGED <<broadcast, epochs, people, cache, books, inFlight, history>>

SetActiveController(s) ==
  /\ broadcast # 0 /\ s \in known
  /\ SessionAssigned(s) /\ Connected(s) /\ controller # s
  /\ controller' = s
  /\ Accepted
  /\ UNCHANGED <<broadcast, epochs, assign, owner, people, cache, books, inFlight, history>>

-----------------------------------------------------------------------------
(* Player requests.  A request that finds its record in the cache is        *)
(* answered from it (or refused as a duplicate) and changes nothing.        *)

Selection(b, ch) == [kind |-> "select", broadcast |-> b, target |-> ch]

CanEvaluate(s, id) == s \in known /\ cache[s][id] = None

\* SelectCharacter, the claim succeeds.
SelectCharacter(s, id, ch) ==
  LET request == Selection(broadcast, ch) IN
  /\ CanEvaluate(s, id) /\ Connected(s)
  /\ broadcast # 0 /\ ch \in roster
  /\ assign[s] = None /\ owner[ch] = None
  /\ assign' = [assign EXCEPT ![s] = ch]
  /\ owner' = [owner EXCEPT ![ch] = s]
  /\ controller' = FirstController(s)
  /\ StoreResult(s, id, [request |-> request, reason |-> "accepted"])
  /\ Apply(s, id, request)
  /\ Accepted
  /\ UNCHANGED <<broadcast, epochs, people, books, inFlight>>

\* SelectCharacter, the claim conflicts: the refusal is cached at the same revision.
RefuseSelection(s, id, ch) ==
  /\ CanEvaluate(s, id) /\ Connected(s)
  /\ broadcast # 0
  /\ assign[s] # None \/ ch \notin roster \/ owner[ch] # None
  /\ StoreResult(s, id, [request |-> Selection(broadcast, ch), reason |-> "conflict"])
  /\ Refuse(s, id)
  /\ UNCHANGED <<revision, people, books, claims, inFlight>>

\* DispatchPlayerActionForRecognition (and the presentation uplink) look the stream
\* up first and dispatch on it after the lock is released.
ResolveStream(s, conn, id, request) ==
  /\ s \in known /\ conn \in conns[s]
  /\ request.kind = "action" /\ request.broadcast \in 1 .. epochs
  /\ Cardinality(inFlight) < MaxInFlight
  /\ inFlight' = inFlight \cup {[session |-> s, conn |-> conn, id |-> id, request |-> request]}
  /\ UNCHANGED <<revision, people, cache, books, claims, history>>

\* preparePlayerAction: the first check that fails names the refusal.
Verdict(s, request) ==
  CASE broadcast # request.broadcast -> "staleBroadcast"
    [] broadcast = request.broadcast /\ assign[s] = None -> "unassigned"
    [] broadcast = request.broadcast /\ assign[s] # None /\ controller # s -> "notController"
    [] OTHER -> IF Connected(s) THEN "accepted" ELSE "disconnected"

\* Mutant of Answered: only an identical request is a replay.
AnsweredIfIdentical(s, id, request) ==
  s = None \/ (cache[s][id] # None /\ cache[s][id].request = request)

\* The stream is gone, or the id is in the cache: an answer without an effect.
Answered(s, id, request) == s = None \/ ~CanEvaluate(s, id)

DispatchDropped(call) ==
  /\ call \in inFlight
  /\ Answered(SessionOf(call.conn), call.id, call.request)
  /\ inFlight' = inFlight \ {call}
  /\ UNCHANGED <<revision, people, cache, books, claims, history>>

\* The refusal is cached; a command refused by its terminal may still publish a notice.
DispatchRefused(call) ==
  LET s == SessionOf(call.conn)
      verdict == Verdict(s, call.request) IN
  /\ call \in inFlight /\ s # None
  /\ ~Answered(s, call.id, call.request)
  /\ inFlight' = inFlight \ {call}
  /\ \/ /\ verdict # "accepted"
        /\ StoreResult(s, call.id, [request |-> call.request, reason |-> verdict])
        /\ UNCHANGED revision
     \/ /\ verdict = "accepted"
        /\ StoreResult(s, call.id, [request |-> call.request, reason |-> "terminal"])
        /\ Accepted \/ UNCHANGED revision
  /\ Refuse(s, call.id)
  /\ UNCHANGED <<people, books, claims>>

DispatchAccepted(call) ==
  LET s == SessionOf(call.conn) IN
  /\ call \in inFlight /\ s # None
  /\ ~Answered(s, call.id, call.request)
  /\ Verdict(s, call.request) = "accepted"
  /\ inFlight' = inFlight \ {call}
  /\ StoreResult(s, call.id, [request |-> call.request, reason |-> "accepted"])
  /\ Apply(s, call.id, call.request)
  /\ Accepted
  /\ UNCHANGED <<people, books, claims>>

-----------------------------------------------------------------------------
Streams ==
  \/ \E conn \in Connection, s \in Session : SubscribeNew(conn, s) \/ SubscribeKnown(conn, s)
  \/ \E conn \in Connection : DetachConnection(conn)
  \/ \E s \in Session, n \in Name : RenameLogicalSession(s, n)

Books ==
  \/ \E entries \in SUBSET Character : InstallPlayerConfig(entries)
  \/ ClearPlayerConfig
  \/ \E ch \in Character : AddCharacter(ch) \/ UpdateCharacter(ch) \/ DeleteCharacter(ch)

Overseer ==
  \/ StartBroadcast \/ EndBroadcast \/ Shutdown
  \/ \E s \in Session : ReleaseCharacter(s) \/ SetActiveController(s)
  \/ \E s \in Session, ch \in Character : AssignCharacter(s, ch) \/ MoveCharacter(ch, s)

TerminalAction(b, a) == [kind |-> "action", broadcast |-> b, target |-> a]

Players ==
  \/ \E s \in Session, id \in RequestId, ch \in Character :
       SelectCharacter(s, id, ch) \/ RefuseSelection(s, id, ch)
  \/ \E s \in Session, conn \in Connection, id \in RequestId, b \in 1 .. epochs, a \in Action :
       ResolveStream(s, conn, id, TerminalAction(b, a))
  \/ \E call \in inFlight :
       DispatchDropped(call) \/ DispatchRefused(call) \/ DispatchAccepted(call)

Next == Streams \/ Books \/ Overseer \/ Players

Spec == Init /\ [][Next]_vars

-----------------------------------------------------------------------------
(* Properties.                                                             *)

\* Every variable has its type; a session carries a label exactly while it is known.
TypeOK ==
  /\ revision \in Nat /\ epochs \in Nat /\ broadcast \in Nat
  /\ minted \subseteq Session /\ issued \subseteq Connection /\ known \subseteq minted
  /\ conns \in [Session -> SUBSET issued]
  /\ name \in [Session -> Nat]
  /\ \A s \in Session : name[s] # 0 <=> s \in known
  /\ cache \in [Session -> [RequestId -> Record \cup {None}]]
  /\ config \in BOOLEAN /\ roster \subseteq Character
  /\ assign \in [Session -> Character \cup {None}]
  /\ owner \in [Character -> Session \cup {None}]
  /\ controller \in Session \cup {None}
  /\ inFlight \subseteq Call /\ applied \subseteq Logical /\ twice \in BOOLEAN

\* The two claim indexes are inverses: after any mix of selections, assignments,
\* moves and releases no session holds two characters and none has two holders.
ClaimsAgree ==
  \A s \in Session, ch \in Character : assign[s] = ch <=> owner[ch] = s

\* Whoever controls the terminal holds a character: every way of losing a claim
\* takes the control with it.
ControllerHoldsClaim == controller # None => assign[controller] # None

\* Claims live inside a broadcast and name characters that are still in the roster.
ClaimsBelongToBroadcast ==
  \A s \in Session : assign[s] # None => broadcast # 0 /\ assign[s] \in roster

\* Claims and control tell one story, whatever order selections, assignments, moves,
\* releases, roster changes and broadcasts come in.
ClaimsAreConsistent == ClaimsAgree /\ ControllerHoldsClaim /\ ClaimsBelongToBroadcast

\* Two recognised sessions never carry the same label, whatever was renamed before.
LabelsAreUnique ==
  \A s, t \in known : s # t => name[s] # name[t]

\* Control passes from one session straight to another only when the Overseer says
\* so: no disconnect, release, move or later claim promotes anybody.
ControlMovesOnlyExplicitly ==
  [][controller # None /\ controller' \notin {None, controller}
       => \E s \in Session : SetActiveController(s)]_vars

\* The stream an action was resolved to may close before the dispatch, but it never
\* belongs to another session by then, so nobody's action runs with another's authority.
CallsStayWithTheirCaller ==
  \A call \in inFlight : SessionOf(call.conn) \in {call.session, None}

\* No session is taken for another, neither by the Overseer nor by the coordinator.
SessionsStayApart == LabelsAreUnique /\ CallsStayWithTheirCaller

\* However often a request is repeated or overtaken, it mutates the state once for
\* as long as its record has not been evicted, over broadcast boundaries too.
AtMostOneMutation == ~twice

\* A recorded answer is never replaced: a conflicting reuse of the id does not
\* overwrite what the first use was told.
AnswersAreStable ==
  [][\A s \in Session, id \in RequestId :
       cache[s][id] # None => cache'[s][id] \in {cache[s][id], None}]_vars

\* An accepted answer that can be replayed is about the broadcast that is running.
AcceptedAnswersAreCurrent ==
  \A s \in Session, id \in RequestId :
    cache[s][id] # None /\ cache[s][id].reason = "accepted"
      => broadcast # 0 /\ cache[s][id].request.broadcast = broadcast

\* A request runs once, and what a replay says of it is about the present broadcast.
RequestsRunOnce == AtMostOneMutation /\ AcceptedAnswersAreCurrent

\* A repeated request gets the one answer its only run had, for as long as that answer is
\* kept.
ReplaysAreFaithful == []RequestsRunOnce /\ AnswersAreStable

=============================================================================
