------------------------- MODULE DesktopApplication -------------------------
(***************************************************************************)
(* app.go between the window and the parts: what is published to the       *)
(* window, what its calls do to the session store, the coordinator and the *)
(* player config files, and starting and stopping.  The coordinator is its *)
(* revision, whether a broadcast is on and which roster is installed; the   *)
(* store is its open file and newest revision, and a change it accepts      *)
(* counts as written at once (SessionStore has the rest).  A commit         *)
(* publishes while it holds the coordinator's mutex: the two are one step.  *)
(* Events and answers are not lost while a page listens, but they overtake  *)
(* each other.                                                              *)
(***************************************************************************)
EXTENDS Naturals, FiniteSets

CONSTANTS
  File,       \* session files
  Config,     \* player config files
  Original,   \* Original[f]: the config that file f names at first
  Budget,     \* bound: how often each kind of thing happens
  Cost,       \* bound: what one of each kind takes from Total
  Total,      \* bound: how much happens in all
  None

Kind == {"open", "choose", "groups", "start", "end", "reset", "resolve", "session", "terminal",
         "player", "roster", "edit", "reload", "foreign", "failure", "shutdown"}

\* What is said of the coordinator, a session document, what App emits, and what it is called with
\* and answers: the state (masterSnapshot, of which CloneMasterCoordinationState hands out copies),
\* the document, and the session event that is still to be published.
State == [revision : Nat, onAir : BOOLEAN, config : Config \cup {None}, content : Nat]
Document == [text : Nat, canon : Nat, config : Config \cup {None}]
SessionNews == [kind : {"session"}, epoch : Nat, doc : Document, revision : Nat]
CoordinationNews == [kind : {"coordination"}, state : State]
CommandCall == [kind : Kind \cup {"load"},
            stage : {"asked", "working", "associated", "publishing", "answered"}, to : {"page", "nobody"},
            file : File \cup {None}, epoch : Nat, config : Config \cup {None}, content : Nat, seen : Nat,
            durable : Nat, ok : BOOLEAN, state : State \cup {None}, doc : Document \cup {None},
            revision : Nat, event : SessionNews \cup {None}]
StatusCall == [stage : {"asked", "read", "answer"}, state : State \cup {None}]
SaveCall == [doc : Document, invocation : Nat, stage : {"sent", "numbered", "kept"}, number : Nat, live : BOOLEAN]
Page == [coordination : State \cup {None}, file : File \cup {None}, epoch : Nat, doc : Document \cup {None},
         durable : Nat, rendered : Nat, invocation : Nat]
\* Where shutdownLocked is.
Step == {"access", "process", "player", "sessions", "desktop", "end"}

ASSUME DesktopAssumption ==
  /\ Original \in [File -> Config \cup {None}]
  /\ Budget \in [Kind -> Nat] /\ Cost \in [Kind -> Nat] /\ Total \in Nat
  /\ None \notin File \cup Config \cup State \cup Document \cup SessionNews \cup CommandCall \cup StatusCall \cup Page \cup Step

VARIABLES
  life,     \* the lifecycle fields of App, and where the holder of lifecycleMu is
  coord,    \* the coordinator
  rosters,  \* the contents of the player config files: a version
  files,    \* the session documents
  store,    \* the store's open file, which opening it is, and its newest revision
  app,      \* coordinationState, requestedRevision, publishedSessionRevision of App
  calls,    \* the command of the window and that of the desktop notification under way
  saves,    \* calls of SaveSession under way
  status,   \* the page's call of GetRuntimeStatus
  events,   \* events on their way to the page
  page,     \* what the page shows, None while there is none
  left,     \* what is left of Budget and Total
  crossed,  \* history: an edit and a change by somebody else overtook each other
  onAir,    \* history: another document was opened during the broadcast
  foreign   \* history: config files written behind the coordinator's back

documents == <<files, store>>
histories == <<left, crossed, onAir, foreign>>
vars == <<life, coord, rosters, documents, app, calls, saves, status, events, page, histories>>

Caller == {"window", "desktop"}
Resource == {"access", "player", "sessions", "desktop"}

Used(kind) ==
  /\ left.total >= Cost[kind] /\ left.each[kind] > 0
  /\ left' = [total |-> left.total - Cost[kind], each |-> [left.each EXCEPT ![kind] = @ - 1]]

-----------------------------------------------------------------------------
Fresh == [revision |-> 0, onAir |-> FALSE, config |-> None, content |-> 0]
Starter == [text |-> 0, canon |-> 0, config |-> None]

\* composeApplication: everything is made, nothing is started.
Init ==
  /\ life = [phase |-> "constructed", held |-> {"access", "sessions"}, cleared |-> FALSE,
             stopped |-> FALSE, at |-> None, preserve |-> FALSE, failed |-> {}, broken |-> FALSE]
  /\ coord = Fresh
  /\ rosters = [c \in Config |-> 0]
  /\ files = [f \in File |-> [Starter EXCEPT !.config = Original[f]]]
  /\ store = [file |-> None, epoch |-> 0, revision |-> 0, closed |-> FALSE]
  /\ app = [state |-> Fresh, requested |-> 0, published |-> 0]
  /\ calls = [c \in Caller |-> None]
  /\ saves = {} /\ status = None /\ events = {} /\ page = None
  /\ left = [total |-> Total, each |-> Budget] /\ crossed = FALSE /\ onAir = FALSE /\ foreign = {}

Up == life.phase = "ready-local"
Opened == store.file # None /\ ~store.closed

\* coordinationCommandMu: Open, New and CopyDemo, the player config commands, StartBroadcast,
\* ReplaceTerminalGroups and the Reset and Resolve calls hold it until they return.
OnLine == {"open", "load", "choose", "start", "groups", "reset", "resolve"}
HoldsLine(call) == call # None /\ call.kind \in OnLine /\ call.stage \notin {"asked", "answered"}
LineFree == {c \in Caller : HoldsLine(calls[c])} = {}

-----------------------------------------------------------------------------
(* Publication.                                                             *)

\* publishCoordinationState: what is older than the last one is dropped.
Newer(a, state) == a.state = None \/ state.revision >= a.state.revision
\* publishCoordinationStateIfNewer, of the Reset and Resolve calls.
StrictlyNewer(a, state) == a.state = None \/ state.revision > a.state.revision

\* Mutant of Published: what comes last counts.
PublishedAnyway(a, state) == [a EXCEPT !.state = state]

\* What App does with a state under its mutex, and the event that follows.
Published(a, state) == IF Newer(a, state) THEN [a EXCEPT !.state = state] ELSE a
CoordinationEvent(state) == [kind |-> "coordination", state |-> state]
Emitted(a, state) == IF Newer(a, state) THEN {CoordinationEvent(state)} ELSE {}

\* acceptSessionStateRevision
AcceptedRevision(a, revision) == IF revision > a.requested THEN [a EXCEPT !.requested = revision] ELSE a

\* publishSessionState
PublishedSession(a, event) == IF event.revision > a.published THEN [a EXCEPT !.published = event.revision] ELSE a
EmittedSession(a, event) == IF event.revision > a.published THEN {event} ELSE {}

\* wailsEventSink.Emit: without a page nobody hears it.
Emit(new) == events' = IF page = None THEN events ELSE events \cup new

\* Service.commit and the router behind it: the next state is published before the mutex is free.
Advanced(change) == [change EXCEPT !.revision = coord.revision + 1]
Commit(change, a) ==
  /\ coord' = Advanced(change)
  /\ app' = Published(a, Advanced(change))
  /\ Emit(Emitted(a, Advanced(change)))

\* The event about the store's next revision; the epoch is a history, no event carries it.
SessionEvent(doc) == [kind |-> "session", epoch |-> store.epoch, doc |-> doc, revision |-> store.revision + 1]

-----------------------------------------------------------------------------
(* Calls.  A command of the page is asked, taken up by App, possibly still  *)
(* to be published a second time, and answered.                             *)

Call(kind, stage) == [kind |-> kind, stage |-> stage, to |-> "page", file |-> None, epoch |-> 0, config |-> None, content |-> 0,
                      seen |-> 0, durable |-> 0, ok |-> FALSE, state |-> None, doc |-> None, revision |-> 0, event |-> None]

Becomes(c, call) == calls' = [calls EXCEPT ![c] = call]

\* The page waits for the answer, unless it was reloaded; the notification does not look at it.
Answered(c, call) ==
  Becomes(c, IF c = "window" /\ call.to = "page" THEN [call EXCEPT !.stage = "answered"] ELSE None)

\* coordinationFailure, playerConfigFailure and their like answer with the state last published.
Refused(c) == Answered(c, [calls[c] EXCEPT !.state = app.state])

\* A button of the page; one command of it is under way at a time.
Asks(call) == Up /\ page # None /\ calls["window"] = None /\ Becomes("window", call)

\* The page knows of a broadcast.
SeesBroadcast == page.coordination # None /\ page.coordination.onAir

AskOpen == /\ page # None /\ page.file = None /\ Used("open") /\ Asks(Call("open", "asked"))
           /\ UNCHANGED <<life, coord, rosters, documents, app, saves, status, events, page, crossed, onAir, foreign>>

AskCommand(kind) ==
  /\ kind \in {"choose", "start", "end", "reset", "resolve", "session", "terminal"}
  /\ page # None /\ page.file # None
  /\ ~(kind = "choose" /\ SeesBroadcast)
  /\ Used(kind) /\ Asks(Call(kind, "asked"))
  /\ UNCHANGED <<life, coord, rosters, documents, app, saves, status, events, page, crossed, onAir, foreign>>

\* Roster and group changes carry the revisions the page has seen.
SeenRevision == IF page.coordination = None THEN 0 ELSE page.coordination.revision
AskRoster ==
  /\ page # None /\ page.coordination # None /\ page.coordination.config # None /\ ~page.coordination.onAir
  /\ Used("roster") /\ Asks([Call("roster", "asked") EXCEPT !.seen = SeenRevision])
  /\ UNCHANGED <<life, coord, rosters, documents, app, saves, status, events, page, crossed, onAir, foreign>>
AskGroups ==
  /\ page # None /\ page.file # None
  /\ Used("groups") /\ Asks([Call("groups", "asked") EXCEPT !.seen = SeenRevision, !.durable = page.durable])
  /\ UNCHANGED <<life, coord, rosters, documents, app, saves, status, events, page, crossed, onAir, foreign>>

Waits(c, kind) == calls[c] # None /\ calls[c].kind = kind /\ calls[c].stage = "asked"
Works(c, kind) == calls[c] # None /\ calls[c].kind = kind /\ calls[c].stage = "working"

-----------------------------------------------------------------------------
(* The session file: runSessionCommand, of Open, New and CopyDemo.          *)

\* captureSessionStatus
Captured(a) == [a EXCEPT !.requested = store'.revision]

OpenFile(f, new) ==
  /\ Waits("window", "open") /\ LineFree /\ ~store.closed
  /\ files' = IF new THEN [files EXCEPT ![f] = Starter] ELSE files
  /\ store' = [store EXCEPT !.file = f, !.epoch = @ + 1, !.revision = 0]
  /\ Becomes("window", [calls["window"] EXCEPT !.stage = "working", !.file = f, !.epoch = store'.epoch, !.doc = files'[f]])
  /\ UNCHANGED <<life, coord, rosters, app, saves, status, events, page, histories>>

\* The dialog was cancelled, or the file is not a session.
OpenNothing ==
  /\ Waits("window", "open") /\ LineFree
  /\ UNCHANGED documents
  /\ app' = Captured(app) /\ Refused("window")
  /\ UNCHANGED <<life, coord, rosters, saves, status, events, page, histories>>

\* Mutant of Reordered: the revisions of the older document count on.
ReorderedNever(a) == a

\* resetSessionStateOrdering and ClearPlayerConfig, which is refused during a broadcast.
Reordered(a) == [a EXCEPT !.published = 0]
FinishOpen ==
  /\ Works("window", "open")
  /\ UNCHANGED documents
  /\ \/ /\ coord.onAir
        /\ app' = Reordered(Captured(app)) /\ onAir' = TRUE
        /\ Answered("window", [calls["window"] EXCEPT !.ok = TRUE])
        /\ UNCHANGED <<coord, events>>
     \/ /\ ~coord.onAir
        /\ Commit([coord EXCEPT !.config = None, !.content = 0], Reordered(Captured(app)))
        /\ onAir' = FALSE
        /\ Becomes("window", [calls["window"] EXCEPT !.stage = "publishing", !.ok = TRUE, !.state = coord'])
  /\ UNCHANGED <<life, rosters, saves, status, page, left, crossed, foreign>>

-----------------------------------------------------------------------------
(* The player config.                                                       *)

\* playerConfigChangePrecondition reads the state App published last.
MayChangeConfig == Opened /\ ~(app.state # None /\ app.state.onAir)

\* LoadReferencedPlayerConfig reads the file that the open document names.
StartLoad ==
  /\ Waits("window", "load") /\ LineFree
  /\ LET config == IF Opened THEN files[store.file].config ELSE None IN
     \/ /\ ~(MayChangeConfig /\ config # None)
        /\ Refused("window") /\ UNCHANGED left
     \/ /\ MayChangeConfig /\ config # None
        /\ \/ /\ Becomes("window", [calls["window"] EXCEPT !.stage = "working", !.config = config, !.content = rosters[config]])
              /\ UNCHANGED left
           \/ Used("failure") /\ Refused("window")
  /\ UNCHANGED <<life, coord, rosters, documents, app, saves, status, events, page, crossed, onAir, foreign>>

\* OpenPlayerConfig reads the chosen file; NewPlayerConfig writes an empty one, which may have been in use.
ChooseConfig(config, new) ==
  /\ Waits("window", "choose") /\ LineFree
  /\ \/ /\ ~MayChangeConfig
        /\ Refused("window") /\ UNCHANGED <<rosters, foreign>>
     \/ /\ MayChangeConfig
        /\ rosters' = IF new THEN [rosters EXCEPT ![config] = @ + 1] ELSE rosters
        /\ foreign' = IF new THEN foreign \cup {config} ELSE foreign
        /\ Becomes("window", [calls["window"] EXCEPT !.stage = "working", !.config = config, !.content = rosters'[config]])
  /\ UNCHANGED <<life, coord, documents, app, saves, status, events, page, left, crossed, onAir>>

\* installPlayerConfig first has the store name the chosen config in the open file.
Associate ==
  /\ Works("window", "choose")
  /\ \/ /\ Opened
        /\ files' = [files EXCEPT ![store.file].config = calls["window"].config]
        /\ store' = [store EXCEPT !.revision = @ + 1]
        /\ Becomes("window", [calls["window"] EXCEPT !.stage = "associated", !.doc = files'[store.file]])
        /\ UNCHANGED left
     \/ /\ ~Opened /\ Refused("window") /\ UNCHANGED <<documents, left>>
     \/ /\ Used("failure") /\ Refused("window") /\ UNCHANGED documents
  /\ UNCHANGED <<life, coord, rosters, app, saves, status, events, page, crossed, onAir, foreign>>

\* Mutant of Installs: the file is installed before the open document names it.
InstallsUnassociated(call) == call.kind \in {"load", "choose"} /\ call.stage = "working"

\* Its second half, Service.InstallPlayerConfig.  That refuses during a broadcast, which the line
\* keeps from beginning meanwhile.
Installs(call) == <<call.kind, call.stage>> \in {<<"load", "working">>, <<"choose", "associated">>}
Install ==
  /\ calls["window"] # None /\ Installs(calls["window"]) /\ ~coord.onAir
  /\ LET call == calls["window"] IN
     /\ Commit([coord EXCEPT !.config = call.config, !.content = call.content], app)
     /\ foreign' = IF rosters[call.config] = call.content THEN foreign \ {call.config} ELSE foreign
     /\ Becomes("window", [call EXCEPT !.stage = "publishing", !.ok = TRUE, !.state = coord',
                             !.doc = IF call.kind = "load" /\ Opened THEN files[store.file] ELSE @])
  /\ UNCHANGED <<life, rosters, documents, saves, status, page, left, crossed, onAir>>

\* AddCharacter, UpdateCharacter and DeleteCharacter: validated, refused when the page has not seen
\* the newest state, and when the file is not the one that was installed; committed once it is written.
RosterAccepted(call) ==
  /\ call.seen = coord.revision /\ coord.config # None /\ ~coord.onAir
  /\ rosters[coord.config] = coord.content
ChangeRoster ==
  /\ Waits("window", "roster")
  /\ LET call == calls["window"] IN
     \/ /\ RosterAccepted(call)
        /\ rosters' = [rosters EXCEPT ![coord.config] = @ + 1]
        /\ Commit([coord EXCEPT !.content = @ + 1], app)
        /\ Becomes("window", [call EXCEPT !.stage = "publishing", !.ok = TRUE, !.state = coord'])
     \/ /\ ~RosterAccepted(call)
        /\ Answered("window", [call EXCEPT !.state = coord])
        /\ UNCHANGED <<coord, rosters, app, events>>
  /\ UNCHANGED <<life, documents, saves, status, page, histories>>

\* Somebody edits a player config file by hand.
EditConfigFile(config) ==
  /\ Used("foreign")
  /\ rosters' = [rosters EXCEPT ![config] = @ + 1]
  /\ foreign' = foreign \cup {config}
  /\ UNCHANGED <<life, coord, documents, app, calls, saves, status, events, page, crossed, onAir>>

-----------------------------------------------------------------------------
(* The broadcast and the other commands of the coordinator.                 *)

StartBroadcast ==
  /\ Waits("window", "start") /\ LineFree
  /\ \/ /\ coord.config # None /\ ~coord.onAir
        /\ Commit([coord EXCEPT !.onAir = TRUE], app)
        /\ Becomes("window", [calls["window"] EXCEPT !.stage = "publishing", !.ok = TRUE, !.state = coord'])
     \/ /\ ~(coord.config # None /\ ~coord.onAir)
        /\ Refused("window") /\ UNCHANGED <<coord, app, events>>
  /\ UNCHANGED <<life, rosters, documents, saves, status, page, histories>>

\* EndBroadcast does not wait for coordinationCommandMu.
EndBroadcast ==
  /\ Waits("window", "end")
  /\ \/ /\ coord.onAir
        /\ Commit([coord EXCEPT !.onAir = FALSE], app)
        /\ Becomes("window", [calls["window"] EXCEPT !.stage = "publishing", !.ok = TRUE, !.state = coord'])
     \/ /\ ~coord.onAir
        /\ Answered("window", [calls["window"] EXCEPT !.state = coord])
        /\ UNCHANGED <<coord, app, events>>
  /\ UNCHANGED <<life, rosters, documents, saves, status, page, histories>>

\* What the remaining commands have in common: refused on their payload with the state published
\* last, refused by the coordinator with its own, or committed and still to be published.
Command(kind) ==
  /\ Waits("window", kind)
  /\ \/ Refused("window") /\ UNCHANGED <<coord, app, events>>
     \/ Answered("window", [calls["window"] EXCEPT !.state = coord]) /\ UNCHANGED <<coord, app, events>>
     \/ /\ Commit(coord, app)
        /\ Becomes("window", [calls["window"] EXCEPT !.stage = "publishing", !.ok = TRUE, !.state = coord'])
  /\ UNCHANGED <<life, rosters, documents, saves, status, page, histories>>

\* RenameLogicalSession, AssignCharacter, ReleaseCharacter, MoveCharacter, SetActiveController
SessionCommand == Command("session")
\* RequestTerminalActivation, RequestTerminalClear, ResolveTerminalSwitch, UpdateLiveTerminal, ResetFailedHack
TerminalCommand == coord.onAir /\ Command("terminal")
TerminalRefused == /\ ~coord.onAir /\ Waits("window", "terminal")
                   /\ Answered("window", [calls["window"] EXCEPT !.state = coord])
                   /\ UNCHANGED <<life, coord, rosters, documents, app, saves, status, events, page, histories>>

\* completeCoordinationCommand and its like: the second publication, then the answer.
Publish ==
  /\ calls["window"] # None /\ calls["window"].stage = "publishing"
  /\ calls["window"].kind \notin {"reset", "resolve", "groups"}
  /\ app' = Published(app, calls["window"].state)
  /\ Emit(Emitted(app, calls["window"].state))
  /\ Answered("window", calls["window"])
  /\ UNCHANGED <<life, coord, rosters, documents, saves, status, page, histories>>

\* Players connect, claim, act: commits that nobody publishes a second time.
PlayersChange ==
  /\ Up /\ Used("player")
  /\ Commit(coord, app)
  /\ UNCHANGED <<life, rosters, documents, calls, saves, status, page, crossed, onAir, foreign>>

-----------------------------------------------------------------------------
(* Changes of the canonical part of the document.                           *)

Mutated == [files EXCEPT ![store.file].canon = @ + 1]
Mutate == files' = Mutated /\ store' = [store EXCEPT !.revision = @ + 1]

\* A durable change within a commit; c still has both to publish.
MutateAndCommit(c, call) ==
  /\ Opened /\ Mutate /\ Commit(coord, app)
  /\ Becomes(c, [call EXCEPT !.stage = "publishing", !.ok = TRUE, !.state = coord', !.doc = Mutated[store.file],
                             !.revision = store.revision + 1, !.event = SessionEvent(Mutated[store.file])])

\* ResetCommandState and ResetTerminalCommandStates; without anything to reset nothing is committed.
ResetCommandState ==
  /\ Waits("window", "reset") /\ LineFree
  /\ \/ MutateAndCommit("window", calls["window"])
     \/ /\ Opened
        /\ Becomes("window", [calls["window"] EXCEPT !.stage = "publishing", !.ok = TRUE, !.state = coord,
                                !.doc = files[store.file], !.revision = store.revision])
        /\ UNCHANGED <<coord, documents, app, events>>
     \/ Answered("window", [calls["window"] EXCEPT !.state = coord]) /\ UNCHANGED <<coord, documents, app, events>>
  /\ UNCHANGED <<life, rosters, saves, status, page, histories>>

\* ResolveCommandExecution and ResolveTerminalNavigation, from the page or a notification: a durable
\* change, a change of the coordinator alone, or a request that is no longer pending.
Resolve(c) ==
  /\ LineFree
  /\ \/ c = "window" /\ Waits(c, "resolve") /\ UNCHANGED left
     \/ c = "desktop" /\ Up /\ calls[c] = None /\ Used("resolve")
  /\ LET call == IF c = "window" THEN calls[c] ELSE Call("resolve", "asked") IN
     \/ coord.onAir /\ MutateAndCommit(c, call)
     \/ /\ coord.onAir /\ Commit(coord, app)
        /\ Becomes(c, [call EXCEPT !.stage = "publishing", !.ok = TRUE, !.state = coord'])
        /\ UNCHANGED documents
     \/ Answered(c, [call EXCEPT !.state = coord]) /\ UNCHANGED <<coord, documents, app, events>>
  /\ UNCHANGED <<life, rosters, saves, status, page, crossed, onAir, foreign>>

\* The rest of both: publishCoordinationStateIfNewer, acceptSessionStateRevision, publishSessionState.
FinishMutation(c) ==
  /\ calls[c] # None /\ calls[c].stage = "publishing" /\ calls[c].kind \in {"reset", "resolve"}
  /\ LET call == calls[c]
         a == IF StrictlyNewer(app, call.state) THEN [app EXCEPT !.state = call.state] ELSE app
         b == AcceptedRevision(a, call.revision) IN
     /\ app' = IF call.event = None THEN b ELSE PublishedSession(b, call.event)
     /\ Emit((IF StrictlyNewer(app, call.state) THEN {CoordinationEvent(call.state)} ELSE {})
               \cup (IF call.event = None THEN {} ELSE EmittedSession(b, call.event)))
     /\ Answered(c, [call EXCEPT !.event = None])
  /\ UNCHANGED <<life, coord, rosters, documents, saves, status, page, histories>>

\* ReplaceTerminalGroups compares both revisions; refused, it answers with the document and the
\* revision of the store (terminalGroupReplacementFailure).
ReplaceTerminalGroups ==
  /\ Waits("window", "groups") /\ LineFree
  /\ LET call == calls["window"] IN
     \/ /\ call.seen = coord.revision /\ call.durable = store.revision
        /\ MutateAndCommit("window", call)
     \/ /\ Opened
        /\ UNCHANGED documents
        /\ app' = Captured(app)
        /\ Answered("window", [call EXCEPT !.state = coord, !.doc = files[store.file], !.revision = store.revision])
        /\ UNCHANGED <<coord, events>>
  /\ UNCHANGED <<life, rosters, saves, status, page, histories>>

FinishGroups ==
  /\ calls["window"] # None /\ calls["window"].stage = "publishing" /\ calls["window"].kind = "groups"
  /\ LET call == calls["window"]
         a == AcceptedRevision(app, call.revision)
         b == PublishedSession(a, call.event) IN
     /\ app' = Published(b, call.state)
     /\ Emit(EmittedSession(a, call.event) \cup Emitted(b, call.state))
     /\ Answered("window", [call EXCEPT !.event = None])
  /\ UNCHANGED <<life, coord, rosters, documents, saves, status, page, histories>>

-----------------------------------------------------------------------------
(* SaveSession.                                                             *)

\* An edit of the page and the autosave of the same handler.
Edit ==
  /\ Up /\ page # None /\ page.file # None /\ Used("edit")
  /\ page' = [page EXCEPT !.doc.text = Budget["edit"] - left.each["edit"] + 1, !.invocation = @ + 1]
  /\ saves' = saves \cup {[doc |-> page'.doc, invocation |-> page'.invocation, stage |-> "sent", number |-> 0, live |-> TRUE]}
  /\ UNCHANGED <<life, coord, rosters, documents, app, calls, status, events, crossed, onAir, foreign>>

\* SaveSession numbers the call, then goes to the store without any lock of App.
NumberSave(s) ==
  /\ s.stage = "sent"
  /\ app' = [app EXCEPT !.requested = @ + 1]
  /\ saves' = (saves \ {s}) \cup {[s EXCEPT !.stage = "numbered", !.number = app.requested + 1]}
  /\ UNCHANGED <<life, coord, rosters, documents, calls, status, events, page, histories>>

\* Service.Save takes text and config of the page's document and keeps the canonical part.
EffectiveRevision(number) == IF number <= store.revision THEN store.revision + 1 ELSE number
KeepSave(s) ==
  /\ s.stage = "numbered"
  /\ \/ /\ Opened
        /\ files' = [files EXCEPT ![store.file] = [s.doc EXCEPT !.canon = files[store.file].canon]]
        /\ store' = [store EXCEPT !.revision = EffectiveRevision(s.number)]
        /\ crossed' = (crossed \/ ~s.live \/ s.doc.text < files[store.file].text \/ s.doc.config # files[store.file].config)
        /\ saves' = (saves \ {s}) \cup (IF s.live THEN {[s EXCEPT !.stage = "kept", !.number = store'.revision]} ELSE {})
     \/ ~Opened /\ saves' = saves \ {s} /\ UNCHANGED <<documents, crossed>>
  /\ UNCHANGED <<life, coord, rosters, app, calls, status, events, page, left, onAir, foreign>>

\* autosave's continuation: an older revision or an older call changes nothing.
AnswerSave(s) ==
  /\ s.stage = "kept"
  /\ saves' = saves \ {s}
  /\ page' = IF s.number < page.durable \/ s.invocation < page.rendered THEN page
             ELSE [page EXCEPT !.durable = s.number, !.rendered = s.invocation]
  /\ UNCHANGED <<life, coord, rosters, documents, app, calls, status, events, histories>>

-----------------------------------------------------------------------------
(* The page.                                                                *)

\* A reload: every listener is new, what was under way finds nobody.
Blank == [coordination |-> None, file |-> None, epoch |-> 0, doc |-> None, durable |-> 0, rendered |-> 0, invocation |-> 0]
Forgotten == {[s EXCEPT !.live = FALSE] : s \in {t \in saves : t.stage # "kept"}}
Deaf(call) == IF call = None \/ call.stage = "answered" THEN None ELSE [call EXCEPT !.to = "nobody"]
LoadPage ==
  /\ Up
  /\ IF page = None THEN UNCHANGED left ELSE Used("reload")
  /\ page' = Blank /\ status' = [stage |-> "asked", state |-> None] /\ events' = {} /\ saves' = Forgotten
  /\ calls' = [calls EXCEPT !["window"] = Deaf(@)]
  /\ UNCHANGED <<life, coord, rosters, documents, app, crossed, onAir, foreign>>

\* GetRuntimeStatus reads the coordinator first and takes App's mutex then.
AtStatus(stage) == status # None /\ status.stage = stage
ReadCoordinator ==
  /\ AtStatus("asked") /\ status' = [stage |-> "read", state |-> coord]
  /\ UNCHANGED <<life, coord, rosters, documents, app, calls, saves, events, page, histories>>
GetRuntimeStatus ==
  /\ AtStatus("read")
  /\ app' = Published(app, status.state)
  /\ status' = [stage |-> "answer", state |-> app'.state]
  /\ UNCHANGED <<life, coord, rosters, documents, calls, saves, events, page, histories>>

\* applyCoordinationState
Applied(p, state) ==
  IF state = None \/ (p.coordination # None /\ state.revision <= p.coordination.revision) THEN p
  ELSE [p EXCEPT !.coordination = state]

TakeStatus ==
  /\ AtStatus("answer")
  /\ page' = Applied(page, status.state) /\ status' = None
  /\ UNCHANGED <<life, coord, rosters, documents, app, calls, saves, events, histories>>

TakeCoordination(event) ==
  /\ event.kind = "coordination"
  /\ events' = events \ {event} /\ page' = Applied(page, event.state)
  /\ UNCHANGED <<life, coord, rosters, documents, app, calls, saves, status, histories>>

\* Whether the page loses something by showing doc instead of what it shows.
Crosses(doc) ==
  \/ doc.text # page.doc.text
  \/ doc.canon < page.doc.canon
  \/ doc.config \notin {page.doc.config, files[store.file].config}

\* The session-state listener, which cannot tell of which opening the event is.
TakesSession(event) == page.file # None /\ event.revision > page.durable
TakeSession(event) ==
  /\ event.kind = "session"
  /\ events' = events \ {event}
  /\ \/ /\ TakesSession(event)
        /\ page' = [page EXCEPT !.doc = event.doc, !.durable = event.revision]
        /\ crossed' = (crossed \/ event.epoch # page.epoch \/ Crosses(event.doc))
     \/ /\ ~TakesSession(event)
        /\ crossed' = (crossed \/ IF page.file = None THEN calls["window"] # None
                                  ELSE event.epoch = page.epoch /\ event.doc.canon > page.doc.canon)
        /\ UNCHANGED page
  /\ UNCHANGED <<life, coord, rosters, documents, app, calls, saves, status, left, onAir, foreign>>

\* loadSession; the referenced player config is asked for at once.
TakeOpened ==
  /\ calls["window"] # None /\ calls["window"].stage = "answered" /\ calls["window"].kind = "open"
  /\ LET call == calls["window"] IN
     \/ /\ call.ok
        /\ page' = [page EXCEPT !.file = call.file, !.epoch = call.epoch, !.doc = call.doc, !.durable = 0, !.rendered = 0, !.invocation = 0]
        /\ Becomes("window", IF call.doc.config = None \/ SeesBroadcast
                             THEN None ELSE Call("load", "asked"))
     \/ ~call.ok /\ Becomes("window", None) /\ UNCHANGED page
  /\ UNCHANGED <<life, coord, rosters, documents, app, saves, status, events, histories>>

\* Of the other answers the page takes the state if it is newer, and the document if there is one:
\* from a command of the document with its revision, from a player config as it is.
TakeAnswer ==
  /\ calls["window"] # None /\ calls["window"].stage = "answered" /\ calls["window"].kind # "open"
  /\ LET call == calls["window"]
         state == IF call.kind = "reset" THEN None ELSE call.state
         taken == call.doc # None /\ page.file # None /\ (call.ok \/ call.kind = "groups") IN
     /\ page' = [Applied(page, state) EXCEPT !.doc = IF taken THEN call.doc ELSE @,
                                             !.durable = IF taken /\ call.revision > @ THEN call.revision ELSE @]
     /\ crossed' = (crossed \/ (taken /\ Crosses(call.doc)))
  /\ Becomes("window", None)
  /\ UNCHANGED <<life, coord, rosters, documents, app, saves, status, events, left, onAir, foreign>>

-----------------------------------------------------------------------------
(* Start and Shutdown, under lifecycleMu.                                   *)

Failing == [life EXCEPT !.phase = "stopping", !.at = "access", !.preserve = TRUE]

\* Start: the player server's listener, whose failure is fatal.
StartPlayer ==
  /\ life.phase = "constructed"
  /\ \/ life' = [life EXCEPT !.held = @ \cup {"player"}, !.phase = "desktop-loading"] /\ UNCHANGED left
     \/ Used("failure") /\ life' = Failing
  /\ UNCHANGED <<coord, rosters, documents, app, calls, saves, status, events, page, crossed, onAir, foreign>>

\* Then the desktop.
ReadyDesktop ==
  /\ life.phase = "desktop-loading"
  /\ \/ life' = [life EXCEPT !.held = @ \cup {"desktop"}, !.phase = "ready-local"] /\ UNCHANGED left
     \/ Used("failure") /\ life' = Failing
  /\ UNCHANGED <<coord, rosters, documents, app, calls, saves, status, events, page, crossed, onAir, foreign>>

\* ServiceShutdown: the windows are gone; a later attempt finds what is left.
Shutdown ==
  /\ life.phase \in {"ready-local", "failed", "stop-failed"} /\ ~life.stopped /\ Used("shutdown")
  /\ life' = [life EXCEPT !.phase = "stopping", !.at = "access", !.preserve = FALSE, !.failed = {}]
  /\ page' = None /\ status' = None /\ events' = {} /\ saves' = Forgotten
  /\ calls' = [calls EXCEPT !["window"] = Deaf(@)]
  /\ UNCHANGED <<coord, rosters, documents, app, crossed, onAir, foreign>>

\* shutdownLocked, in its order; an error is collected and the next resource tried.
After(r) == CASE r = "access" -> IF life.cleared THEN "player" ELSE "process"
              [] r = "player" -> "sessions"
              [] r = "sessions" -> "desktop"
              [] OTHER -> "end"
\* Mutant of Missed: the rest is not tried.
MissedAndLeft(r) == [life EXCEPT !.at = "end", !.failed = @ \cup {r}]
Missed(r) == [life EXCEPT !.at = After(r), !.failed = @ \cup {r}]

\* The server's Stop remembers its error: what failed once fails for good.
Fails(r) == IF r = "player" /\ life.broken THEN UNCHANGED left ELSE Used("failure")
Release(r) ==
  /\ life.at = r
  /\ \/ /\ r \notin life.held
        /\ life' = [life EXCEPT !.at = After(r)] /\ UNCHANGED left
     \/ /\ r \in life.held /\ ~(r = "player" /\ life.broken)
        /\ life' = [life EXCEPT !.at = After(r), !.held = @ \ {r}] /\ UNCHANGED left
     \/ /\ r \in life.held /\ Fails(r)
        /\ life' = [Missed(r) EXCEPT !.broken = (@ \/ r = "player")]
  /\ store' = IF r = "sessions" /\ r \in life.held THEN [store EXCEPT !.closed = TRUE] ELSE store
  /\ UNCHANGED <<coord, rosters, files, app, calls, saves, status, events, page, crossed, onAir, foreign>>

\* The coordinator forgets everything, once, and App what it published.
ClearProcess ==
  /\ life.at = "process"
  /\ life' = [life EXCEPT !.at = "player", !.cleared = TRUE]
  /\ coord' = Fresh /\ app' = [app EXCEPT !.state = None]
  /\ UNCHANGED <<rosters, documents, calls, saves, status, events, page, histories>>

FinishRelease ==
  /\ life.at = "end"
  /\ life' = [life EXCEPT !.at = None, !.stopped = (@ \/ life.held = {}),
                          !.phase = IF life.preserve THEN "failed" ELSE IF life.held = {} THEN "stopped" ELSE "stop-failed"]
  /\ UNCHANGED <<coord, rosters, documents, app, calls, saves, status, events, page, histories>>

-----------------------------------------------------------------------------
Lifecycle == StartPlayer \/ ReadyDesktop \/ Shutdown \/ (\E r \in Resource : Release(r)) \/ ClearProcess \/ FinishRelease

Asking == AskOpen \/ (\E kind \in Kind : AskCommand(kind)) \/ AskRoster \/ AskGroups

Working ==
  \/ (\E f \in File, new \in BOOLEAN : OpenFile(f, new)) \/ OpenNothing \/ FinishOpen
  \/ StartLoad \/ (\E config \in Config, new \in BOOLEAN : ChooseConfig(config, new)) \/ Associate \/ Install
  \/ ChangeRoster \/ (\E config \in Config : EditConfigFile(config))
  \/ StartBroadcast \/ EndBroadcast \/ SessionCommand \/ TerminalCommand \/ TerminalRefused \/ Publish \/ PlayersChange
  \/ ResetCommandState \/ (\E c \in Caller : Resolve(c) \/ FinishMutation(c)) \/ ReplaceTerminalGroups \/ FinishGroups

Saving == Edit \/ (\E s \in saves : NumberSave(s) \/ KeepSave(s) \/ AnswerSave(s))

Showing ==
  \/ LoadPage \/ ReadCoordinator \/ GetRuntimeStatus \/ TakeStatus
  \/ (\E event \in events : TakeCoordination(event) \/ TakeSession(event)) \/ TakeOpened \/ TakeAnswer

Next == Lifecycle \/ Asking \/ Working \/ Saving \/ Showing

Spec == Init /\ [][Next]_vars

-----------------------------------------------------------------------------
(* Nothing is on its way.                                                   *)
Quiet == Up /\ page # None /\ status = None /\ events = {} /\ saves = {} /\ \A c \in Caller : calls[c] = None

(* App's copy of the coordinator's state is the newest one whatever order   *)
(* the publications of commands, players and notifications come in, and the *)
(* page ends up with it when everything sent to it has arrived, even if it  *)
(* was reloaded in between.  What a command still in flight publishes after *)
(* the process state was cleared is left out.                               *)
StateIsCurrent ==
  /\ ~life.cleared => app.state = coord
  /\ Quiet => page.coordination = coord

(* When everything has arrived the page shows the document of the file the  *)
(* store has open, although it is told by events, by answers and by the     *)
(* outcome of its saves.  Left out are runs where an edit and somebody      *)
(* else's change overtook each other: the calls carry no version of the     *)
(* document and the later one wins.                                         *)
DocumentsAgree ==
  ~crossed /\ Quiet /\ page.file # None => page.file = store.file /\ page.doc = files[store.file]

(* While no command is half way, the roster installed is that of the config *)
(* the open document names, as the file has it: a file opened without one   *)
(* clears it, a failed association installs nothing, and a change of the    *)
(* roster is written before it is committed.  The exceptions are a document *)
(* opened during the broadcast, which the code lets keep the older roster,  *)
(* an overtaken edit, and files changed behind the coordinator.             *)
RosterOfOpenDocument ==
  LineFree /\ coord.config # None =>
    /\ onAir \/ crossed \/ coord.config = files[store.file].config
    /\ coord.config \in foreign \/ rosters[coord.config] = coord.content

(* Every attempt to stop reaches every resource: what is still held after   *)
(* it is what failed to close in it, App counts as stopped exactly when     *)
(* nothing is held, and once the coordinator was cleared no broadcast runs. *)
ReleasesAreTried ==
  /\ life.phase \in {"failed", "stop-failed", "stopped"} => life.held \subseteq life.failed /\ (life.stopped <=> life.held = {})
  /\ life.cleared => ~coord.onAir
=============================================================================
