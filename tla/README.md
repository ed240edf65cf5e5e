# A formal model of Fallout Terminal

Fallout Terminal is a desktop program with which a game master, the Overseer, puts fictional
computer terminals on the screens of players at their browsers. This directory holds TLA+
specifications of its core, the TLC runs that check them on small instances and theorems that
TLAPS has checked for all instances. Every definition follows the source; `PROJECT.json` maps it
to the lines it stands for, and lists the hazards of the code, each at its line and with the
properties that would catch it.

## The system and its parts

| Part | State | Operations | Hard because | Modules |
|---|---|---|---|---|
| Coordinator, `internal/control` | one `ProcessRuntime`: sessions and their streams, roster, broadcast, claims, controller, replay cache, active terminal, checkpoints, route, pending decisions | about 40 commands from two sides: the Overseer's calls and the players' requests | each command runs alone under one mutex, but those of both sides interleave freely, and several read other state before they take the mutex | Coordination, TerminalControl |
| Checkpoints, `internal/live`, `nav`, `hack` | tree, place, puzzle and shared cursor of one terminal | create, update, suspend, reactivate, apply a player's action | they survive being left while their document, the controller and the puzzle change | TerminalControl, LockedTerminal, HackPuzzle |
| Session store, `internal/session` | active document, requested and saved revision, queue of saves, waiters, epoch | save, command states, groups, player configuration, open, shutdown | a background worker coalesces writes; some writes pass the queue | SessionStore |
| Documents, `internal/domain`, `app_contract.go` | none: a document and a request give a document or a refusal | read, write, merge a save, complete and reset a command, regroup, validate a live tree, pass to the window | what is accepted by one path must be accepted by the others later, and nobody may lose what he did not ask to change | SessionDocument |
| Player streams, `internal/player`, the page `client.js` | hub of streams, uplink mailboxes; what the page shows and has asked for | subscribe, offer, present, replace, close | updates are sent outside the coordinator's mutex; slow pages, broken connections, overlapping generations | PlayerStreams |
| Public access, `internal/tunnel` | tunnel runtime, generation, settings and secrets | start, stop, reconfigure, monitor, shutdown | slow network operations finish after they were superseded or fail half-way | PublicAccess |
| Secrets and files, `internal/platform`, `tunnel/settings.go`, `session/storage.go` | items in the system's keyring; a file, its temporary copy and what is durable of it | read, add, replace, delete; atomic replacement | calls outlive their caller behind a prompt; half of a row of calls or steps may be done when it fails or the power does | PublicSettings |
| Approval notifications, `approval_notifications.go` | the current notification, its delivery, the authorization | observe a state, answer, stop | a decision arrives from the window and from the desktop; native calls are slow and unordered | ApprovalNotifications |
| Update, `internal/update`, `wails_updater.go`, `wails_host.go` | one attempt per launch; the installed, prepared and set-aside units; a recovery record | check, prepare, restart; the helper process; recovery | any process may die between two renames | ApplicationUpdate, Installation |
| Desktop application, `app.go`, `main.go` | lifecycle phase, last published states, numbers of saves | start, shutdown, the window's calls on documents, player configs, coordinator | reads before and publications after the locks of the parts; answers and events overtake each other | DesktopApplication |

The Overseer's window calls `App`, `App` calls the coordinator, and the coordinator calls the
session store for durable changes **while it holds its mutex**. The players' handlers resolve a
browser to a session and a stream under the read lock and dispatch afterwards. What an accepted
transition publishes goes to the hub of streams under the mutex and to the window and the
notifications after it. Ordinary document edits go from `App` to the session store without the
coordinator.

What makes each part correct: sessions, claims and control stay consistent and no request takes
effect twice (coordinator); exactly one terminal runs, no request is left that nobody can decide,
the way back stays open (terminals); a puzzle can be solved, ends, and is logged once
(checkpoints); what is acknowledged is on disk (store); a page sees revisions in order and ends
up current (streams); no tunnel is lost and Stop ends (public access); a request is announced and
taken down once (notifications); something that can be started is always there (update).

## Modules

In all of them one action is one critical section, or one step between two calls that other
goroutines can get between. A refused call that changes nothing is no action. History variables
are named as such and no guard looks at them.

### Coordination

The sessions, roster, claims, control and replay cache of `control.Service`. `Service.commit`
runs each transition under one mutex on a private copy of the aggregate, so one transition is
one action.

| Variable | Code |
|---|---|
| `revision` | `ProcessRuntime.Revision` |
| `known`, `conns`, `name`, `cache` | `SessionsByID` with `ConnectionIDs`, `FallbackName`, `RequestResults` |
| `config`, `roster` | `ActivePlayerConfig`, `RosterByID` |
| `broadcast`, `assign`, `owner`, `controller` | `LiveBroadcast` |
| `minted`, `issued`, `epochs` | the identifiers handed out so far: random in the code, so never handed out twice |
| `inFlight` | player actions between `ResolveConnection` (read lock) and `DispatchPlayerAction` |
| `applied`, `twice` | history: which logical requests took effect |

Labels are numbers: label *n* is the text `PLAYER n` that `nextFallbackName` tries. Request ids
are ordered because eviction takes the smallest in Go's order of strings. A cached refusal does
not raise the revision, an accepted request does. What the terminal does with an authorised
action is a free choice here (`DispatchAccepted` or the `"terminal"` branch of
`DispatchRefused`). A shutdown empties the aggregate; it may happen at any moment.

Left out: rate limits, presentation intents (they do not go through the cache; see
PlayerStreams), audit events, the contents of the projections.

### TerminalControl

The terminals of a broadcast. A terminal's tree is abstracted to what the decisions tell apart:
one command at the root (0 when there is none, another number when it was rewritten), whether it
is state-changing, and one folder with a transition command to `link`. A checkpoint is the
record `Runtime`; `nav` is the root, the folder, or the root showing a command's result; `exec`
is `CommandExecutionPresentation`, in which `denied` is the rejected screen of a transition
command and `rejected` that of the terminal's own command, because a reset of one command clears
only its own screen.

| Variable | Code |
|---|---|
| `catalog`, `place`, `done` | the active document of `session.Service`: trees, `TerminalGroups`, `CommandStates` |
| `active`, `runtimes`, `route`, `established`, `initial` | `ActiveTerminalID`, `TerminalRuntimes`, `Route`, `InitialTerminal*` of `LiveBroadcast` |
| `pendingSwitch`, `pendingCommand`, `pendingNavigation`, `notice` | the same fields of `ProcessRuntime` |
| `asked` | an `App` call that has read a terminal's command states and has not yet taken the coordinator's mutex |

Document edits (`EditTerminal`, `DeleteTerminal`) interleave with everything, because
`App.SaveSession` goes past the coordinator. `ReplaceTerminalGroups` and the command state
mutations run inside a coordinator transition, as in the code. `FailCommand` is a store that
fails, and also the case in which it has written a command that is no longer the one on the
checkpoint. `ReturnGone` is the save that falls between the validity check and the lookup of one
approved return. Decision ids are fresh, so an answer to an older decision changes nothing.

The constants are those of one opened session: finitely many terminals, laid out in groups
without gaps (`WellFormed`), which `ValidateSession` makes sure of when a file is read.

Left out: `RefreshActiveTerminal` (its only caller runs without a command state store, which
`main.go` always installs), names, new terminals and opening another session in a broadcast. The
store is atomic here: a save that was queued before the groups were replaced and is written after
it (`session/service.go:847`) puts the old groups back, in the file and in memory. `place` does not step back
in this way, so `RouteCanBeWalkedBack` and its theorem do not speak of a route over groups which such
a save has taken away again. SessionStore has that save.

### HackPuzzle and LockedTerminal

HackPuzzle holds the operators of `internal/hack`: spans of delimiters (`Spans`), which boards
may be published (`Publishable`), and what a guess, a pattern and a forced success do. A glyph is
a letter, an ordinary filler or one of two pairs of delimiters, and the sizes are constants. The
random layout is a choice among `Boards`; `GenerateBoard` takes those the code would publish.

LockedTerminal puts it under the coordinator's transactions: checkpoints with full folder paths
and entries (`internal/nav`), the puzzle, the cursor the controller's page shows to everybody,
and the audit events that `recordAuditEvents` derives by comparing the state before and after.
The decisions that lead to a step are TerminalControl's and are free choices here.

Things worth knowing, all as in the code: the server does not gate navigation by the puzzle, only
the page does. The cursor may be stale inside a transaction until `compoundUpdateLocked`, which
runs once per assigned session, repairs it. Reactivating a solved puzzle logs `hack.started`
again. A change of controller logs `interrupted` although play goes on. `validHackPreviewTarget`
accepts the first glyph of a span as a filler, which the guess itself refuses. Generation may
fail, and the locked terminal then opens without a puzzle.

### SessionStore

`session.Service` with its save worker. The locks become guards: `command` is the operation that
holds `commandMu`, from its first step to its return, and a `Save` is accepted only while no
mutation or group replacement holds `documentMu`. What runs under `mu` alone is one step, so a
write of the file, which runs without `mu`, lies between two steps. A document is abstracted to
its text, what has become of each command, the player configuration, the completed commands and
the group set. `stamp` numbers the edits so that properties can tell a later one from an earlier
one.

| Variable | Code |
|---|---|
| `disk` | the session files; `WriteAtomic` replaces one or fails and leaves it |
| `active`, `epoch`, `durable`, `closed`, `pending`, `waiters`, `wake` | the fields of `Service` |
| `worker`, `inHand` | where `runSaveWorker` is, and the payload it writes |
| `command` | the operation that holds `commandMu`: what it read, what it writes, how far it is |
| `call` | the calls of `App.SaveSession`; a call *is* the number the App gives it, and calls arrive in any order |
| `stamp`, `overlapped` | history: accepted edits so far, and see below |

`ReplaceTerminalGroups` and `AssociatePlayerConfig` write the file themselves, past the queue,
and so do `Create` and `Open` read or write a file that may have saves queued. What then happens
to the edits on the two ways is not orderly: a save can lose its edit to an association made
meanwhile, and the document's revision can step back to `saved + 1` while higher ones are
queued. `overlapped` becomes and stays true when a file was read or written past the queue while
work for it was queued, and the invariants about contents hold for behaviours in which that has
not happened. The order of saved revisions and the answers to callers are checked without that
condition.

`CallersAreAnswered` says that `commandMu` is always let go of and that a save is answered unless
the revision asked for falls below its own while it waits (`SetBack`), and that only a group
replacement makes it fall. The exception is a save that really waits for ever; see
[Where code and documents disagree](#where-code-and-documents-disagree).

`CopyDemo` is `WriteToCreate` with another document. Of the group replacement's caller it is
assumed that it has seen the saved revision, since otherwise it is refused.

### SessionDocument

What SessionStore takes for a document is taken apart here: `ValidateSession`, the merge of a
save with the document at hand, the groups made for new terminals and old files, completion and
reset of commands with the entry texts they change, replacement of the groups and its impact,
player configs, the validation of trees shown live, the passage to the window, and unknown fields.
All of it is pure; `DocumentsAreSound` compares the operators with each other on every document of
the instance, valid or not, and runs together with `session_store`.

A tree is the sequence of its nodes in the order `validateTree` visits them, each with its depth.
A text is its length, which is what the limit of a composed entry is about. A name is a word with
the numbers appended to it (`Lower` and `Cut` are what the code does to words), and the id of a
singleton group has its terminal in place of the digest. What else is asked of a field is one flag,
`sound`. An object of the file is a sequence of keys with values, since Go takes the last of
several and keys in any case.

* `OldFilesOpen`, `RefusalsAreJustified`, `SavesLeaveTheRest`: what can be read can be saved; a
  save is refused for three reasons only, and takes nothing along that the editor does not own.
* `CompletionsAreUndone`, `RegroupingsAreExact`, `RostersAreStable`: completion and reset are
  inverse, regrouping reports exactly whom it affects, rosters survive reading and writing.
* `LiveTreesCanBeSaved`, `WindowSeesWhatIsHeld`, `FieldsSurvive`: the other validator agrees with
  the save, no document is dropped on its way to the window, and unknown fields are kept.

### PlayerStreams

One page and the server. A page opens one stream after another; a connection breaks at any time
and the server may notice late. `hub` is `SubscriptionHub` as far as the page is concerned,
`sub[s]` a `Subscription` with the goroutine of `Subscribe`, `lease[g]` a `PresentationUplink`
with its receiver and its worker, `down` and `up` the messages on the way, `calls` the unary
presentation calls. `Window` is how many messages a connection takes before a send blocks,
`QueueSize` the capacity of a `Subscription`, beyond which the stream is closed. The page's
handlers are those of `client.js`: it opens a new stream when one ends, sends its presentation
by the uplink when that is ready and by a call otherwise, and gives a presentation up when a
newer one, a refusal or a new stream supersedes it.

Left out: the server's own stop, which closes every subscription and uplink at once.

### PublicAccess

The manager of `internal/tunnel` with its ingress, the provider's endpoint, the settings file and
the secrets. `op[g]` is a `startOperation` with the goroutine that starts it, `gate[g]` and
`tunnel[g]` the ingress and the endpoint it has opened, `monitor[g]` the goroutine that watches
the endpoint, `call` where the window's command and the shutdown are. The application lets in one
command of the window at a time (`publicAccessCommandMu`) but takes another lock to shut down, so
a shutdown runs beside a command; that is why the manager's conflicts of two reconfigurations do
not occur. Every operation is split where `manager.mu` is released, and every deadline may pass.

As in the code: an ingress that had to be shut by force keeps its error for every later `Close`
(`"stuck"`), so no Stop and no Start succeeds after it; the secret store looks at the caller's
context, so a cancelled command changes no secret; a reconfiguration on a stale revision is a
conflict; the commit checks the generation, but can never refuse for it (`CommitsAreCurrent`); `Save` may report a failure after the
file was replaced (`fsync` of the directory); a start may be answered by its deadline and finish
later (`LateStart`).

### PublicSettings

What a settings command leaves behind. PublicAccess takes a change of a secret and a save of the
file for one step each; here they are the calls of the three keychain backends and the file
operations of the stores.

| Variable | Code |
|---|---|
| `host` | which backend `internal/platform` was built with, and whose file it is: `settings` is `PublicAccessSettingsStore`'s, `documents` that of `session.Storage` and of `playerconfig.Storage`, which wraps it |
| `keyring` | the items with a secret's attributes; Linux allows several, and other programs may add or remove one |
| `native`, `orphans` | the call of `credentialBackend` under way, as the row of calls to the system it has left; prompts that stay on the desktop |
| `command` | a save, a use of secrets or `Initialize`, as the row of its remaining tasks |
| `disk` | the file, what a loss of power leaves of it, the temporary file |
| `manager` | preferences and presence of `PublicAccessManager` |
| `allowed`, `owed`, `disturbed` | histories: what the answers so far promise of the secrets and the file; the secrets about which they cannot |

A call succeeds, is refused, waits for a prompt, or runs out of its 30 seconds, when it may have
been carried out all the same. A prompt that nobody waits for any more is dismissed, unless
`Dismiss` does not arrive within its second (`Stays`).

Simplified: the collection exists; connecting, opening a session and unlocking are one call; an
error is "not found" or "failed"; names of temporary files do not collide; the hints of presence
in the settings file and the development override are left out.

As in the code: a change that failed on Linux may have taken effect, now or when its prompt is
answered; PublicAccess leaves out that case. With two items of one name a secret is shown as
present but cannot be read, and replacing it replaces one of the two: only deleting cures it. An
item that vanishes in the middle of a deletion ends it with success, with the others left. A
generated password whose save or restart fails may be stored but is never shown
(`App.GeneratePlayerPassword`). Documents flush the temporary file and not the directory, so a
save that was acknowledged survives a crash of the process but not always a loss of power. A
settings file that cannot be read puts the defaults in use, and the next save replaces it.

### ApprovalNotifications

The service of `approval_notifications.go`: `availability`, `generation` and `current` are its
fields; `tasks` is the bag of goroutines `applyTransition` and `cleanup` has started; `clicks`
the answers being handled; `shown` what is on the desktop. The App's side is reduced to what the
service observes: a request appears, is decided or is withdrawn (`Ask`, `Dismiss`,
`Command`), and an accepted command publishes its answer a second time outside the coordinator's
lock (`echo`). One echo at a time is a bound.

As in the code: the Wails runtime stops the notification service before it stops the application,
so requests may still come and go after that; `authorize` calls the native service after the
shutdown without looking at the generation; a cleanup that is queued at shutdown is discarded, so
that a notification may stay on the desktop, where a click on it does nothing; a removal that
fails counts as made.

### ReleaseContract, ApplicationUpdate and Installation

ReleaseContract holds the three gates of a release, as operators: `Check` on the release service's
history, `Accepts` on the unpacked package, `HandsOver` on the request for the helper. A number of
a version is the sequence of its digits, because the code compares it as text; assets go by their
target, paths are sequences of names. ApplicationUpdate extends it: a check answers what `Check`
makes of some history (`Answers`), a download leaves what `Accepts` lets through of some archive
(`Prepared`), and the request is handed over when `HandsOver` admits this installation's layout.
Its properties are about all histories, archives and layouts of the instance together
(`ReleasesAreTrusted`); `Ascending` lists versions in the order SemVer gives them, against which
the hand-written comparison is checked.

The update manager of a launch, the helper process it hands over to, the recovery record between
them and the launches after. The attempt's id is drawn once per launch, so attempts are numbered
by their launch; a second instance leaves before it reads the record. Units are complete (`Old`,
`New`), partial or absent. Any process may die between two steps and any file operation may fail;
a record that cannot be read, or not be parsed, is inert (`RecordIsInert`): it stays, and the launch
goes on without it. Of the progress of a download there are the bytes, which may not go back, and not its size: what
`validProgressAdvance` refuses for a size that shrinks or is exceeded is accepted here.

`told` is a history of the news that an attempt failed: none yet, held by the launch that has read the
record, shown by the status its window asked for, illegible to this launch, or lost. News counts as
shown in `Status` and not before, so a launch that ends between the record's removal and that call
loses it.

Installation says what a replacement promises its user without the processes that make it: the
installed unit may be missing for a while, but only as long as a copy that can be started is kept
beside it, and a kept copy is given up only when another can be started. ApplicationUpdate
implements it (`Replacement == INSTANCE Installation`).

A helper that is stalled may still run when a later launch has prepared its own. With
`HelpersMayOverlap = TRUE` the promise of Installation and `ReplacementIsSafe` still hold, and
the proofs cover it; the record, of which there is only one, may then be overwritten, so
`FailuresAreTold` is claimed for `FALSE`.

As in the code: a helper that dies between its two renames leaves only the backup, which nobody
puts back; the new version is started before its success is recorded, so it may read `applying`.

### DesktopApplication

`App` between the window and the parts. The coordinator is here its revision, whether a broadcast
is on and which roster is installed; the store its open file and newest revision.

| Variable | Code |
|---|---|
| `life` | the lifecycle fields of `App` and where the holder of `lifecycleMu` is |
| `coord`, `rosters`, `files`, `store` | the coordinator, the player config files, the session documents, the session store |
| `app` | `coordinationState`, `requestedRevision`, `publishedSessionRevision` |
| `calls` | the window's command under way and that of the desktop notification |
| `saves`, `status` | calls of `SaveSession`; the page's `GetRuntimeStatus` |
| `events`, `page` | events on their way to the page, and what it shows (`overseer.js`) |
| `left`; `crossed`, `onAir`, `foreign` | bounds; histories |

A step is what runs under one lock. A commit publishes under the coordinator's mutex, so the two
are one step, and most commands publish the state they were answered with a second time. Events
are not lost while a page listens, but they and the answers overtake each other; a page may be
reloaded at any time. `coordinationCommandMu` makes the commands on documents and player configs
wait for each other (`LineFree`), saves do not take it.

`crossed` becomes true when an edit and a change by somebody else of the same document overtake
each other; which of the two then wins the calls do not say, as they carry no version.
`onAir` is true when another document was opened during the broadcast, which keeps its roster.

As in the code: a state that is published after Shutdown is taken, because Shutdown clears
`coordinationState`; the answers of a reset and of the player config commands replace the page's
document whatever its revision; events about a session carry no identity of the document; a config
that the opened document names is not installed during a broadcast; the player server remembers
the first error of its `Stop`, so a later Shutdown fails as well.

### Proof modules

TerminalControlProofs, SessionStoreProofs, PublicAccessProofs, PublicSettingsProofs,
ApprovalNotificationsProofs, ApplicationUpdateProofs and DesktopApplicationProofs: each EXTENDS
the module it is named after. CoordinatorProofs EXTENDS Coordination, PlayerStreams and
LockedTerminal, the coordinator seen from its aggregate, its streams and its checkpoints; the three
share no variable. See [Proofs](#proofs).

## Runs

| Run | Instance | States | What it asks |
|---|---|---|---|
| `coordination` | 2 sessions, 2 streams, 2 characters, 2 request ids, a cache of 1, 2 broadcasts, 1 action in flight | 1,481,813 | claims and control agree; labels and callers are not mixed up; control passes on only by the Overseer's word; a repeated request is answered as before and changes nothing |
| `terminal_decisions` | a locked terminal and one with a command that may be reworded, both linked, routes of 1 | 989,627 | exactly one terminal runs and waiting screens have a request; requests stay decidable; outcomes stand: a puzzle keeps its own, completion follows the disk |
| `terminal_route` | 3 open terminals, 2 groups, routes of 3, links that may be rewired | 751,492 | the way back stays open through regrouping |
| `locked_terminal` | 2 terminals, 2 sessions, boards of two rows with overlapping spans, 2 puzzles | 211,920 | the cursor points at what is shown; the puzzle can be solved and ends; a board is only dotted where it was played; the log has each outcome once |
| `session_store` | 1 file, 2 saves, of which one deletes the only command, 2 group sets, 1 player configuration, opened twice; 715 documents, 60 drafts, 7 group sets, 72 player configs, 585 objects | 784,807 | what is said to be saved is in the file, edits and mutations alike; a mutation that failed leaves no trace; saved revisions do not go back; every caller is answered, but for a save whose revision a group replacement has set back; documents are sound |
| `session_acknowledged_edit` | the same, opened once | | expected to fail, see below |
| `player_streams` | 2 streams, 2 generations, 3 of them together, 1 change, 1 presentation, queue and window of 1 | 910,153 | streams are current and only advance; nothing registered is left unserved; the page catches up; presentations settle and workers end |
| `public_access` | 2 attempts, 3 intents, 1 committed revision, changes of either secret | 240,403 | the status is true; no runtime is lost or doubled; players are let in with the stored password; a cancelled start stays down; every call is answered |
| `public_settings` | 2 commands, 4 kinds of change, 1 mishap, 1 prompt that stays | 1,428,213 | the keyring holds what the answers allow and the window shows no more than that; no mishap loses a file that was said to be saved; every command is answered |
| `approval_notifications` | 2 requests, 1 command, 1 click at a time | 210,915 | announced once, announced at all; every notification is taken down and every click answered; silence after the stop |
| `application_update` | 3 launches, 6 versions, 192 histories, 50 archives, 15 layouts | 438,924 | what is offered is the newest, what is offered can be installed; the implementation of Installation; units are whole and the application has gone; the news of a failure is kept but for two ways to lose it; outcomes stand; every update ends |
| `desktop_application` | 2 session files, 2 player configs, a total of 4, of which a happening takes up to 2 | 2,684,603 | the page's state is the newest, its document the open one; the roster belongs to the open document; whatever fails, everything is released in the end |

Each run ends within about two minutes.

Bounds. Two sessions, two characters and two terminals are the fewest with which claims,
control and activity can move; a third terminal is needed for a route with a middle. Two
broadcasts show what is carried over. `MaxRevision` bounds the length of a behaviour of accepted
transitions in Coordination; nothing compares revisions there, and nine are enough for connect,
claim, act, disconnect, end and begin again. A cache of one record with two ids has every case:
hit, reuse, eviction of the smaller and of the larger id. `MaxInFlight = 1` suffices because what an action in
flight can meet is any number of transitions in between. `MaxRoute` bounds the route; in the code
it grows with every transition. `asked` is one desktop call at a time. Sessions, streams and
characters are symmetric: nothing in Coordination tells them apart.

In SessionStore two saves are the fewest that can be coalesced, and with a mutation between them
the fewest that show what the worker puts back; opening one file twice gives two epochs and a
queue with payloads of both. The documents have two terminals, one with two commands and an
entry of two blocks: one block can be changed by either command, by both or by none, so texts fit before,
after, or only in one order. Names come in two cases and with no room for a number, which are the
cases of the search for a free one. In PlayerStreams two streams are the fewest that replace each other,
a queue and a window of one the smallest that overflow after a message is on its way; of two
streams and two generations at most three are together in a behaviour, so either kind overlaps. In PublicAccess two attempts let a late start meet its
successor, and three generations allow start, stop and start, or a reconfiguration in between.
In PublicSettings two commands are a change and another one on top of what it left, or a use of it;
a second mishap would meet a program that has just started. The four `Requests` replace both
secrets, one, delete one, or neither.
Three launches are an attempt, a launch that finds its outcome or cannot read it and makes an attempt
over it, and the launch that finds what is left of both. The six
versions differ in a number of one and of two digits, in words, in a word and nothing, and in the
number of identifiers; two pages of two releases are full, short, empty, missing or unreadable;
each archive but one differs from a release's own in one respect; the layouts put the unit and the
record apart, into each other and among the temporary files.
In DesktopApplication everything that starts something
costs part of a total (`Cost`, `Total`) and has a budget of its own (`Budget`), so that any mix of
two to four happenings occurs, with all their steps interleaved; opening a file is free. `MaxPuzzles = 2` lets a puzzle be
replaced. In LockedTerminal pages (`MaxPage`) are 0: the index
is only compared.

Where a behaviour may stop because a bound is reached, or because the program does, deadlock is
not checked; the liveness properties say instead that nobody is left waiting. In the
coordinator's modules and LockedTerminal a command of the Overseer is always possible, and
deadlock is checked.

Fairness. Goroutines that are running go on, native and file operations return (with or without
an error), timers fire: weak fairness of those actions and of nothing else. In SessionStore these
are the worker and the operation that holds `commandMu`; in PlayerStreams the goroutines of the
server, the page's event handlers and its timeouts; in PublicAccess the workers, disposers,
monitors and the two callers, every wait of which has a deadline; in PublicSettings the calls to the system, on Linux by their deadline, and the command's own
steps, while a prompt may stay unanswered for ever; in ApprovalNotifications the
goroutines, taken together, because each does finitely many steps; in ApplicationUpdate the
manager's background work and each helper, which waits for its parent with a timeout. Nobody is
assumed to call, click, launch, quit or choose, and no connection has to break or to last.
Coordination, TerminalControl, LockedTerminal and DesktopApplication state safety only: players and
the Overseer do not have to act.

## Where code and documents disagree

`session_acknowledged_edit` is the run that shows one of them. Save A is being written when save
B is accepted; the worker finishes A and makes A's document the active one; a command is
completed, on top of A and with a higher revision than B; the worker takes the newest payload of
the two, writes it and answers B with OK. B's edit is in no file and in no memory. The comment on
`Service` (`internal/session/service.go:130`) promises every accepted caller that its revision or
a newer one is durable. No direct write takes part in it.

The others came up while modelling. Some are stated as definitions at the end of their modules;
these do not hold, and no run lists them. TLC refuted the first two on the instances of `session_store`,
opened once, and of `application_update`.

* `SessionStore!EverySaveIsAnswered`: two saves are queued, with revisions 2 and 3, when the groups are
  replaced. `ReplaceTerminalGroups` counts from the saved revision and sets the revision asked for to 1
  (`session/service.go:692`). A completed command gets revision 2 and ends the batch the worker takes;
  `finishPayload` answers nobody above 2 (`:864`). The caller of revision 3 stays in `<-reply` (`:475`),
  whatever becomes of its context; `Shutdown` finds the queue empty and stops the worker. Only a later
  save of revision 3 or more would answer it. The comment on `Service` (`:130`) has every accepted caller wait
  until its revision is durable, that on `Shutdown` (`:767`) has every accepted save drained.
  `CallersAreAnswered` claims no answer for a save whose revision was set back in this way.
* `ApplicationUpdate!EveryFailureIsShown`: the launch after a failed update removes the record while it
  is composed (`update/recovery.go:61`, called from `main.go:198`) and holds the failure in memory. It
  ends before its window has asked for the status, and no later launch knows of the failure. Or the
  launch cannot read the record, takes it for none (`update/recovery.go:44`), and writes that of its
  own attempt over it (`update/helper.go:179`). `specs/024-application-self-update/data-model.md:152` has the
  failure become the initial visible one. `FailuresAreTold` says that the news is lost in these two ways and
  no other.
* `TerminalControl!ManualSwitchCancelsTransition`: the Overseer chooses another terminal while the
  puzzle on the active one is unfinished; a player follows a transition before the Overseer
  answers the switch dialog; the answer changes the terminal and leaves the request
  (`control/service.go:1147`). It cannot be decided any more and refuses all player actions until
  a terminal is activated or cleared. `specs/010-terminal-navigation/spec.md:141` asks for it to
  be cancelled. `RequestsStayDecidable` excuses this step.
* `TerminalControl!PendingCommandIsUnchanged`: a live update rewrites the command a request is
  about and the request stays (`control/service.go:1691`;
  `specs/009-state-changing-menu-commands/data-model.md:187`). The decision then fails.
* `TerminalControl!ActivationReadsTheDocument`: the switch dialog holds the command states of the
  moment it was raised; after a reset its answer shows the command as completed again
  (`control/service.go:1194`; `data-model.md:192` of the same feature).
* A save that is queued when the groups are replaced is written later with the groups of its
  acceptance (`session/service.go:681`), although
  `specs/020-terminal-grouping/data-model.md:108` says that a full save cannot replace them.
* Completions of the commands that change one entry may be refused depending on their order: only
  no change, all of them and those completed now are checked against the limit (`domain/validate.go:875`);
  `specs/033-entry-content-state/spec.md:118` (FR-006) has them in any order. And giving a completed
  command an entry change in the editor has every save refused until it is reset.
* `ReplaceTerminalGroups` accepts an empty group set, which `ValidateSession` takes for an old
  document, while the file gets singleton groups, whatever transitions cross them
  (`specs/020-terminal-grouping/data-model.md:13`). `RegroupingsAreExact` leaves that set out.
* A key that differs from a field in case only, and sorts after it, is kept as an unknown field and
  read as the known one: an edit of that field is lost when the file is read again
  (`domain/json.go:228`, `:242`; `specs/005-connectrpc-protobuf-migration/spec.md:189`).
  `FieldsSurvive` says so exactly.
* `PublicAccess!GenerationNeverGoesBack`: Start does not wait for a Stop that is under way, which
  then puts its own, older generation back (`specs/007-embedded-ngrok-access/data-model.md:116` and the comment at
  `app.go:1185` have it increase).
* `PlayerStreams!OlderGenerationsAreSilent`: the worker of an uplink looks whether it is current
  and dispatches after that, so an older generation can still move the cursor once
  (`player/handler.go:258`; `specs/019-http2-presentation-streaming/spec.md:79`).
* `ApplicationUpdate!RestoredApplicationReports`: the helper starts the restored version before it
  records the failure (`update/helper.go:230`), so that version may read that the update was
  interrupted; `specs/024-application-self-update/contracts/update-release.md:124` and `:142` have
  the record first.
* `ReleaseContract!GatesAgree` leaves Windows out. `specs/024-application-self-update/spec.md:108`
  (FR-024) has updates on amd64 and arm64, and the check offers them. The package must have its executable with mode `0755` (`update/staging.go:200`),
  but Go reports `0666` or `0444` for files of Windows, so no package is accepted there; and the
  helper refuses arm64 (`update/helper.go:362`).
* `HandoverIsContained` leaves out a unit that holds the temporary directory: the comment at
  `update/helper.go:118` has the helper copied outside of the replacement unit, which is not checked.
* Approval notifications (`specs/028-interactive-approval-notifications/spec.md:84`, FR-001, FR-008, FR-011): the late answer of a
  command shows the service an older state. A notification may then be taken down, come back or be
  sent twice. `RequestsAreAnnounced` excuses requests `overtaken` in this way. `data-model.md` of that
  feature also discards native operations queued after the stop, which `authorize` does not.
* The comment at `app.go:1481` has `ReplaceTerminalGroups` publish the new groups before the
  coordinator's revision. The commit publishes the coordinator's state under its mutex, and the
  session follows (`ReplaceTerminalGroups` and `FinishGroups` of DesktopApplication).
* Not in a module: `player/handler.go:294` reads the number of streams and reports it without a
  lock, so an older count may be shown last (`specs/005-connectrpc-protobuf-migration/plan.md:159`); `App.ForceHackSuccess`
  publishes its hack state again after the coordinator's lock and may overwrite a newer one; the
  Overseer's window replaces its document by an event with a newer revision while a save of its
  own is under way (`overseer.js:437`), and the edit is lost there.

## Proofs

Each theorem holds for every value of the constants that the named assumption admits, so for any
number of sessions, terminals, saves, attempts or launches, where the runs look at the two or three
of their instance. The invariants behind them were checked by TLC before they were proved.

### CoordinatorProofs

From Coordination's `ConstantsAssumption` and `RecordAssumption`:

* `TypeCorrect`: `TypeOK` is inductive with the help of two lemmas on the cache and two on lookups.
* `ClaimsAlwaysConsistent`, through `ClaimsInv`. None of its three parts is inductive alone: that
  a move clears the former holder, and that a release takes the control along, needs the two
  indexes to agree beforehand, since `CharacterOwner` and `SessionAssigned` consult both.
* `SessionsAlwaysStayApart`, through `SessionsInv`: labels are unique because `nextFallbackName`
  takes one that nobody in the broadcast has, and a connection is in the index of at most one
  session because its id was never handed out before. An action in flight is therefore that of the
  session its connection still belongs to, or of none.
* `ControlOnlyMovesExplicitly`, an action property, from the same claims.
* `RequestsAlwaysRunOnce` and `ReplaysAlwaysFaithful`, through `ReplayInv`: a request that has
  taken effect is still in the cache, or its broadcast is over. The cache may be emptied between
  broadcasts only because a request names its broadcast and ids of broadcasts never return.

From PlayerStreams' `BoundsAssumption`, for every number of streams, generations, changes and requests, every
queue and every window, through one invariant `PageInv` of two parts:

* `StreamTypesAlways` and `RegistrationsAlwaysServed`, by `RegistrationsInv`, which says what the
  hub, the handlers, the receivers and the workers know of one another: an uplink belongs to the
  stream its client is registered with, a handler that has left has been unregistered, a lease that
  was let go of is closed. It never looks at a message.
* `StreamsAlwaysCurrent`, by `UpdatesInv`, which says of each stream what lies between the
  coordinator and the page: revisions grow along the connection and then along the queue, and a
  registered stream still carries the current state or has brought it. The property's other half,
  that what a page shows only advances, needs that order.

From HackPuzzle's `BoardAssumption` and LockedTerminal's `TreeAssumption` and `NilAssumption`, for every
set of terminals, drafts and boards, through `TerminalsInv`:

* Every action is first shown to be a `Transaction`: it leaves the puzzle of a terminal as it is,
  lets it go, plays the one that is shown or draws a new one. That a transaction keeps the invariant is
  then proved once, and not for each of the actions.
* `CursorIsAlwaysValid`: `compoundUpdateLocked` repairs the cursor for what is shown after the
  transaction, so each action is followed through that repair. The lemmas before it are about the
  places of a tree and about the spans of a board.
* `AuditAlwaysFollowsThePuzzles`: puzzles have numbers of their own, so an event that
  `recordAuditEvents` derives reaches the one puzzle it is about, and the log has no outcome for a
  number that was not drawn (`LogInv`).
* `PuzzlesAlwaysStayFair`, an action property: whatever is played, `Advance` describes what may
  change of a board. What a player has left is counted with `Cardinality` over the finitely many
  brackets of the board, without induction over the spans.
* `TerminalsAreSound` is the invariant itself.

### TerminalControlProofs, from `TerminalAssumption`

* `TypeCorrect` and `TerminalsAlwaysConsistent`, through `Inv`, which adds to both that the layout
  is well-formed and that a request for a navigation is about the point it would push or pop. The layout is
  what makes regrouping keep the types: removing a terminal closes the gap it leaves, replacing the
  groups puts every terminal somewhere. Actions that only touch one checkpoint share `Steady`.
* `OutcomesAlwaysStand`: a puzzle keeps its outcome, and what players see as completed is so in
  the document.
* `RequestsAlwaysDecidable`: only the two steps the property excuses, the answer to a switch dialog
  and the reset of a failed puzzle, can take away what a request is about and leave the request.
* `RouteAlwaysWalkable`: transitions, returns, activations and regroupings each keep every point of the
  route valid for the one after it; what may cut the way back is a switch decision, a deleted terminal,
  and the save that falls between the check and the lookup of an approved return (`ReturnGone`).

### SessionStoreProofs, from `SessionAssumption`

* `TypeCorrect`, and `SavedRevisionMonotone`: `Spec => SavedRevisionNeverGoesBack`, both from
  `StoreConsistent`, the invariant `Consistent`. It adds to the types what they need: whoever
  waits is a known call or the one mutation that holds `commandMu` (else the answer would be given
  to an operation that is not there), an operation on the document has one, and the revision shown
  is `durable` of the epoch. The last makes the order provable: `finishPayload` shows the newest
  durable revision whatever the payload's own number is, and a replacement of groups counts on
  from a revision it has compared. The queue's batch is counted with `Cardinality` so that the
  provers can place it in the queue without induction (`BatchInQueue`).
* `SavedIsAlwaysInTheFile` and `FailedMutationsAreUndone`, through `StoreInv`, that is
  `Consistent /\ (overlapped \/ Kept)`. `Kept` says where the newest document is: under way, or in
  the file when nothing is. A mutation's payload is the last one until it is answered, because
  `commandMu` keeps other mutations out and `documentMu` keeps saves out, and it carries what is to
  be put back when its write fails. As in the run, nothing is claimed once `overlapped`.

### PublicAccessProofs, from `BoundsAssumption`

* `TypeAlwaysOK`, `StatusAlwaysTrue` and `RuntimesAlwaysOwned`, through one `Inv` that follows a
  tunnel from hand to hand: it belongs to its start until that is settled, then to the manager, and
  those who have captured it to close it hold nothing newer than the manager does. While a Stop or
  a reconfiguration is open no start can succeed: the one it waits for was cancelled, and one that
  begins later finds its context cancelled before it has opened anything (`Dud`).
* `CancelledStartsStayDown`: a start that was cancelled never makes the status ready.
* `CommitsAreCurrent`: the generation a reconfiguration captured is still current when it commits.
  So the check in the code never refuses there.

### PublicSettingsProofs, from `PublicSettingsAssumption`

* `TypeAlwaysOK`, with the row of calls each backend plans (`PlanOf`) followed to its end on any
  system, and the tasks of a command in the order they are taken (`Ordered`).
* `SettingsAlwaysSurvive`: `FileKept` counts which of the tasks of a replacement are left; the file
  at its name is whole at each of them, and what a loss of power may leave of it is the old one
  or the new one (lemma `CutOff`).
* `SecretsAlwaysFollowTheAnswers`: `SecretKept` says for each secret what the keyring may hold while
  its change is still to come, under way, or past, whatever was refused, ran out of time or was
  answered at a prompt nobody waits for.

### ApprovalNotificationsProofs, from `BoundsAssumption` and `NoneAssumption`

* `AlwaysAnnouncedOnce`: of the goroutines in the bag at most one may still announce a given
  request, and only while nothing has been sent for it (`Claimed`); and the service's
  current record is the coordinator's request unless a late answer has overtaken it (`Latest`).
* `NothingEverAfterStop`: after the stop no observation, authorization or click starts the service
  again, and after the shutdown nothing is added to the desktop (`Silent`).

### ApplicationUpdateProofs, from `BoundsAssumption` and `PagesAssumption`

* `InstallationIsAlwaysKept`: `Spec => Replacement!Spec`, the refinement: every step of the
  processes, their failures and crashes included, is a step of Installation or a stutter, under
  `Replacement == INSTANCE Installation`. `ApplicationAlwaysSurvives` carries what Installation
  promises back to the implementation.
* `ReplacementAlwaysSafe`, with its two parts `ReadyUnitIsAlwaysComplete` and `ReplacementAlwaysWaits`.
* These rest on `InvAlways`. One half of the invariant follows the prepared unit from the copy
  to the helper: who may write it at which point, and that a helper past its wait has no parent.
  The other says where copies are kept: a helper between setting the unit aside and starting the
  new one holds a usable backup, or one that has ended does for good; and what is held by helpers
  about to discard it is never the only usable copy.
* `OutcomesAlwaysStand`: what a launch has shown as the outcome stays for that launch; it needs
  that nothing is shown before the launch has read the record (`Unread`).
* `FailureAlwaysLeavesAnApplication`: after a failure there is something to start, overlapping
  helpers included (`Left`).
* `FailuresAlwaysTold`, for `~HelpersMayOverlap` and `NothingNewer`. Without the first, the record
  may be overwritten (see ApplicationUpdate). The second says that nothing is offered to a
  launch of the version called `New`, which stands for the newest one; else a launch that has not
  told its predecessor's failure could begin an attempt. The instance satisfies both. The theorem
  says where the news of a failure is at any time: in the record, held by the running launch whose window has yet
  to ask, or shown; and that it is lost in the two ways described above and no other. The invariant
  `News`: one helper is at work at a time and the record is not of another attempt (`OneAtWork`); the record of an
  attempt whose news no launch has taken up stays until a launch reads it (`Heard`); and while a launch holds
  news, its manager shows a failure and its window has not asked (`Holds`).
* `VersionsAlwaysOrdered`: the comparison of versions is a strict total order on all of them. The
  three comparisons of sequences in it are instances of one (`Lexical`), of which the lemmas say
  that it orders sequences when it is given an order of their elements.
* `ReleasesAlwaysTrusted`, for any releases, archives and paths with three properties, all of which the instance has.
  `ReleaseData`: `Ascending` lists versions from old to new, and releases are of those.
  `ArchiveData`: the workflow's archives are intact (`Intact`), and no other archive is.
  `LayoutData`: no path has a part with the names made up for the prepared unit and the backup.
  The check reads every release, since the pages up to the first short one cover the history
  (`WholeHistory`). That `ArchiveData` is assumed means that a forged package is not what this is
  about: the theorem says that the gate tells apart what may be found in a release.

### DesktopApplicationProofs, from `DesktopAssumption`

* `TypesAlways`, `StateAlwaysCurrent`, `RosterAlwaysOfOpenDocument` and `ReleasesAlwaysTried`,
  through one `Inv`, of which TLC checked the instance first. A commit publishes while nobody can
  overtake it, so nothing said of the coordinator anywhere (`Past`) is newer than what it is, and a
  second publication that comes late changes nothing. While the page does not show the newest
  state, that state is in an event on its way or in the status call of the reload (`Arriving`).
* For the roster the invariant follows a config from the reading of its file over its association
  with the open document to its installation (`Rosters`); that no broadcast starts and no other
  document is opened meanwhile is `coordinationCommandMu`.
* For the shutdown it says what has been tried at each step of `shutdownLocked` (`Tried`), and that
  no page is left to ask for anything when the coordinator is cleared (`Listening`): a command of
  the window that is still in flight then finds no config and starts no broadcast (`Silent`).
* `DocumentsAlwaysAgree` has an invariant of its own, `Documents`, on top of `Inv`. `Open`: what the page
  shows or is opening is the file the store has open. `News`: no event or answer is ahead of the
  document. `Agreement`: whatever differs between the page's document and the open file is on its
  way to one of the two: a text in a save, a player config in the answer of a call, the rest in an
  event. A save carries no version, so `Agreement` is claimed only until an edit and somebody else's
  change have overtaken each other (`crossed`). Steps that leave documents alone share one
  argument (`Calm`).
* The steps of calls and saves share one argument (`Serves`): they do not take the coordinator
  back, the page hears of what changed, and the call goes on or ends. The answers a call carries
  are one record for all commands, so its type is part of `Inv`.

### What is only model-checked

* Liveness under fairness, which is out of the prover's reach: `CallersAreAnswered`,
  `PageCatchesUp`, `UplinksSettle`, `CallsAreAnswered`, `CommandsEnd`, `RequestsAreAnnounced`,
  `NotificationsSettle`, `UpdatesEnd`.
* `DocumentsAreSound`, which is about what the operators of SessionDocument compute over all documents.
  Several are recursive, and what a recursive definition computes for all inputs needs an
  induction the provers cannot make.
* Which boards `Publishable` admits. The theorems about puzzles hold of any placed board, whether it
  would be published or not.


## Not modelled

* Generated code (`internal/gen`), the translation of messages that hold no document
  (`player/adapter.go`, most of `app_contract.go`), the bytes of JSON, limits of single fields,
  rate and size limits, routes: formats and bounds of single values that no behaviour above depends
  on.
* Of `App`: the path without a public access manager, `OpenURL`, the log's location; the Overseer's
  side of the dialogs.
* The format of the settings file, paths of the platforms, the retained
  log; build and release tooling, fixtures and tests.
