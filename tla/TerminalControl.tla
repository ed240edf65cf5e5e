--------------------------- MODULE TerminalControl ---------------------------
(***************************************************************************)
(* The terminals of one broadcast: which one is active, the checkpoint     *)
(* each keeps, the three decisions the Overseer may be asked for (leave an *)
(* unfinished puzzle, execute a command, follow a terminal transition) and *)
(* the route back.  internal/control/service.go decides, internal/live     *)
(* builds and repairs checkpoints, and the session document of             *)
(* internal/session supplies trees, groups and command states; document    *)
(* edits do not take the coordinator's lock, so they fall between its      *)
(* steps.  Player actions here are those Coordination has authorised.  The *)
(* opaque decision ids are fresh for every decision, so a late decision    *)
(* meets another id and changes nothing: it is no action.                  *)
(***************************************************************************)
EXTENDS Naturals, Sequences, FiniteSets

CONSTANTS
  Terminal,    \* terminal ids
  Group,       \* terminal group ids
  Locked,      \* terminals authored with a hack level
  Draft,       \* Draft[t]: the trees the Overseer may author for t
  Layout,      \* the groups of the session the program opens
  MaxRoute,    \* bound: return points on the route
  None

Tree == [command : Nat, stateful : BOOLEAN, link : Terminal \cup {None}]
Place == [group : Group, position : Nat]

\* ValidateSession: groups are ordered, gapless and share no member.
WellFormed(layout) ==
  /\ \A t \in Terminal : layout[t] # None =>
       \A k \in 0 .. layout[t].position - 1 :
         \E u \in Terminal : layout[u] = [group |-> layout[t].group, position |-> k]
  /\ \A t, u \in Terminal : layout[t] = layout[u] /\ layout[t] # None => t = u

Target == [terminal : Terminal, tree : Tree, done : BOOLEAN]

\* "denied" is the rejected screen of a transition command, "rejected" that of the
\* terminal's own command; "result" shows the result of the own command at the root.
Runtime ==
  [active : BOOLEAN, tree : Tree, done : BOOLEAN, nav : {"root", "inner", "result"},
   hack : {"open", "playing", "solved", "failed"},
   exec : {"none", "pending", "rejected", "denied"}]

Point == [terminal : Terminal, level : {"root", "inner"}, origin : {"authored", "prefix"},
          place : Place \cup {None}]

Command    == [terminal : Terminal, command : Nat, mode : {"ordinary", "stateChange", "completed"}]
Navigation == [direction : {"forward", "return"}, source : Terminal, target : Terminal, point : Point]
Asked      == [terminal : Terminal, done : BOOLEAN]
Switch     == [source : Terminal, target : Target \cup {None}]
Initial    == [terminal : Terminal, place : Place]

ASSUME TerminalAssumption ==
  /\ IsFiniteSet(Terminal)
  /\ None \notin Terminal \cup Group \cup Tree \cup Place
  /\ None \notin Target \cup Runtime \cup Command \cup Navigation \cup Asked \cup Switch \cup Initial
  /\ Locked \subseteq Terminal
  /\ Draft \in [Terminal -> SUBSET Tree]
  /\ Layout \in [Terminal -> Place] /\ WellFormed(Layout)
  /\ MaxRoute \in Nat

VARIABLES
  catalog,            \* the authored tree of every terminal of the session document
  place,              \* its terminal group and position
  done,               \* its CommandStates: terminals whose command is completed
  broadcast,          \* Broadcast # nil
  active,             \* ActiveTerminalID
  runtimes,           \* TerminalRuntimes
  route,              \* Route, the latest return point last
  established,        \* InitialTerminalEstablished
  initial,            \* InitialTerminalID with its group and position
  pendingSwitch,      \* PendingSwitch
  pendingCommand,     \* PendingCommandExecution
  pendingNavigation,  \* PendingTerminalNavigation
  notice,             \* TerminalNavigationNotice # nil
  asked               \* the desktop call that has read a terminal's command states

document == <<catalog, place, done>>
course   == <<route, established, initial>>
requests == <<pendingCommand, pendingNavigation, notice>>
vars == <<document, broadcast, active, runtimes, course, pendingSwitch, requests, asked>>

-----------------------------------------------------------------------------
(* Targets, checkpoints and return points.                                 *)

\* LookupTerminal: what the session document holds right now.
Latest(t) == [terminal |-> t, tree |-> catalog[t], done |-> t \in done]

CreateRuntime(target) ==
  [active |-> TRUE, tree |-> target.tree, done |-> target.done, nav |-> "root",
   hack |-> IF target.terminal \in Locked THEN "playing" ELSE "open", exec |-> "none"]

\* nav.Revalidate: a level or a result whose node is gone falls back to the root.
Revalidated(nav, tree) ==
  IF (nav = "inner" /\ tree.link = None) \/ (nav = "result" /\ tree.command = 0) THEN "root" ELSE nav

UpdateRuntime(r, target) ==
  [r EXCEPT !.tree = target.tree, !.done = target.done, !.nav = Revalidated(@, target.tree)]

\* Mutant of ReactivateRuntime: coming back means starting afresh.
RestartedRuntime(r, target) == CreateRuntime(target)

ReactivateRuntime(r, target) ==
  [UpdateRuntime(r, target) EXCEPT !.active = TRUE, !.exec = "none"]

Entered(r, target) == IF r = None THEN CreateRuntime(target) ELSE ReactivateRuntime(r, target)

Suspended(r) == [r EXCEPT !.active = FALSE]

Unfinished(t) == t # None /\ runtimes[t].hack = "playing"

Mode(r) ==
  CASE ~r.tree.stateful -> "ordinary"
    [] r.tree.stateful /\ r.done -> "completed"
    [] OTHER -> "stateChange"

Last(points) == points[Len(points)]

Front(points) == SubSeq(points, 1, Len(points) - 1)

SameTerminalGroup(s, t) ==
  place[s] # None /\ place[t] # None /\ place[s].group = place[t].group

\* A return point of the initial prefix also needs its exact place and its successor.
ValidTerminalReturnPoint(s, point) ==
  /\ SameTerminalGroup(s, point.terminal)
  /\ point.origin = "prefix" =>
       /\ place[point.terminal] = point.place
       /\ place[s].position = point.place.position + 1

\* LookupTerminalTransition, and the group check that follows it.
TransitionTo(s, t) ==
  /\ catalog[s] # None /\ catalog[s].link = t
  /\ t # s /\ t \in Terminal /\ catalog[t] # None
  /\ SameTerminalGroup(s, t)

\* clearCommandExecutionRuntime
Quiet(rs) == [t \in Terminal |-> IF rs[t] = None THEN None ELSE [rs[t] EXCEPT !.exec = "none"]]

ClearedRequests == pendingCommand' = None /\ pendingNavigation' = None /\ notice' = FALSE

\* establishInitialTerminalRoute: the members that precede t in its group.
Prefix(t) ==
  [k \in 1 .. place[t].position |->
     [terminal |-> CHOOSE u \in Terminal : place[u] = [group |-> place[t].group, position |-> k - 1],
      level |-> "root", origin |-> "prefix",
      place |-> [group |-> place[t].group, position |-> k - 1]]]

EstablishedAt(t) ==
  /\ established' = TRUE
  /\ IF established \/ place[t] = None
     THEN route' = <<>> /\ UNCHANGED initial
     ELSE route' = Prefix(t) /\ initial' = [terminal |-> t, place |-> place[t]]

-----------------------------------------------------------------------------
Init ==
  /\ catalog \in {c \in [Terminal -> UNION {Draft[t] : t \in Terminal}] :
                    \A t \in Terminal : c[t] \in Draft[t]}
  /\ place = Layout /\ done = {}
  /\ broadcast = FALSE /\ active = None
  /\ runtimes = [t \in Terminal |-> None]
  /\ route = <<>> /\ established = FALSE /\ initial = None
  /\ pendingSwitch = None
  /\ pendingCommand = None /\ pendingNavigation = None /\ notice = FALSE
  /\ asked = None

NoTerminals ==
  /\ active' = None
  /\ runtimes' = [t \in Terminal |-> None]
  /\ route' = <<>> /\ established' = FALSE /\ initial' = None

\* PendingCommandExecution is left as it is.
StartBroadcast ==
  /\ ~broadcast
  /\ broadcast' = TRUE
  /\ NoTerminals
  /\ pendingSwitch' = None /\ pendingNavigation' = None /\ notice' = FALSE
  /\ UNCHANGED <<document, pendingCommand, asked>>

EndBroadcast ==
  /\ broadcast
  /\ broadcast' = FALSE
  /\ NoTerminals
  /\ pendingSwitch' = None
  /\ ClearedRequests
  /\ UNCHANGED <<document, asked>>

-----------------------------------------------------------------------------
(* The Overseer puts a terminal on, takes it off, and answers for an        *)
(* unfinished puzzle.  Activating a terminal and resetting a failed puzzle  *)
(* read the command states of the document first and take the coordinator's *)
(* lock later; what happens in between does not reach the call (App).       *)

\* canonicalCommandStates.  Bound: one call at a time is between its two steps.
ReadCommandStates(t) ==
  /\ asked = None
  /\ asked' = [terminal |-> t, done |-> t \in done]
  /\ UNCHANGED <<document, broadcast, active, runtimes, course, pendingSwitch, requests>>

\* Without a broadcast the call is refused.
ActivationRefused ==
  /\ asked # None /\ ~broadcast
  /\ asked' = None
  /\ UNCHANGED <<document, broadcast, active, runtimes, course, pendingSwitch, requests>>

\* What such a call may ask for: the tree is whatever the editor holds.
Payload ==
  IF asked = None THEN {}
  ELSE {[terminal |-> asked.terminal, tree |-> tree, done |-> asked.done] : tree \in Draft[asked.terminal]}

\* RequestTerminalActivation and RequestTerminalClear at an unfinished puzzle.
RaiseSwitch(target) ==
  /\ broadcast /\ Unfinished(active)
  /\ target # None => target.terminal # active
  /\ pendingSwitch' = [source |-> active, target |-> target]
  /\ runtimes' = Quiet(runtimes)
  /\ ClearedRequests
  /\ route' = <<>>
  /\ asked' = IF target = None THEN asked ELSE None
  /\ UNCHANGED <<document, broadcast, active, established, initial>>

\* Mutant of RequestTerminalActivation: an outstanding command stays outstanding.
ActivationKeepingCommand(target) ==
  LET t == target.terminal
      quiet == Quiet(runtimes) IN
  /\ broadcast /\ ~(Unfinished(active) /\ active # t)
  /\ runtimes' = [u \in Terminal |->
                    CASE u = t -> Entered(runtimes[t], target)
                      [] u # t /\ u = active -> Suspended(quiet[u])
                      [] OTHER -> quiet[u]]
  /\ active' = t
  /\ EstablishedAt(t)
  /\ pendingSwitch' = None /\ pendingNavigation' = None /\ notice' = FALSE /\ asked' = None
  /\ UNCHANGED <<document, broadcast, pendingCommand>>

\* Mutant of RequestTerminalActivation: the terminal that was active runs on.
ActivationBesideActive(target) ==
  LET t == target.terminal IN
  /\ broadcast /\ ~(Unfinished(active) /\ active # t)
  /\ runtimes' = [Quiet(runtimes) EXCEPT ![t] = Entered(runtimes[t], target)]
  /\ active' = t
  /\ EstablishedAt(t)
  /\ pendingSwitch' = None /\ ClearedRequests /\ asked' = None
  /\ UNCHANGED <<document, broadcast>>

RequestTerminalActivation(target) ==
  LET t == target.terminal
      quiet == Quiet(runtimes) IN
  /\ broadcast /\ ~(Unfinished(active) /\ active # t)
  /\ runtimes' = [u \in Terminal |->
                    CASE u = t -> Entered(runtimes[t], target)
                      [] u # t /\ u = active -> Suspended(quiet[u])
                      [] OTHER -> quiet[u]]
  /\ active' = t
  /\ EstablishedAt(t)
  /\ pendingSwitch' = None /\ asked' = None
  /\ ClearedRequests
  /\ UNCHANGED <<document, broadcast>>

RequestTerminalClear ==
  /\ broadcast /\ active # None /\ ~Unfinished(active)
  /\ runtimes' = [Quiet(runtimes) EXCEPT ![active].active = FALSE]
  /\ active' = None /\ route' = <<>>
  /\ pendingSwitch' = None
  /\ ClearedRequests
  /\ UNCHANGED <<document, broadcast, established, initial, asked>>

\* RequestTerminalClear with no active terminal commits only for the navigation part.
ClearNavigation ==
  /\ broadcast /\ active = None
  /\ pendingNavigation # None \/ notice \/ route # <<>>
  /\ runtimes' = Quiet(runtimes)
  /\ route' = <<>>
  /\ ClearedRequests
  /\ UNCHANGED <<document, broadcast, active, established, initial, pendingSwitch, asked>>

CanResolveSwitch == broadcast /\ pendingSwitch # None /\ active = pendingSwitch.source

CancelTerminalSwitch ==
  /\ CanResolveSwitch
  /\ pendingSwitch' = None
  /\ UNCHANGED <<document, broadcast, active, runtimes, course, requests, asked>>

\* ResolveTerminalSwitch, preserve or discard: the target is the one captured when
\* the decision was raised, and neither the requests nor the route are touched.
ResolveTerminalSwitch(preserve) ==
  LET target == pendingSwitch.target
      left == [runtimes EXCEPT ![active] = IF preserve THEN Suspended(@) ELSE None] IN
  /\ CanResolveSwitch
  /\ IF target = None
     THEN active' = None /\ runtimes' = left
     ELSE /\ active' = target.terminal
          /\ runtimes' = [left EXCEPT ![target.terminal] = Entered(@, target)]
  /\ pendingSwitch' = None
  /\ UNCHANGED <<document, broadcast, course, requests, asked>>

ForceHackSuccess ==
  /\ broadcast /\ Unfinished(active)
  /\ runtimes' = [runtimes EXCEPT ![active].hack = "solved"]
  /\ UNCHANGED <<document, broadcast, active, course, pendingSwitch, requests, asked>>

ResetFailedHack(target) ==
  /\ broadcast /\ active \in Locked /\ runtimes[active].hack = "failed"
  /\ target.terminal = active
  /\ runtimes' = [runtimes EXCEPT ![active] = CreateRuntime(target)]
  /\ asked' = None
  /\ UNCHANGED <<document, broadcast, active, course, pendingSwitch, requests>>

\* The payload comes from the editor; the checkpoint keeps its own command states.
UpdateLiveTerminal(tree) ==
  /\ broadcast /\ active # None
  /\ runtimes' = [runtimes EXCEPT ![active] =
       UpdateRuntime(@, [terminal |-> active, tree |-> tree, done |-> @.done])]
  /\ UNCHANGED <<document, broadcast, active, course, pendingSwitch, requests, asked>>

-----------------------------------------------------------------------------
(* The controller's actions on the active terminal.                         *)

CanAct == broadcast /\ active # None /\ pendingCommand = None /\ pendingNavigation = None

ApplyGuess(outcome) ==
  /\ CanAct /\ runtimes[active].exec = "none" /\ Unfinished(active)
  /\ runtimes' = [runtimes EXCEPT ![active].hack = outcome]
  /\ UNCHANGED <<document, broadcast, active, course, pendingSwitch, requests, asked>>

EnterFolder ==
  /\ CanAct /\ runtimes[active].exec = "none"
  /\ runtimes[active].nav # "inner" /\ runtimes[active].tree.link # None
  /\ runtimes' = [runtimes EXCEPT ![active].nav = "inner"]
  /\ UNCHANGED <<document, broadcast, active, course, pendingSwitch, requests, asked>>

\* Back clears a rejected screen and leaves a folder or a result, in one step.
GoBack ==
  /\ CanAct /\ runtimes[active].exec # "pending"
  /\ runtimes[active].nav # "root" \/ runtimes[active].exec # "none"
  /\ runtimes' = [runtimes EXCEPT ![active].nav = "root", ![active].exec = "none"]
  /\ UNCHANGED <<document, broadcast, active, course, pendingSwitch, requests, asked>>

\* Back at the root menu with return points left: beginTerminalReturn.
RequestTerminalReturn ==
  /\ CanAct /\ route # <<>>
  /\ runtimes[active].nav = "root" /\ runtimes[active].exec = "none"
  /\ ValidTerminalReturnPoint(active, Last(route))
  /\ pendingNavigation' = [direction |-> "return", source |-> active,
                           target |-> Last(route).terminal, point |-> Last(route)]
  /\ notice' = FALSE
  /\ UNCHANGED <<document, broadcast, active, runtimes, course, pendingSwitch, pendingCommand, asked>>

\* A transition command, beginTerminalTransition.
RequestTerminalTransition ==
  LET link == runtimes[active].tree.link IN
  /\ CanAct /\ runtimes[active].nav = "inner" /\ link # None
  /\ TransitionTo(active, link)
  /\ pendingNavigation' =
       [direction |-> "forward", source |-> active, target |-> link,
        point |-> [terminal |-> active, level |-> "inner", origin |-> "authored", place |-> None]]
  /\ notice' = FALSE
  /\ UNCHANGED <<document, broadcast, active, runtimes, course, pendingSwitch, pendingCommand, asked>>

\* A transition command whose target the document no longer offers.
RefuseTerminalTransition ==
  /\ CanAct /\ runtimes[active].nav = "inner" /\ runtimes[active].tree.link # None
  /\ ~TransitionTo(active, runtimes[active].tree.link)
  /\ notice' = TRUE
  /\ UNCHANGED <<document, broadcast, active, runtimes, course, pendingSwitch,
                 pendingCommand, pendingNavigation, asked>>

RequestCommand ==
  LET r == runtimes[active] IN
  /\ CanAct /\ r.nav # "inner" /\ r.tree.command # 0
  /\ pendingCommand' = [terminal |-> active, command |-> r.tree.command, mode |-> Mode(r)]
  /\ runtimes' = [runtimes EXCEPT ![active].exec = "pending"]
  /\ UNCHANGED <<document, broadcast, active, course, pendingSwitch, pendingNavigation, notice, asked>>

-----------------------------------------------------------------------------
(* The Overseer decides on a command.                                       *)

\* currentPendingCommandExecution: anything else is a stale decision.
Decidable ==
  /\ broadcast /\ pendingCommand # None /\ active = pendingCommand.terminal
  /\ runtimes[active].exec = "pending"

\* The command is still the one the decision was asked about.
StillAuthored ==
  /\ runtimes[active].nav # "inner"
  /\ runtimes[active].tree.command # 0
  /\ runtimes[active].tree.command = pendingCommand.command
  /\ Mode(runtimes[active]) = pendingCommand.mode

Decided(change) ==
  /\ runtimes' = [runtimes EXCEPT ![active] = change]
  /\ pendingCommand' = None
  /\ UNCHANGED <<catalog, place, broadcast, active, course, pendingSwitch, pendingNavigation, notice, asked>>

RejectCommand ==
  /\ Decidable /\ StillAuthored
  /\ Decided([runtimes[active] EXCEPT !.exec = "rejected"])
  /\ UNCHANGED done

\* An ordinary or already completed command only shows its result.
ShowCommand ==
  /\ Decidable /\ StillAuthored /\ pendingCommand.mode # "stateChange"
  /\ Decided([runtimes[active] EXCEPT !.exec = "none", !.nav = "result"])
  /\ UNCHANGED done

\* ExecuteCommandState accepts the command and the write is durable before the reply.
CanExecute == catalog[active] # None /\ catalog[active].stateful /\ catalog[active].command # 0

\* Mutant of ExecuteCommand: the completed state is shown whether or not it was saved.
ExecuteCommandUnsaved ==
  /\ Decidable /\ StillAuthored /\ pendingCommand.mode = "stateChange"
  /\ Decided([runtimes[active] EXCEPT !.exec = "none", !.nav = "result", !.done = TRUE])
  /\ done' = IF CanExecute THEN done \cup {active} ELSE done

ExecuteCommand ==
  /\ Decidable /\ StillAuthored /\ pendingCommand.mode = "stateChange"
  /\ CanExecute
  /\ Decided([runtimes[active] EXCEPT !.exec = "none", !.nav = "result", !.done = TRUE])
  /\ done' = done \cup {active}

\* failPendingCommandExecution: the store failed or refused, or it stored a command
\* that no longer matches the one on the checkpoint.
FailCommand ==
  /\ Decidable /\ StillAuthored /\ pendingCommand.mode = "stateChange"
  /\ Decided([runtimes[active] EXCEPT !.exec = "none"])
  /\ \/ UNCHANGED done
     \/ /\ CanExecute /\ catalog[active].command # pendingCommand.command
        /\ done' = done \cup {active}

\* ResetCommandState and, when wide, ResetTerminalCommandStates.
ResetCommandStates(t, wide) ==
  LET r == runtimes[t]
      affected == r # None /\ (wide => r.done) IN
  /\ t \in done /\ catalog[t] # None
  /\ wide \/ (catalog[t].stateful /\ catalog[t].command # 0)
  /\ done' = done \ {t}
  /\ runtimes' =
       IF r = None THEN runtimes ELSE
       [runtimes EXCEPT
          ![t].done = FALSE,
          ![t].nav  = IF affected /\ @ = "result" THEN "root" ELSE @,
          ![t].exec = IF affected /\ @ # "denied" THEN "none" ELSE @]
  /\ pendingCommand' = IF affected /\ pendingCommand # None /\ pendingCommand.terminal = t
                       THEN None ELSE pendingCommand
  /\ UNCHANGED <<catalog, place, broadcast, active, course, pendingSwitch, pendingNavigation, notice, asked>>

-----------------------------------------------------------------------------
(* The Overseer decides on a transition or a return.                        *)

CanResolveNavigation ==
  broadcast /\ pendingNavigation # None /\ active = pendingNavigation.source

RejectNavigation ==
  /\ CanResolveNavigation
  /\ runtimes' = IF pendingNavigation.direction = "return" THEN runtimes
                 ELSE [runtimes EXCEPT ![active].exec = "denied"]
  /\ pendingNavigation' = None /\ notice' = FALSE
  /\ UNCHANGED <<document, broadcast, active, course, pendingSwitch, pendingCommand, asked>>

\* The active terminal is suspended, then t is entered at the given level.
MovedTo(t, level) ==
  LET left == [runtimes EXCEPT ![active] = Suspended(@)] IN
  /\ active' = t
  /\ runtimes' = [left EXCEPT ![t] = [Entered(@, Latest(t)) EXCEPT !.nav = level]]
  /\ pendingNavigation' = None /\ notice' = FALSE
  /\ UNCHANGED <<document, broadcast, established, initial, pendingSwitch, pendingCommand, asked>>

ApproveTransition ==
  /\ CanResolveNavigation /\ pendingNavigation.direction = "forward"
  /\ TransitionTo(active, pendingNavigation.target)
  /\ Len(route) < MaxRoute
  /\ MovedTo(pendingNavigation.target, "root")
  /\ route' = Append(route, pendingNavigation.point)

ReturnStillOffered ==
  /\ CanResolveNavigation /\ pendingNavigation.direction = "return"
  /\ route # <<>> /\ Last(route) = pendingNavigation.point
  /\ ValidTerminalReturnPoint(active, pendingNavigation.point)

\* nav.RestoreFolder
Restored(point) ==
  IF point.level = "inner" /\ catalog[point.terminal].link # None THEN "inner" ELSE "root"

ApproveReturn ==
  /\ ReturnStillOffered
  /\ MovedTo(pendingNavigation.target, Restored(pendingNavigation.point))
  /\ route' = Front(route)

NavigationGone ==
  /\ pendingNavigation' = None /\ notice' = TRUE
  /\ UNCHANGED <<broadcast, active, runtimes, course, pendingSwitch, pendingCommand, asked>>

TransitionGone ==
  /\ CanResolveNavigation /\ pendingNavigation.direction = "forward"
  /\ ~TransitionTo(active, pendingNavigation.target)
  /\ NavigationGone
  /\ UNCHANGED document

-----------------------------------------------------------------------------
(* The session document.                                                    *)

\* Session.Save with one edited tree: a link may cross groups only if it already did.
EditTerminal(t, tree) ==
  /\ catalog[t] # None /\ catalog[t] # tree
  /\ \/ tree.link \in {None, catalog[t].link}
     \/ tree.link \notin {None, t} /\ catalog[tree.link] # None /\ SameTerminalGroup(t, tree.link)
  /\ t \in done => tree.stateful \/ tree.command = 0
  /\ catalog' = [catalog EXCEPT ![t] = tree]
  /\ done' = IF tree.command = 0 THEN done \ {t} ELSE done
  /\ UNCHANGED <<place, broadcast, active, runtimes, course, pendingSwitch, requests, asked>>

\* Session.Save without a terminal no link leads to; its group closes the gap.
Removed(t) ==
  /\ catalog[t] # None
  /\ \A u \in Terminal \ {t} : catalog[u] # None => catalog[u].link # t
  /\ catalog' = [catalog EXCEPT ![t] = None]
  /\ place' = [u \in Terminal |->
                 CASE u = t -> None
                   [] u # t /\ place[u] # None /\ place[u].group = place[t].group
                        /\ place[u].position > place[t].position
                      -> [place[u] EXCEPT !.position = @ - 1]
                   [] OTHER -> place[u]]
  /\ done' = done \ {t}

DeleteTerminal(t) ==
  /\ Removed(t)
  /\ UNCHANGED <<broadcast, active, runtimes, course, pendingSwitch, requests, asked>>

\* An approved return reads the document three times; a save that falls between the
\* check and the lookup takes the target away.
ReturnGone ==
  /\ ReturnStillOffered
  /\ Removed(pendingNavigation.target)
  /\ NavigationGone

\* ValidateTerminalGroupReplacement
CoherentLayout(layout) ==
  /\ \A t \in Terminal : (layout[t] = None) = (catalog[t] = None)
  /\ \A t \in Terminal : catalog[t] # None /\ catalog[t].link # None =>
       layout[catalog[t].link].group = layout[t].group
  /\ \A t \in Terminal : layout[t] # None =>
       LET alone(p) == \A u \in Terminal \ {t} : p[u] = None \/ p[u].group # p[t].group
       IN  alone(place) /\ alone(layout) => layout[t].group = place[t].group

\* validateRuntimeTerminalGroups, one return point of the route.
KeepsPoint(layout, i) ==
  LET point == route[i]
      next == IF i < Len(route) THEN route[i + 1].terminal ELSE active IN
  /\ layout[point.terminal] # None
  /\ layout[point.terminal].group = layout[active].group
  /\ point.origin = "prefix" =>
       /\ \A j \in 1 .. i - 1 : route[j].origin = "prefix"
       /\ point.place.position = i - 1
       /\ layout[point.terminal] = point.place
       /\ initial # None => /\ point.place.group = initial.place.group
                            /\ point.place.position < initial.place.position
       /\ layout[next] = [point.place EXCEPT !.position = @ + 1]

KeepsNavigation(layout) ==
  LET source == layout[pendingNavigation.source]
      target == layout[pendingNavigation.target] IN
  /\ source # None /\ target # None /\ source.group = target.group
  /\ pendingNavigation.direction = "return" =>
       /\ route # <<>> /\ Last(route) = pendingNavigation.point
       /\ pendingNavigation.point.origin = "prefix" =>
            /\ source.position = target.position + 1
            /\ pendingNavigation.point.place = target

\* Mutant of RuntimeAllows: only the pending decision is protected.
AllowsDecision(layout) == pendingNavigation # None => KeepsNavigation(layout)

\* validateRuntimeTerminalGroups
RuntimeAllows(layout) ==
  /\ broadcast /\ initial # None => layout[initial.terminal] = initial.place
  /\ pendingNavigation # None => KeepsNavigation(layout)
  /\ broadcast /\ active # None =>
       layout[active] # None /\ \A i \in 1 .. Len(route) : KeepsPoint(layout, i)

ReplaceTerminalGroups(layout) ==
  /\ layout # place /\ CoherentLayout(layout) /\ RuntimeAllows(layout)
  /\ place' = layout
  /\ UNCHANGED <<catalog, done, broadcast, active, runtimes, course, pendingSwitch, requests, asked>>

-----------------------------------------------------------------------------
Layouts ==
  {layout \in [Terminal -> [group : Group, position : 0 .. Cardinality(Terminal) - 1] \cup {None}] :
     WellFormed(layout)}

Overseer ==
  \/ StartBroadcast \/ EndBroadcast
  \/ \E t \in Terminal : ReadCommandStates(t)
  \/ ActivationRefused
  \/ \E target \in Payload :
       RaiseSwitch(target) \/ RequestTerminalActivation(target) \/ ResetFailedHack(target)
  \/ RaiseSwitch(None) \/ RequestTerminalClear \/ ClearNavigation \/ CancelTerminalSwitch
  \/ \E preserve \in BOOLEAN : ResolveTerminalSwitch(preserve)
  \/ ForceHackSuccess
  \/ active # None /\ \E tree \in Draft[active] : UpdateLiveTerminal(tree)

Player ==
  \/ \E outcome \in {"solved", "failed"} : ApplyGuess(outcome)
  \/ EnterFolder \/ GoBack
  \/ RequestTerminalReturn \/ RequestTerminalTransition \/ RefuseTerminalTransition
  \/ RequestCommand

Decisions ==
  \/ RejectCommand \/ ShowCommand \/ ExecuteCommand \/ FailCommand
  \/ RejectNavigation \/ ApproveTransition \/ ApproveReturn \/ TransitionGone \/ ReturnGone
  \/ \E t \in Terminal, wide \in BOOLEAN : ResetCommandStates(t, wide)

Document ==
  \/ \E t \in Terminal : DeleteTerminal(t) \/ \E tree \in Draft[t] : EditTerminal(t, tree)
  \/ \E layout \in Layouts : ReplaceTerminalGroups(layout)

Next == Overseer \/ Player \/ Decisions \/ Document

Spec == Init /\ [][Next]_vars

-----------------------------------------------------------------------------
(* Properties.                                                             *)

\* Every variable has its type, and a place is known for exactly the authored terminals.
TypeOK ==
  /\ catalog \in [Terminal -> Tree \cup {None}]
  /\ place \in [Terminal -> Place \cup {None}]
  /\ \A t \in Terminal : place[t] = None <=> catalog[t] = None
  /\ done \subseteq Terminal
  /\ broadcast \in BOOLEAN
  /\ active \in Terminal \cup {None}
  /\ runtimes \in [Terminal -> Runtime \cup {None}]
  /\ route \in Seq(Point) /\ established \in BOOLEAN /\ initial \in Initial \cup {None}
  /\ pendingSwitch \in Switch \cup {None}
  /\ pendingCommand \in Command \cup {None}
  /\ pendingNavigation \in Navigation \cup {None}
  /\ notice \in BOOLEAN /\ asked \in Asked \cup {None}

\* Exactly the active terminal's checkpoint is in the active lifecycle: over every mix
\* of activations, switch decisions, transitions and returns the previous one is
\* suspended or discarded, and the one players see exists.
OneTerminalRuns ==
  \A t \in Terminal : (runtimes[t] # None /\ runtimes[t].active) <=> t = active

\* No checkpoint, route, decision or request survives the end of its broadcast;
\* StartBroadcast relies on it for the pending command, which it does not clear.
NothingOutlivesBroadcast ==
  ~broadcast =>
    /\ active = None /\ route = <<>> /\ \A t \in Terminal : runtimes[t] = None
    /\ pendingSwitch = None /\ pendingCommand = None /\ pendingNavigation = None

\* A checkpoint that shows "request in progress" has a request the Overseer can see;
\* without one its players would be locked out with nothing to decide.
WaitingScreenHasRequest ==
  \A t \in Terminal : runtimes[t] # None /\ runtimes[t].exec = "pending" =>
    pendingCommand # None /\ pendingCommand.terminal = t

\* The players never have two requests outstanding, whatever order commands,
\* transitions, returns and decisions come in; a refusal notice is about the past only.
OneRequestAtATime ==
  /\ pendingCommand = None \/ pendingNavigation = None
  /\ notice => pendingNavigation = None

\* Checkpoints, requests and the broadcast fit together after every mix of the
\* Overseer's switches, the players' requests and the decisions on both.
TerminalsAreConsistent ==
  OneTerminalRuns /\ NothingOutlivesBroadcast /\ WaitingScreenHasRequest /\ OneRequestAtATime

\* A request that can be decided stays so until it is decided or cancelled; only a
\* switch decision and the reset of a failed puzzle pass it by.
RequestsStayDecidable ==
  [][/\ Decidable /\ pendingCommand' = pendingCommand /\ ~Decidable' =>
          \/ \E preserve \in BOOLEAN : ResolveTerminalSwitch(preserve)
          \/ \E target \in Payload : ResetFailedHack(target)
     /\ CanResolveNavigation /\ pendingNavigation' = pendingNavigation /\ ~CanResolveNavigation' =>
          \E preserve \in BOOLEAN : ResolveTerminalSwitch(preserve)]_vars

\* From the active terminal every return point of the route is valid in turn.
Walkable ==
  active # None =>
    \A i \in 1 .. Len(route) :
      ValidTerminalReturnPoint(IF i < Len(route) THEN route[i + 1].terminal ELSE active, route[i])

\* Regrouping, transitions and returns keep the way back open all the way down; only a
\* switch decision and a deleted terminal can cut it.
RouteCanBeWalkedBack ==
  [][Walkable /\ ~Walkable' =>
       \/ \E preserve \in BOOLEAN : ResolveTerminalSwitch(preserve)
       \/ ReturnGone
       \/ \E t \in Terminal : DeleteTerminal(t)]_vars

PuzzleIsKept(t) ==
  broadcast /\ broadcast' /\ runtimes[t] # None /\ runtimes[t].hack \in {"solved", "failed"}
    => \/ runtimes'[t] # None /\ runtimes'[t].hack = runtimes[t].hack
       \/ ResolveTerminalSwitch(FALSE)
       \/ \E target \in Payload : ResetFailedHack(target)

CompletionIsDurable(t) ==
  runtimes'[t] # None /\ runtimes'[t].done /\ (runtimes[t] = None \/ ~runtimes[t].done)
    => \/ t \in done'
       \/ asked # None /\ asked' = None /\ asked.terminal = t /\ asked.done
       \/ \E preserve \in BOOLEAN : ResolveTerminalSwitch(preserve)

\* A checkpoint never forgets or invents an outcome.  A solved or failed puzzle keeps its
\* outcome through suspension, switching and returning; only discarding it, resetting it or
\* ending the broadcast undoes it.  And players see a command as completed only once the
\* session document says so; only a target captured earlier, by a call under way or a
\* switch decision, can bring back what has since been reset.
OutcomesStand ==
  [][\A t \in Terminal : PuzzleIsKept(t) /\ CompletionIsDurable(t)]_vars

-----------------------------------------------------------------------------
(* What the specifications in specs/ say and the code does not keep.       *)

\* specs/010-terminal-navigation/spec.md, FR-026: changing the active terminal by hand
\* cancels the pending transition, so one that waits is about the active terminal.
ManualSwitchCancelsTransition ==
  pendingNavigation # None => active = pendingNavigation.source

\* specs/009-state-changing-menu-commands/data-model.md: changing or deleting a command
\* that waits for its decision is refused or cancels the request.
PendingCommandIsUnchanged ==
  Decidable => StillAuthored

\* specs/009-state-changing-menu-commands/data-model.md: activation takes the command
\* states from the current session document, after a switch decision too.
ActivationReadsTheDocument ==
  [][\A preserve \in BOOLEAN : ResolveTerminalSwitch(preserve) /\ active' # None
       => runtimes'[active'].done = (active' \in done)]_vars

=============================================================================
