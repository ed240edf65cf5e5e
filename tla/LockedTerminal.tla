---------------------------- MODULE LockedTerminal ----------------------------
(***************************************************************************)
(* The checkpoints of one broadcast with their puzzles, and the cursor the *)
(* controller's page shows to everybody: internal/live/service.go under    *)
(* the coordinator's transactions.  TerminalControl has the decisions that *)
(* lead to each step; here is what a step does to puzzle, place, cursor    *)
(* and audit log.  A tree maps every folder to its children; the path to   *)
(* a folder begins at "root".  Every accepted transaction ends with a      *)
(* projection of the active terminal for each assigned session, and with   *)
(* the audit events derived from the states before and after it.           *)
(***************************************************************************)
EXTENDS HackPuzzle, SequencesExt

CONSTANTS
  Terminal,
  Locked,       \* terminals authored with a hack level
  LogicalSession,
  Folder,       \* folder ids, "root" among them
  Entry,        \* entry ids
  Command,      \* ids of ordinary commands
  Draft,        \* Draft[t]: the trees the Overseer may author for t
  Aim,          \* the cells of a board players point at
  MaxPage,      \* bound on PageIndex
  MaxPuzzles    \* bound: puzzles generated in a run

ASSUME TreeAssumption ==
  /\ Locked \subseteq Terminal
  /\ "root" \in Folder
  /\ \A t \in Terminal :
       Draft[t] \subseteq [Folder -> Seq((Folder \ {"root"}) \cup Entry \cup Command)]
  /\ IsFiniteSet(Folder) /\ Aim \subseteq Nat \X Nat
  /\ MaxPage \in Nat /\ MaxPuzzles \in Nat

-----------------------------------------------------------------------------
(* Trees, places and what a page shows of them.                             *)

Tree == [Folder -> Seq((Folder \ {"root"}) \cup Entry \cup Command)]
NavState == [path : Seq(Folder) \ {<<>>}, entry : Entry \cup {Nil}, command : Command \cup {Nil}]

\* ControllerTerminalPresentation
ScreenContext ==
  ({"hack"} \X Nat) \cup ({"entry"} \X Entry) \cup ({"command"} \X Command) \cup ({"menu"} \X Seq(Folder))
ScreenTarget ==
  ({"node"} \X (Folder \cup Entry \cup Command)) \cup ({"page"} \X Nat)
    \cup ({"word"} \X {w.id : w \in Candidates}) \cup ({"cell"} \X Nat \X Nat) \cup ({"pattern"} \X PatternSpan)
ScreenCursor == [context : ScreenContext \cup {Nil}, at : ScreenTarget \cup {Nil}]

\* TerminalRuntime
Checkpoint ==
  [active : BOOLEAN, tree : Tree, nav : NavState, hack : HackState \cup {Nil}, cursor : ScreenCursor]

\* Nil is no terminal's name, and a pointer that is nil points to nothing.
ASSUME NilAssumption == Nil \notin Terminal /\ Nil \notin HackState /\ Nil \notin Checkpoint

VARIABLES
  liveBroadcast,      \* Broadcast # nil
  assigned,           \* sessions with a character
  controllerSession,  \* ControllerSessionID
  active,             \* ActiveTerminalID
  runtimes,           \* TerminalRuntimes
  puzzles,            \* generation ids drawn so far
  audit               \* what the log says of each: the latest lifecycle event, and the outcomes

\* What commit changes is a copy (cloneNavState, cloneHackState): no record is shared.
terminalVars == <<liveBroadcast, assigned, controllerSession, active, runtimes, puzzles, audit>>

-----------------------------------------------------------------------------
(* Navigation.                                                              *)

Children(tree, folder) == ToSet(tree[folder])

Nav(path, entry, command) == [path |-> path, entry |-> entry, command |-> command]
Default == Nav(<<"root">>, Nil, Nil)

\* nav.ApplyAction on the current folder; a target that is not there changes nothing.
Enter(nav, tree) == {Nav(Append(nav.path, f), Nil, Nil) : f \in Folder \cap Children(tree, Last(nav.path))}
Open(nav, tree)  == {Nav(nav.path, e, Nil) : e \in Entry \cap Children(tree, Last(nav.path))}
Run(nav, tree)   == {[nav EXCEPT !.command = c] : c \in Command \cap Children(tree, Last(nav.path))}
Back(nav) ==
  CASE nav.entry # Nil -> [nav EXCEPT !.entry = Nil]
    [] nav.entry = Nil /\ Len(nav.path) > 1 -> Nav(Front(nav.path), Nil, Nil)
    [] OTHER -> [nav EXCEPT !.command = Nil]

\* revalidatedPath: up to the first folder that is gone.
ValidPath(tree, path) ==
  SubSeq(path, 1, Max({n \in 1 .. Len(path) : \A i \in 2 .. n : path[i] \in Children(tree, path[i - 1])}))

Revalidate(nav, tree) ==
  LET path == ValidPath(tree, nav.path)
      kept(id) == IF id \in Children(tree, Last(path)) THEN id ELSE Nil IN
  Nav(path, kept(nav.entry), kept(nav.command))

\* FindFolderPath; a tree holds each folder once.
Locate(tree, folder) ==
  {path \in UNION {[1 .. n -> Folder] : n \in 1 .. Cardinality(Folder)} :
     /\ path[1] = "root" /\ Last(path) = folder
     /\ \A i \in 2 .. Len(path) : path[i] \in Children(tree, path[i - 1])}

\* RestoreFolder: the folder, or the nearest ancestor that is left.
RestoreFolder(tree, saved) ==
  LET left == {n \in 1 .. Len(saved) : Locate(tree, saved[n]) # {}} IN
  Nav(CHOOSE path \in Locate(tree, saved[Max(left)]) : TRUE, Nil, Nil)

\* The folders a return point may have been taken in.
Saved == UNION {Locate(tree, f) : tree \in UNION {Draft[t] : t \in Terminal}, f \in Folder}

-----------------------------------------------------------------------------
(* The controller's cursor.                                                 *)

Cursor(context, at) == [context |-> context, at |-> at]

\* controllerPresentationContext
Context(r) ==
  CASE Playing(r.hack) -> <<"hack", r.hack.gen>>
    [] ~Playing(r.hack) /\ r.nav.entry # Nil -> <<"entry", r.nav.entry>>
    [] ~Playing(r.hack) /\ r.nav.entry = Nil /\ r.nav.command # Nil -> <<"command", r.nav.command>>
    [] OTHER -> <<"menu", r.nav.path>>

\* validControllerPresentation: what a cursor of the present context may point at.
ValidTarget(r, at) ==
  at # Nil =>
    CASE Context(r)[1] = "hack" /\ at[1] = "pattern" -> at[2] \in Spans(r.hack.columns) \ r.hack.used
      [] Context(r)[1] = "hack" /\ at[1] # "pattern" -> Candidate(r.hack, at) # {} \/ Filler(r.hack, at)
      [] Context(r)[1] = "menu" -> at[1] = "node" /\ at[2] \in Children(r.tree, Last(r.nav.path))
      [] OTHER -> at[1] = "page" /\ at[2] <= MaxPage

ValidCursor(r) == r.cursor.context = Context(r) /\ ValidTarget(r, r.cursor.at)

\* revalidateControllerPresentation
Fresh(r) ==
  CASE Context(r)[1] = "hack" -> Nil
    [] Context(r)[1] = "menu" ->
         LET children == r.tree[Last(r.nav.path)] IN
         IF children = <<>> THEN Nil ELSE <<"node", Head(children)>>
    [] OTHER -> <<"page", 0>>

Repaired(r) == IF ValidCursor(r) THEN r ELSE [r EXCEPT !.cursor = Cursor(Context(r), Fresh(r))]

-----------------------------------------------------------------------------
(* Checkpoints.                                                             *)

\* createRuntimeLocked; only a locked terminal has a puzzle, if there is one to have.
CreateRuntime(t, tree) ==
  {Repaired([active |-> TRUE, tree |-> tree, nav |-> Default, hack |-> h, cursor |-> Cursor(Nil, Nil)]) :
     h \in IF t \in Locked THEN GenerateBoard(puzzles + 1) ELSE {Nil}}

UpdateRuntime(r, tree) == Repaired([r EXCEPT !.tree = tree, !.nav = Revalidate(@, tree)])

ReactivateRuntime(r, tree) == UpdateRuntime([r EXCEPT !.active = TRUE], tree)

Suspended(r) == [r EXCEPT !.active = FALSE]

\* A checkpoint as it enters: a new one, a suspended one, or the active one again.
Entering(t, tree) ==
  IF runtimes[t] = Nil THEN CreateRuntime(t, tree)
  ELSE {ReactivateRuntime(runtimes[t], tree)}

-----------------------------------------------------------------------------
(* The end of a transaction.                                                *)

Shown(rs, a) == IF a = Nil THEN Nil ELSE rs[a].hack

ControllerChanged == controllerSession # Nil /\ controllerSession' # controllerSession

\* Mutant of LifecycleEvents: an outcome is told only when the puzzle was solved.
SuccessEvents(rs, a) ==
  LET old == Shown(runtimes, active)
      new == Shown(rs, a)
      left == IF Playing(old) THEN {<<old.gen, "interrupted">>} ELSE {} IN
  CASE old # Nil /\ new # Nil /\ active # a -> left \cup {<<new.gen, "started">>}
    [] old = Nil /\ new # Nil -> {<<new.gen, "started">>}
    [] new = Nil -> left
    [] OTHER ->
         IF old.gen # new.gen THEN {<<new.gen, "reset">>}
         ELSE IF Playing(old) /\ Playing(new) /\ liveBroadcast' /\ ControllerChanged THEN left
         ELSE {<<new.gen, "succeeded">> : x \in {x \in {0} : ~old.solved /\ new.solved}}

\* deriveHackLifecycleEvents
LifecycleEvents(rs, a) ==
  LET old == Shown(runtimes, active)
      new == Shown(rs, a)
      left == IF Playing(old) THEN {<<old.gen, "interrupted">>} ELSE {} IN
  CASE old # Nil /\ new # Nil /\ active # a -> left \cup {<<new.gen, "started">>}
    [] old = Nil /\ new # Nil -> {<<new.gen, "started">>}
    [] new = Nil -> left
    [] OTHER ->
         IF old.gen # new.gen THEN {<<new.gen, "reset">>}
         ELSE IF Playing(old) /\ Playing(new) /\ liveBroadcast' /\ ControllerChanged THEN left
         ELSE {<<new.gen, e>> : e \in {e \in {"succeeded", "failed"} :
                 CASE e = "succeeded" -> ~old.solved /\ new.solved
                   [] e = "failed" -> ~old.failed /\ new.failed}}

\* recordAuditEvents
Recorded(events) ==
  [g \in DOMAIN audit |->
     IF \A e \in events : e[1] # g THEN audit[g]
     ELSE LET e == (CHOOSE e \in events : e[1] = g)[2] IN
          [latest |-> e,
           outcomes |-> IF e \in {"succeeded", "failed"} THEN Append(audit[g].outcomes, e) ELSE audit[g].outcomes]]

\* Mutant of Projection: a player is shown the cursor as it stands.
ProjectionAsIs(rs, a) == rs

\* compoundUpdateLocked: ProjectRuntime repairs the cursor it projects.
Projection(rs, a) == IF a = Nil \/ assigned' = {} THEN rs ELSE [rs EXCEPT ![a] = Repaired(@)]

Commit(rs, a) ==
  /\ active' = a
  /\ runtimes' = Projection(rs, a)
  /\ audit' = Recorded(LifecycleEvents(rs, a))

\* A puzzle that was generated in this transaction has used up an id.
Generated(r) == puzzles' = IF r.hack # Nil /\ r.hack.gen > puzzles THEN puzzles + 1 ELSE puzzles

-----------------------------------------------------------------------------
TerminalsInit ==
  /\ liveBroadcast = FALSE /\ assigned = {} /\ controllerSession = Nil /\ active = Nil
  /\ runtimes = [t \in Terminal |-> Nil]
  /\ puzzles = 0
  /\ audit = [g \in 1 .. MaxPuzzles |-> [latest |-> Nil, outcomes |-> <<>>]]

\* StartBroadcast
OpenBroadcast ==
  /\ ~liveBroadcast
  /\ liveBroadcast' = TRUE
  /\ UNCHANGED <<assigned, controllerSession, puzzles>>
  /\ Commit(runtimes, Nil)

\* EndBroadcast
CloseBroadcast ==
  /\ liveBroadcast
  /\ liveBroadcast' = FALSE /\ assigned' = {} /\ controllerSession' = Nil
  /\ UNCHANGED puzzles
  /\ Commit([t \in Terminal |-> Nil], Nil)

\* AssignCharacter and SelectCharacter; a session that is connected takes free control.
Assign(s) ==
  /\ liveBroadcast /\ s \notin assigned
  /\ assigned' = assigned \cup {s}
  /\ controllerSession' \in IF controllerSession = Nil THEN {Nil, s} ELSE {controllerSession}
  /\ UNCHANGED <<liveBroadcast, puzzles>>
  /\ Commit(runtimes, active)

\* ReleaseCharacter; the controller's release leaves nobody in control.
FreeCharacter(s) ==
  /\ s \in assigned
  /\ assigned' = assigned \ {s}
  /\ controllerSession' = IF controllerSession = s THEN Nil ELSE controllerSession
  /\ UNCHANGED <<liveBroadcast, puzzles>>
  /\ Commit(runtimes, active)

\* SetActiveController
HandControl(s) ==
  /\ s \in assigned /\ s # controllerSession
  /\ controllerSession' = s
  /\ UNCHANGED <<liveBroadcast, assigned, puzzles>>
  /\ Commit(runtimes, active)

\* What becomes of the checkpoint that is left: an unfinished puzzle is kept or
\* discarded as the Overseer decides, anything else is kept.
Leaving(rs, keep) ==
  IF active = Nil THEN rs
  ELSE [rs EXCEPT ![active] = IF ~keep /\ Playing(@.hack) THEN Nil ELSE Suspended(@)]

\* RequestTerminalActivation, or ResolveTerminalSwitch with a target.
ActivateTerminal(t, tree, keep) ==
  /\ liveBroadcast /\ (t \in Locked /\ runtimes[t] = Nil => puzzles < MaxPuzzles)
  /\ \E r \in Entering(t, tree) :
       /\ Generated(r)
       /\ UNCHANGED <<liveBroadcast, assigned, controllerSession>>
       /\ Commit([IF t = active THEN runtimes ELSE Leaving(runtimes, keep) EXCEPT ![t] = r], t)

\* RequestTerminalClear, or ResolveTerminalSwitch without a target.
ClearTerminal(keep) ==
  /\ liveBroadcast /\ active # Nil
  /\ UNCHANGED <<liveBroadcast, assigned, controllerSession, puzzles>>
  /\ Commit(Leaving(runtimes, keep), Nil)

\* ResolveTerminalNavigation, approved for the controller: the place is set after
\* the checkpoint was repaired for the place it had.
FollowTransition(t, tree, nav) ==
  /\ controllerSession # Nil /\ active # Nil /\ t # active
  /\ t \in Locked /\ runtimes[t] = Nil => puzzles < MaxPuzzles
  /\ \E r \in Entering(t, tree) :
       /\ Generated(r)
       /\ UNCHANGED <<liveBroadcast, assigned, controllerSession>>
       /\ Commit([Leaving(runtimes, TRUE) EXCEPT ![t] = [r EXCEPT !.nav = nav]], t)

UpdateLiveTerminal(tree) ==
  /\ active # Nil /\ tree \in Draft[active]
  /\ UNCHANGED <<liveBroadcast, assigned, controllerSession, puzzles>>
  /\ Commit([runtimes EXCEPT ![active] = UpdateRuntime(@, tree)], active)

ForceHackSuccess ==
  /\ active # Nil
  /\ UNCHANGED <<liveBroadcast, assigned, controllerSession, puzzles>>
  /\ LET r == runtimes[active] IN
     /\ Playing(r.hack)
     /\ Commit([runtimes EXCEPT ![active] = Repaired([r EXCEPT !.hack = ForceSuccess(@)])], active)

\* A replacement without a puzzle is refused.
ResetFailedHack(tree) ==
  /\ active # Nil /\ tree \in Draft[active]
  /\ runtimes[active].hack # Nil /\ runtimes[active].hack.failed
  /\ puzzles < MaxPuzzles
  /\ \E r \in CreateRuntime(active, tree) :
       /\ r.hack # Nil
       /\ Generated(r)
       /\ UNCHANGED <<liveBroadcast, assigned, controllerSession>>
       /\ Commit([runtimes EXCEPT ![active] = r], active)

-----------------------------------------------------------------------------
(* The controller's actions: applyRuntimeLocked.  DispatchPlayerAction      *)
(* restores the checkpoint when an action is refused, so a refusal is no    *)
(* step.                                                                    *)

ApplyRuntime(r) ==
  /\ UNCHANGED <<liveBroadcast, assigned, controllerSession, puzzles>>
  /\ Commit([runtimes EXCEPT ![active] = Repaired(r)], active)

CanAct == controllerSession # Nil /\ active # Nil

Navigate ==
  /\ CanAct
  /\ LET r == runtimes[active] IN
     \E nav \in Enter(r.nav, r.tree) \cup Open(r.nav, r.tree) \cup {Back(r.nav)} :
       ApplyRuntime([r EXCEPT !.nav = nav])

\* ResolveCommandExecution shows an approved command.
ShowCommand ==
  /\ CanAct
  /\ LET r == runtimes[active] IN
     \E nav \in Run(r.nav, r.tree) : ApplyRuntime([r EXCEPT !.nav = nav])

Guess ==
  /\ CanAct
  /\ LET r == runtimes[active] IN
     /\ Playing(r.hack)
     /\ \E target \in {<<"word", w.id>> : w \in r.hack.words} \cup
                      {<<"cell", x[1], x[2]>> : x \in Aim} :
          /\ ApplyGuess(r.hack, target) # r.hack
          /\ ApplyRuntime([r EXCEPT !.hack = ApplyGuess(@, target)])

ActivatePattern ==
  /\ CanAct
  /\ LET r == runtimes[active] IN
     /\ Playing(r.hack)
     /\ \E s \in Spans(r.hack.columns) : \E p \in ApplyPattern(r.hack, s) : ApplyRuntime([r EXCEPT !.hack = p])

\* What a page may send (PresentationFromProto: one cursor, of a known kind); only what
\* ValidTarget allows is accepted.
Pointed(r) ==
  {Nil} \cup {<<"node", id>> : id \in Children(r.tree, Last(r.nav.path))}
         \cup {<<"page", n>> : n \in 0 .. MaxPage}
         \cup IF r.hack = Nil THEN {}
              ELSE {<<"word", w.id>> : w \in r.hack.words}
                   \cup {<<"cell", x[1], x[2]>> : x \in Aim}
                   \cup {<<"pattern", s>> : s \in Spans(r.hack.columns)}

Present ==
  /\ CanAct
  /\ LET r == runtimes[active] IN
     \E at \in Pointed(r) :
       /\ ValidTarget(r, at)
       /\ Cursor(Context(r), at) # r.cursor
       /\ ApplyRuntime([r EXCEPT !.cursor = Cursor(Context(r), at)])

-----------------------------------------------------------------------------
OverseerActs ==
  \/ OpenBroadcast \/ CloseBroadcast
  \/ \E s \in LogicalSession : Assign(s) \/ FreeCharacter(s) \/ HandControl(s)
  \/ \E t \in Terminal, keep \in BOOLEAN : \E tree \in Draft[t] : ActivateTerminal(t, tree, keep)
  \/ \E keep \in BOOLEAN : ClearTerminal(keep)
  \/ \E t \in Terminal : \E tree \in Draft[t] : FollowTransition(t, tree, Default)
  \/ \E t \in Terminal, saved \in Saved : \E tree \in Draft[t] :
       FollowTransition(t, tree, RestoreFolder(tree, saved))
  \/ \E tree \in UNION {Draft[t] : t \in Terminal} : UpdateLiveTerminal(tree) \/ ResetFailedHack(tree)
  \/ ForceHackSuccess \/ ShowCommand

\* Each request carries its target (NavigateFromProto, ...); one without a target is refused
\* before the coordinator sees it.
Player == Navigate \/ Guess \/ ActivatePattern \/ Present

\* Every step is a commit, after which the audit events are derived (deriveAuditEvents).
TerminalsNext == OverseerActs \/ Player

TerminalsSpec == TerminalsInit /\ [][TerminalsNext]_terminalVars

-----------------------------------------------------------------------------
(* Properties.                                                              *)

\* The cursor everybody is shown points at something of the screen everybody is shown:
\* whatever moved the controller, the Overseer or an edit made, no cursor of another
\* menu, page or puzzle, of a removed candidate or a used span is left
\* (revalidateControllerPresentation, on every path).
CursorIsValid ==
  active # Nil /\ assigned # {} => ValidCursor(runtimes[active])

\* While a puzzle can be played it can be solved: its candidates stand on the board
\* letter by letter, and the secret word is one of them (dotCandidate, ApplyPattern).
SecretStaysOnBoard ==
  \A t \in Terminal : runtimes[t] # Nil /\ Playing(runtimes[t].hack) =>
    LET p == runtimes[t].hack IN
    /\ \A w \in p.words : \A i \in Cells(w) : p.columns[w.column][i] = "w"
    /\ \E w \in p.words : w.text = p.secret

Kept(t, Change(_, _)) ==
  LET p == runtimes[t].hack
      q == runtimes'[t].hack IN
  runtimes[t] # Nil /\ runtimes'[t] # Nil => (p # Nil /\ q # Nil => (p.gen = q.gen /\ p # q => Change(p, q)))

\* A span the page has been told of stays what it was until its puzzle is replaced:
\* removing a candidate may uncover spans but takes none (dotCandidate, discoverPatterns).
SpansStay ==
  [][LET stay(p, q) == Spans(p.columns) \subseteq Spans(q.columns) /\ p.used \subseteq q.used IN
     \A t \in Terminal : Kept(t, stay)]_terminalVars

\* A board keeps its word: the secret can be found as long as the puzzle is open, and
\* what was offered stays on offer.
BoardsKeepTheirWord == []SecretStaysOnBoard /\ SpansStay

\* Attempts that can still be had: those left, and MaximumAttempts for every unused span,
\* uncovered or not, which also counts for itself.
Brackets(columns) ==
  UNION {{s \in [column : {c}, start : DOMAIN columns[c], end : DOMAIN columns[c]] :
            Span(columns[c], s.start, s.end)} : c \in DOMAIN columns}
Moves(p) == (MaximumAttempts + 1) * Cardinality(Brackets(p.columns) \ p.used) + p.left

\* No sequence of moves goes round in circles: whatever changes a puzzle that stays in
\* play leaves fewer moves to be made in it (ApplyGuess, ApplyPattern).
EveryMoveCounts ==
  [][LET fewer(p, q) == Playing(q) => Moves(q) < Moves(p) IN
     \A t \in Terminal : Kept(t, fewer)]_terminalVars

Outcome(p) == (IF p.solved THEN <<"succeeded">> ELSE <<>>) \o (IF p.failed THEN <<"failed">> ELSE <<>>)

\* The audit log has the outcome of every puzzle once, and a puzzle left unfinished
\* without being replaced is on record as interrupted (deriveHackLifecycleEvents).
AuditFollowsThePuzzles ==
  /\ \A t \in Terminal : runtimes[t] # Nil /\ runtimes[t].hack # Nil =>
       LET p == runtimes[t].hack IN
       /\ audit[p.gen].outcomes = Outcome(p)
       /\ Playing(p) /\ t # active => audit[p.gen].latest = "interrupted"
  /\ \A g \in 1 .. puzzles :
       (\A t \in Terminal : runtimes[t] = Nil \/ runtimes[t].hack = Nil \/ runtimes[t].hack.gen # g) =>
         audit[g].outcomes # <<>> \/ audit[g].latest = "interrupted"

\* However a puzzle is played it can be won until it is lost, and it ends.
PuzzlesStayFair == BoardsKeepTheirWord /\ EveryMoveCounts
=============================================================================
