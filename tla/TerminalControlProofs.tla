------------------------ MODULE TerminalControlProofs ------------------------
(* Proofs about TerminalControl for any session, edits and bounds.          *)
EXTENDS TerminalControl, FiniteSetTheorems, TLAPS

\* What the Overseer is asked to approve: a transition adds the terminal it leaves to the
\* route, a return goes to the terminal of its return point.
NavigationIsKnown ==
  pendingNavigation # None =>
    IF pendingNavigation.direction = "return"
    THEN pendingNavigation.target = pendingNavigation.point.terminal
    ELSE pendingNavigation.point.terminal = pendingNavigation.source
         /\ pendingNavigation.point.origin = "authored"

Inv == TypeOK /\ WellFormed(place) /\ TerminalsAreConsistent /\ NavigationIsKnown

\* None is none of the values of the variables.
LEMMA NoneIsNone ==
  /\ None \notin Terminal /\ None \notin Tree /\ None \notin Place /\ None \notin Target
  /\ None \notin Runtime /\ None \notin Command /\ None \notin Navigation /\ None \notin Asked
  /\ None \notin Switch /\ None \notin Initial
  BY TerminalAssumption

-----------------------------------------------------------------------------
(* What becomes of a checkpoint: internal/live/service.go.                  *)

\* A new checkpoint.
LEMMA CreateRuntimeTyped ==
  ASSUME NEW target \in Target
  PROVE  LET q == CreateRuntime(target) IN
         q \in Runtime /\ q.active = TRUE /\ q.exec = "none" /\ q.done = target.done
  BY DEF CreateRuntime, Runtime, Target

\* A checkpoint brought up to date.
LEMMA UpdateRuntimeTyped ==
  ASSUME NEW r \in Runtime, NEW target \in Target
  PROVE  LET q == UpdateRuntime(r, target) IN
         q \in Runtime /\ q.active = r.active /\ q.hack = r.hack /\ q.exec = r.exec
           /\ q.done = target.done
  <1>1. target.tree \in Tree /\ target.done \in BOOLEAN
    BY DEF Target
  <1>2. Revalidated(r.nav, target.tree) \in {"root", "inner", "result"}
    BY DEF Revalidated, Runtime
  <1> QED
    BY <1>1, <1>2 DEF UpdateRuntime, Runtime

\* A checkpoint as it becomes the active one: an earlier one keeps its puzzle.
LEMMA EnteredTyped ==
  ASSUME NEW r \in Runtime \cup {None}, NEW target \in Target
  PROVE  LET q == Entered(r, target) IN
         /\ q \in Runtime /\ q.active = TRUE /\ q.exec = "none" /\ q.done = target.done
         /\ r # None => q.hack = r.hack
  <1>1. CASE r = None
    BY <1>1, CreateRuntimeTyped DEF Entered
  <1>2. CASE r # None
    <2>1. r \in Runtime
      BY <1>2
    <2> DEFINE u == UpdateRuntime(r, target)
    <2>2. u \in Runtime /\ u.hack = r.hack /\ u.done = target.done
      BY <2>1, UpdateRuntimeTyped
    <2>3. Entered(r, target) = [u EXCEPT !.active = TRUE, !.exec = "none"]
      BY <1>2 DEF Entered, ReactivateRuntime
    <2> HIDE DEF u
    <2> QED
      BY <2>2, <2>3 DEF Runtime
  <1> QED
    BY <1>1, <1>2

\* A checkpoint that is left.
LEMMA SuspendedTyped ==
  ASSUME NEW r \in Runtime
  PROVE  LET q == Suspended(r) IN
         q \in Runtime /\ q.active = FALSE /\ q.hack = r.hack /\ q.exec = r.exec /\ q.done = r.done
  BY DEF Suspended, Runtime

-----------------------------------------------------------------------------
(* The checkpoints of all terminals over a step.                            *)

Checkpoints == runtimes \in [Terminal -> Runtime \cup {None}]

\* The active terminal has a checkpoint.
LEMMA ActiveRuntime ==
  ASSUME TypeOK, OneTerminalRuns
  PROVE  /\ active # None => active \in Terminal /\ runtimes[active] \in Runtime
                             /\ runtimes[active] # None /\ runtimes[active].active
         /\ \A t \in Terminal : runtimes[t] # None => runtimes[t] \in Runtime
         /\ \A t \in Terminal : runtimes[t] # None /\ t # active => ~runtimes[t].active
  <1>1. \A t \in Terminal : runtimes[t] \in Runtime \cup {None}
    BY DEF TypeOK
  <1>2. active # None => active \in Terminal
    BY DEF TypeOK
  <1> QED
    BY <1>1, <1>2 DEF OneTerminalRuns

\* The active terminal's checkpoint changes and no other.
LEMMA ActiveChanges ==
  ASSUME TypeOK, OneTerminalRuns, active # None, NEW change \in Runtime, change.active,
         runtimes' = [runtimes EXCEPT ![active] = change], active' = active
  PROVE  /\ Checkpoints' /\ OneTerminalRuns'
         /\ runtimes'[active] = change
         /\ \A t \in Terminal : t # active => runtimes'[t] = runtimes[t]
  <1>1. active \in Terminal /\ change # None
    BY ActiveRuntime, NoneIsNone
  <1>2. /\ runtimes'[active] = change
        /\ \A t \in Terminal : t # active => runtimes'[t] = runtimes[t]
        /\ runtimes' \in [Terminal -> Runtime \cup {None}]
    BY <1>1 DEF TypeOK
  <1>3. OneTerminalRuns'
    BY <1>1, <1>2 DEF OneTerminalRuns
  <1> QED
    BY <1>2, <1>3 DEF Checkpoints

\* clearCommandExecutionRuntime: nobody waits any more.
LEMMA QuietTyped ==
  ASSUME TypeOK
  PROVE  /\ Quiet(runtimes) \in [Terminal -> Runtime \cup {None}]
         /\ \A t \in Terminal :
              /\ Quiet(runtimes)[t] = None <=> runtimes[t] = None
              /\ runtimes[t] # None =>
                   LET q == Quiet(runtimes)[t] IN
                   q \in Runtime /\ q.active = runtimes[t].active /\ q.hack = runtimes[t].hack
                     /\ q.done = runtimes[t].done /\ q.exec = "none"
  <1> DEFINE q(t) == IF runtimes[t] = None THEN None ELSE [runtimes[t] EXCEPT !.exec = "none"]
  <1>1. \A t \in Terminal : runtimes[t] # None => runtimes[t] \in Runtime
    BY DEF TypeOK
  <1>2. ASSUME NEW t \in Terminal
        PROVE  /\ q(t) = None <=> runtimes[t] = None
               /\ runtimes[t] # None =>
                    q(t) \in Runtime /\ q(t).active = runtimes[t].active
                      /\ q(t).hack = runtimes[t].hack
                      /\ q(t).done = runtimes[t].done /\ q(t).exec = "none"
    <2>1. CASE runtimes[t] = None
      BY <2>1
    <2>2. CASE runtimes[t] # None
      <3>1. runtimes[t] \in Runtime
        BY <1>1, <2>2
      <3>2. LET r == [runtimes[t] EXCEPT !.exec = "none"] IN
            r \in Runtime /\ r.active = runtimes[t].active /\ r.hack = runtimes[t].hack
              /\ r.done = runtimes[t].done /\ r.exec = "none"
        BY <3>1 DEF Runtime
      <3> QED
        BY <2>2, <3>2, NoneIsNone
    <2> QED
      BY <2>1, <2>2
  <1>3. Quiet(runtimes) = [t \in Terminal |-> q(t)]
    BY DEF Quiet
  <1> HIDE DEF q
  <1>4. \A t \in Terminal : Quiet(runtimes)[t] = q(t)
    BY <1>3
  <1>5. \A t \in Terminal : q(t) \in Runtime \cup {None}
    BY <1>2
  <1> QED
    BY <1>2, <1>3, <1>4, <1>5

\* The document was replaced by one with a well-formed layout: groups close the gap that a
\* removed terminal leaves.
LEMMA RemovedWellFormed ==
  ASSUME TypeOK, WellFormed(place), NEW t \in Terminal, Removed(t)
  PROVE  /\ WellFormed(place)' /\ place' \in [Terminal -> Place \cup {None}]
         /\ \A u \in Terminal : place'[u] = None <=> u = t \/ place[u] = None
         /\ catalog' \in [Terminal -> Tree \cup {None}]
         /\ \A u \in Terminal : catalog'[u] = None <=> u = t \/ catalog[u] = None
  <1> DEFINE p == place[t].position
             g == place[t].group
             moved(u) == place[u].group = g /\ place[u].position > p
  <1>1. \A u \in Terminal : place[u] \in Place \cup {None}
    BY DEF TypeOK
  <1>2. place[t] # None /\ place[t] \in Place /\ p \in Nat
    BY <1>1 DEF Removed, TypeOK, Place
  <1>3. \A u \in Terminal : place[u] # None =>
          place[u].group \in Group /\ place[u].position \in Nat
          /\ place[u] = [group |-> place[u].group, position |-> place[u].position]
    BY <1>1 DEF Place
  <1>4. ASSUME NEW u \in Terminal
        PROVE  /\ u = t => place'[u] = None
               /\ u # t /\ place[u] # None /\ moved(u) =>
                    place'[u] = [group |-> place[u].group, position |-> place[u].position - 1]
               /\ u # t /\ (place[u] = None \/ ~moved(u)) => place'[u] = place[u]
    <2>1. place'[u] = CASE u = t -> None
                        [] u # t /\ place[u] # None /\ place[u].group = g /\ place[u].position > p
                             -> [place[u] EXCEPT !.position = @ - 1]
                        [] OTHER -> place[u]
      BY DEF Removed
    <2>2. place[u] # None => [place[u] EXCEPT !.position = @ - 1] =
                              [group |-> place[u].group, position |-> place[u].position - 1]
      BY <1>1 DEF Place
    <2> QED
      BY <2>1, <2>2
  <1>a. \A u \in Terminal : moved(u) <=> place[u].group = g /\ place[u].position > p
    OBVIOUS
  <1>b. place[t] = [group |-> g, position |-> p]
    BY <1>2 DEF Place
  <1>c. \A u \in Terminal : place[u] # None /\ moved(u) => place[u].position - 1 \in Nat
    <2> HIDE DEF p, g, moved
    <2> SUFFICES ASSUME NEW u \in Terminal, place[u] # None, moved(u)
                 PROVE  place[u].position - 1 \in Nat
      OBVIOUS
    <2>1. place[u].position \in Nat /\ place[u].position > p
      BY <1>3, <1>a
    <2> QED
      BY <1>2, <2>1
  <1> HIDE DEF p, g, moved
  <1>5. ASSUME NEW u \in Terminal, place'[u] # None
        PROVE  /\ u # t /\ place[u] # None /\ place'[u].group = place[u].group
               /\ place'[u].position = IF moved(u) THEN place[u].position - 1 ELSE place[u].position
    <2>1. u # t /\ place[u] # None
      BY <1>4, <1>5
    <2>2. CASE moved(u)
      <3>1. place'[u] = [group |-> place[u].group, position |-> place[u].position - 1]
        BY <1>4, <2>1, <2>2
      <3>2. place'[u].group = place[u].group /\ place'[u].position = place[u].position - 1
        BY ONLY <3>1
      <3> QED
        BY <2>1, <2>2, <3>2
    <2>3. CASE ~moved(u)
      BY <1>4, <2>1, <2>3
    <2> QED
      BY <2>1, <2>2, <2>3
  <1>6. \A u \in Terminal : place'[u] = None <=> u = t \/ place[u] = None
    <2> SUFFICES ASSUME NEW u \in Terminal, u # t, place[u] # None PROVE place'[u] # None
      BY <1>4, <1>5
    <2>1. [group |-> place[u].group, position |-> place[u].position - 1] \in Place \/ ~moved(u)
      BY <1>3, <1>c DEF Place
    <2> QED
      BY <1>4, <2>1, NoneIsNone
  <1>7. place' \in [Terminal -> Place \cup {None}]
    <2>1. \A u \in Terminal : place'[u] \in Place \cup {None}
      <3> SUFFICES ASSUME NEW u \in Terminal, place'[u] # None PROVE place'[u] \in Place
        OBVIOUS
      <3>1. u # t /\ place[u] # None
        BY <1>5
      <3>2. CASE moved(u)
        <4>1. place'[u] = [group |-> place[u].group, position |-> place[u].position - 1]
          BY <1>4, <3>1, <3>2
        <4>2. place[u].group \in Group /\ place[u].position - 1 \in Nat
          BY <1>3, <1>c, <3>1, <3>2
        <4> QED
          BY <4>1, <4>2 DEF Place
      <3>3. CASE ~moved(u)
        BY <1>1, <1>4, <3>1, <3>3
      <3> QED
        BY <3>2, <3>3
    <2>2. place' = [u \in Terminal |-> place'[u]]
      BY DEF Removed
    <2> QED
      BY <2>1, <2>2
  <1>8. ASSUME NEW a \in Terminal, place'[a] # None, NEW k \in 0 .. place'[a].position - 1
        PROVE  \E u \in Terminal : place'[u] = [group |-> place'[a].group, position |-> k]
    <2>1. /\ a # t /\ place[a] # None /\ place'[a].group = place[a].group
          /\ place'[a].position = IF moved(a) THEN place[a].position - 1 ELSE place[a].position
      BY <1>5, <1>8
    <2>2. k \in Nat /\ place[a].position \in Nat /\ k <= place'[a].position - 1
          /\ place[a].group \in Group
      <3>1. place[a].position \in Nat /\ place[a].group \in Group
        BY <1>3, <2>1
      <3>2. place'[a].position \in Int
        BY <2>1, <3>1
      <3> QED
        BY <3>1, <3>2
    <2>3. ASSUME NEW j \in 0 .. place[a].position - 1
          PROVE  \E u \in Terminal : place[u] = [group |-> place[a].group, position |-> j]
      BY <2>1, <2>3 DEF WellFormed
    <2>4. CASE place[a].group # g \/ k < p
      <3>1. k \in 0 .. place[a].position - 1
        BY <2>1, <2>2
      <3>2. PICK u \in Terminal : place[u] = [group |-> place[a].group, position |-> k]
        BY <2>3, <3>1
      <3>3. place[u].group = place[a].group /\ place[u].position = k /\ place[u] # None
        <4>1. [group |-> place[a].group, position |-> k] \in Place
          BY <2>2 DEF Place
        <4> QED
          BY <3>2, <4>1, NoneIsNone
      <3>4. ~moved(u) /\ u # t
        BY <1>2, <1>a, <1>b, <2>2, <2>4, <3>3
      <3> QED
        BY <1>4, <2>1, <3>2, <3>4
    <2>5. CASE place[a].group = g /\ ~(k < p)
      <3>1. place[a].position # p
        <4> SUFFICES ASSUME place[a].position = p PROVE FALSE
          OBVIOUS
        <4>1. place[a] = place[t]
          BY <1>b, <1>3, <2>1, <2>5
        <4> QED
          BY <2>1, <4>1 DEF WellFormed
      <3>2. moved(a) /\ k + 1 \in 0 .. place[a].position - 1
        BY <1>2, <1>a, <2>1, <2>2, <2>5, <3>1
      <3>3. PICK u \in Terminal : place[u] = [group |-> place[a].group, position |-> k + 1]
        BY <2>3, <3>2
      <3>4. place[u].group = g /\ place[u].position = k + 1 /\ place[u] # None
        <4>1. [group |-> place[a].group, position |-> k + 1] \in Place
          BY <2>2 DEF Place
        <4> QED
          BY <2>5, <3>3, <4>1, NoneIsNone
      <3>5. moved(u) /\ u # t /\ place[u].position - 1 = k
        BY <1>2, <1>a, <1>b, <2>2, <2>5, <3>4
      <3> QED
        BY <1>4, <2>1, <2>5, <3>4, <3>5
    <2> QED
      BY <2>4, <2>5
  <1>9. ASSUME NEW a \in Terminal, NEW b \in Terminal, place'[a] = place'[b], place'[a] # None
        PROVE  a = b
    <2>1. /\ a # t /\ place[a] # None /\ place'[a].group = place[a].group
          /\ place'[a].position = IF moved(a) THEN place[a].position - 1 ELSE place[a].position
      BY <1>5, <1>9
    <2>2. /\ b # t /\ place[b] # None /\ place'[b].group = place[b].group
          /\ place'[b].position = IF moved(b) THEN place[b].position - 1 ELSE place[b].position
      BY <1>5, <1>9
    <2>3. place[a].group = place[b].group /\ place[a].position \in Nat /\ place[b].position \in Nat
      BY <1>3, <1>9, <2>1, <2>2
    <2>4. ASSUME NEW c \in Terminal, place[c] # None, c # t, place[c].group = g
          PROVE  place[c].position # p
      <3> SUFFICES ASSUME place[c].position = p PROVE FALSE
        OBVIOUS
      <3>1. place[c] = place[t]
        BY <1>b, <1>3, <2>4
      <3> QED
        BY <2>4, <3>1 DEF WellFormed
    <2>5. place[a].position = place[b].position
      BY <1>2, <1>a, <1>9, <2>1, <2>2, <2>3, <2>4
    <2>6. place[a] = place[b]
      BY <1>3, <2>1, <2>2, <2>3, <2>5
    <2> QED
      BY <2>1, <2>6 DEF WellFormed
  <1>10. WellFormed(place)'
    BY <1>8, <1>9 DEF WellFormed
  <1>11. /\ catalog' \in [Terminal -> Tree \cup {None}]
         /\ \A u \in Terminal : catalog'[u] = None <=> u = t \/ catalog[u] = None
    BY DEF Removed, TypeOK
  <1> QED
    BY <1>6, <1>7, <1>10, <1>11

-----------------------------------------------------------------------------
(* What every step does to the checkpoints.                                 *)

\* What a step owes: one checkpoint runs, whoever waits has a request, outcomes stand.
Steady ==
  /\ Checkpoints' /\ OneTerminalRuns' /\ WaitingScreenHasRequest'
  /\ \A t \in Terminal : PuzzleIsKept(t) /\ CompletionIsDurable(t)

\* The parts of the invariant that are needed everywhere.
LEMMA InvParts ==
  ASSUME Inv
  PROVE  /\ TypeOK /\ OneTerminalRuns /\ NothingOutlivesBroadcast /\ WaitingScreenHasRequest
         /\ OneRequestAtATime
         /\ active # None => active \in Terminal /\ runtimes[active] \in Runtime
                             /\ runtimes[active] # None /\ runtimes[active].active /\ broadcast
         /\ \A t \in Terminal : runtimes[t] # None => runtimes[t] \in Runtime
         /\ \A t \in Terminal : runtimes[t] # None /\ t # active => ~runtimes[t].active
  <1>1. TypeOK /\ OneTerminalRuns
    BY DEF Inv, TerminalsAreConsistent
  <1>2. NothingOutlivesBroadcast /\ WaitingScreenHasRequest /\ OneRequestAtATime
    BY DEF Inv, TerminalsAreConsistent
  <1>3. active # None => broadcast
    BY <1>2 DEF NothingOutlivesBroadcast
  <1> QED
    BY <1>1, <1>2, <1>3, ActiveRuntime

\* Steps that leave the checkpoints alone.
LEMMA SteadyUntouched ==
  ASSUME Inv, UNCHANGED <<runtimes, active, pendingCommand>>
  PROVE  Steady
  <1>1. TypeOK /\ OneTerminalRuns /\ WaitingScreenHasRequest
    BY InvParts
  <1>2. Checkpoints' /\ OneTerminalRuns' /\ WaitingScreenHasRequest'
    BY <1>1 DEF Checkpoints, TypeOK, OneTerminalRuns, WaitingScreenHasRequest
  <1>3. \A t \in Terminal : PuzzleIsKept(t) /\ CompletionIsDurable(t)
    BY DEF PuzzleIsKept, CompletionIsDurable
  <1> QED
    BY <1>2, <1>3 DEF Steady

\* Steps that change the active terminal's checkpoint.
LEMMA SteadyActive ==
  ASSUME Inv, active # None, NEW change \in Runtime, change.active,
         runtimes' = [runtimes EXCEPT ![active] = change], active' = active,
         change.exec = "pending" => pendingCommand' # None /\ pendingCommand'.terminal = active,
         pendingCommand' = pendingCommand \/ pendingCommand = None \/ pendingCommand.terminal = active,
         \/ change.hack = runtimes[active].hack
         \/ runtimes[active].hack \notin {"solved", "failed"}
         \/ \E target \in Payload : ResetFailedHack(target),
         change.done => \/ runtimes[active].done \/ active \in done'
                        \/ asked # None /\ asked' = None /\ asked.terminal = active /\ asked.done
  PROVE  Steady
  <1>1. TypeOK /\ OneTerminalRuns /\ WaitingScreenHasRequest /\ runtimes[active] # None
        /\ active \in Terminal /\ change # None
    BY InvParts, NoneIsNone
  <1>2. /\ Checkpoints' /\ OneTerminalRuns' /\ runtimes'[active] = change
        /\ \A t \in Terminal : t # active => runtimes'[t] = runtimes[t]
    BY <1>1, ActiveChanges
  <1>3. WaitingScreenHasRequest'
    BY <1>1, <1>2 DEF WaitingScreenHasRequest
  <1>4. \A t \in Terminal : PuzzleIsKept(t)
    BY <1>1, <1>2 DEF PuzzleIsKept
  <1>5. \A t \in Terminal : CompletionIsDurable(t)
    BY <1>1, <1>2 DEF CompletionIsDurable
  <1> QED
    BY <1>2, <1>3, <1>4, <1>5 DEF Steady

\* The controller's moves and the Overseer's hand on the active terminal.
LEMMA SteadyMoves ==
  ASSUME Inv,
         \/ \E outcome \in {"solved", "failed"} : ApplyGuess(outcome)
         \/ EnterFolder \/ GoBack \/ ForceHackSuccess \/ RequestCommand
  PROVE  Steady
  <1>1. /\ active # None => active \in Terminal /\ runtimes[active] \in Runtime
                            /\ runtimes[active] # None /\ runtimes[active].active
        /\ TypeOK /\ WaitingScreenHasRequest
    BY InvParts
  <1>2. ASSUME NEW h \in {"solved", "failed"}, active # None, Unfinished(active),
               runtimes' = [runtimes EXCEPT ![active].hack = h], UNCHANGED <<active, pendingCommand>>
        PROVE  Steady
    <2> DEFINE change == [runtimes[active] EXCEPT !.hack = h]
    <2>1. change \in Runtime /\ change.active = runtimes[active].active
          /\ change.exec = runtimes[active].exec /\ change.done = runtimes[active].done
      BY <1>1, <1>2 DEF Runtime
    <2>2. runtimes' = [runtimes EXCEPT ![active] = change]
      BY <1>1, <1>2
    <2> HIDE DEF change
    <2>3. change.exec = "pending" => pendingCommand' # None /\ pendingCommand'.terminal = active
      BY <1>1, <1>2, <2>1 DEF WaitingScreenHasRequest
    <2>4. runtimes[active].hack \notin {"solved", "failed"}
      BY <1>2 DEF Unfinished
    <2> QED
      BY <1>1, <1>2, <2>1, <2>2, <2>3, <2>4, SteadyActive
  <1>3. ASSUME NEW h \in {"solved", "failed"}, ApplyGuess(h) PROVE Steady
    BY <1>2, <1>3 DEF ApplyGuess, CanAct, requests
  <1>4. ASSUME ForceHackSuccess PROVE Steady
    BY <1>2, <1>4 DEF ForceHackSuccess, Unfinished, requests
  <1>5. ASSUME EnterFolder PROVE Steady
    <2> DEFINE change == [runtimes[active] EXCEPT !.nav = "inner"]
    <2>1. active # None /\ UNCHANGED <<active, pendingCommand>>
      BY <1>5 DEF EnterFolder, CanAct, requests
    <2>2. change \in Runtime /\ change.active = runtimes[active].active
          /\ change.exec = runtimes[active].exec /\ change.done = runtimes[active].done
          /\ change.hack = runtimes[active].hack
      BY <1>1, <2>1 DEF Runtime
    <2>3. runtimes' = [runtimes EXCEPT ![active] = change]
      BY <1>1, <1>5 DEF EnterFolder
    <2> HIDE DEF change
    <2>4. change.exec = "pending" => pendingCommand' # None /\ pendingCommand'.terminal = active
      BY <1>1, <2>1, <2>2 DEF WaitingScreenHasRequest
    <2> QED
      BY <1>1, <2>1, <2>2, <2>3, <2>4, SteadyActive
  <1>6. ASSUME GoBack PROVE Steady
    <2> DEFINE change == [runtimes[active] EXCEPT !.nav = "root", !.exec = "none"]
    <2>1. active # None /\ UNCHANGED <<active, pendingCommand>>
      BY <1>6 DEF GoBack, CanAct, requests
    <2>2. change \in Runtime /\ change.active = runtimes[active].active
          /\ change.exec = "none" /\ change.done = runtimes[active].done
          /\ change.hack = runtimes[active].hack
      BY <1>1, <2>1 DEF Runtime
    <2>3. runtimes' = [runtimes EXCEPT ![active] = change]
      BY <1>1, <1>6, <2>1 DEF GoBack, TypeOK
    <2> HIDE DEF change
    <2> QED
      BY <1>1, <2>1, <2>2, <2>3, SteadyActive
  <1>7. ASSUME RequestCommand PROVE Steady
    <2> DEFINE change == [runtimes[active] EXCEPT !.exec = "pending"]
    <2>1. /\ active # None /\ pendingCommand = None /\ active' = active
          /\ pendingCommand' = [terminal |-> active, command |-> runtimes[active].tree.command,
                                mode |-> Mode(runtimes[active])]
      BY <1>7 DEF RequestCommand, CanAct
    <2>2. change \in Runtime /\ change.active = runtimes[active].active
          /\ change.done = runtimes[active].done /\ change.hack = runtimes[active].hack
      BY <1>1, <2>1 DEF Runtime
    <2>3. runtimes' = [runtimes EXCEPT ![active] = change]
      BY <1>1, <1>7 DEF RequestCommand
    <2> HIDE DEF change
    <2>4. pendingCommand' \in Command /\ pendingCommand'.terminal = active
      BY <1>1, <2>1 DEF Command, Runtime, Tree, Mode
    <2> QED
      BY <1>1, <2>1, <2>2, <2>3, <2>4, NoneIsNone, SteadyActive
  <1> QED
    BY <1>3, <1>4, <1>5, <1>6, <1>7

\* A target of a desktop call carries the command states the call has read.
LEMMA PayloadTyped ==
  ASSUME TypeOK, NEW target \in Payload
  PROVE  /\ target \in Target /\ asked # None
         /\ target.terminal = asked.terminal /\ target.done = asked.done
  <1>1. asked # None /\ asked \in Asked
    BY DEF Payload, TypeOK
  <1>2. PICK tree \in Draft[asked.terminal] :
          target = [terminal |-> asked.terminal, tree |-> tree, done |-> asked.done]
    BY <1>1 DEF Payload
  <1>3. asked.terminal \in Terminal /\ asked.done \in BOOLEAN
    BY <1>1 DEF Asked
  <1>4. tree \in Tree
    BY <1>3, TerminalAssumption
  <1> QED
    BY <1>1, <1>2, <1>3, <1>4 DEF Target

\* The reset of a failed puzzle and an edit of the active terminal.
LEMMA SteadyReplaced ==
  ASSUME Inv,
         \/ \E target \in Payload : ResetFailedHack(target)
         \/ active # None /\ \E tree \in Draft[active] : UpdateLiveTerminal(tree)
  PROVE  Steady
  <1>1. /\ active # None => active \in Terminal /\ runtimes[active] \in Runtime
                            /\ runtimes[active] # None /\ runtimes[active].active
        /\ TypeOK /\ WaitingScreenHasRequest
    BY InvParts
  <1>2. ASSUME NEW target \in Payload, ResetFailedHack(target) PROVE Steady
    <2> DEFINE change == CreateRuntime(target)
    <2>1. /\ target \in Target /\ asked # None
          /\ target.terminal = asked.terminal /\ target.done = asked.done
      BY <1>1, PayloadTyped
    <2>2. /\ active # None /\ target.terminal = active /\ asked' = None
          /\ UNCHANGED <<active, pendingCommand>>
          /\ runtimes' = [runtimes EXCEPT ![active] = change]
      BY <1>1, <1>2, TerminalAssumption DEF ResetFailedHack, requests
    <2>3. change \in Runtime /\ change.active = TRUE /\ change.exec = "none"
          /\ change.done = target.done
      BY <2>1, CreateRuntimeTyped
    <2> HIDE DEF change
    <2>4. change.active /\ (change.exec = "pending" =>
            pendingCommand' # None /\ pendingCommand'.terminal = active)
      BY <2>3
    <2>5. change.done => asked # None /\ asked' = None /\ asked.terminal = active /\ asked.done
      BY <2>1, <2>2, <2>3
    <2> QED
      BY <1>2, <2>2, <2>3, <2>4, <2>5, SteadyActive
  <1>3. ASSUME active # None, NEW tree \in Draft[active], UpdateLiveTerminal(tree) PROVE Steady
    <2> DEFINE target == [terminal |-> active, tree |-> tree, done |-> runtimes[active].done]
               change == UpdateRuntime(runtimes[active], target)
    <2>1. target \in Target /\ target.done = runtimes[active].done
      <3>1. tree \in Tree /\ runtimes[active].done \in BOOLEAN
        BY <1>1, <1>3, TerminalAssumption DEF Runtime
      <3> QED
        BY <1>1, <1>3, <3>1 DEF Target
    <2>2. /\ UNCHANGED <<active, pendingCommand>>
          /\ runtimes' = [runtimes EXCEPT ![active] = change]
      BY <1>1, <1>3 DEF UpdateLiveTerminal, requests, TypeOK
    <2> HIDE DEF target
    <2>3. change \in Runtime /\ change.active = runtimes[active].active
          /\ change.hack = runtimes[active].hack /\ change.exec = runtimes[active].exec
          /\ change.done = runtimes[active].done
      BY <1>1, <1>3, <2>1, UpdateRuntimeTyped
    <2> HIDE DEF change
    <2>4. change.exec = "pending" => pendingCommand' # None /\ pendingCommand'.terminal = active
      BY <1>1, <1>3, <2>2, <2>3 DEF WaitingScreenHasRequest
    <2> QED
      BY <1>1, <1>3, <2>2, <2>3, <2>4, SteadyActive
  <1> QED
    BY <1>2, <1>3

\* The decisions on a command: nobody else waits for the request that is gone.
LEMMA SteadyDecisions ==
  ASSUME Inv, RejectCommand \/ ShowCommand \/ ExecuteCommand \/ FailCommand
  PROVE  Steady
  <1>1. /\ active # None => active \in Terminal /\ runtimes[active] \in Runtime
                            /\ runtimes[active] # None /\ runtimes[active].active
        /\ TypeOK
    BY InvParts
  <1>2. Decidable /\ pendingCommand # None /\ pendingCommand.terminal = active
    BY DEF RejectCommand, ShowCommand, ExecuteCommand, FailCommand, Decidable
  <1>3. active # None
    <2>1. pendingCommand \in Command
      BY <1>1, <1>2 DEF TypeOK
    <2> QED
      BY <1>2, <2>1, NoneIsNone DEF Command
  <1>4. ASSUME NEW change \in Runtime, Decided(change), change.active = runtimes[active].active,
               change.exec # "pending", change.hack = runtimes[active].hack,
               change.done => runtimes[active].done \/ active \in done'
        PROVE  Steady
    <2>1. active' = active /\ runtimes' = [runtimes EXCEPT ![active] = change]
      BY <1>4 DEF Decided
    <2> QED
      BY <1>1, <1>2, <1>3, <1>4, <2>1, SteadyActive
  <1>5. ASSUME NEW e \in {"none", "rejected"}, Decided([runtimes[active] EXCEPT !.exec = e])
        PROVE  Steady
    <2> DEFINE change == [runtimes[active] EXCEPT !.exec = e]
    <2>1. change \in Runtime /\ change.active = runtimes[active].active /\ change.exec = e
          /\ change.hack = runtimes[active].hack /\ change.done = runtimes[active].done
      BY <1>1, <1>3 DEF Runtime
    <2>2. Decided(change)
      BY <1>5
    <2> HIDE DEF change
    <2> QED
      BY <1>4, <2>1, <2>2
  <1>6. ASSUME Decided([runtimes[active] EXCEPT !.exec = "none", !.nav = "result"]) PROVE Steady
    <2> DEFINE change == [runtimes[active] EXCEPT !.exec = "none", !.nav = "result"]
    <2>1. change \in Runtime /\ change.active = runtimes[active].active /\ change.exec = "none"
          /\ change.hack = runtimes[active].hack /\ change.done = runtimes[active].done
      BY <1>1, <1>3 DEF Runtime
    <2>2. Decided(change)
      BY <1>6
    <2> HIDE DEF change
    <2> QED
      BY <1>4, <2>1, <2>2
  <1>7. ASSUME Decided([runtimes[active] EXCEPT !.exec = "none", !.nav = "result", !.done = TRUE]),
               active \in done'
        PROVE  Steady
    <2> DEFINE change == [runtimes[active] EXCEPT !.exec = "none", !.nav = "result", !.done = TRUE]
    <2>1. change \in Runtime /\ change.active = runtimes[active].active /\ change.exec = "none"
          /\ change.hack = runtimes[active].hack
      BY <1>1, <1>3 DEF Runtime
    <2>2. Decided(change)
      BY <1>7
    <2> HIDE DEF change
    <2> QED
      BY <1>4, <1>7, <2>1, <2>2
  <1> QED
    BY <1>5, <1>6, <1>7 DEF RejectCommand, ShowCommand, ExecuteCommand, FailCommand

\* A refused transition is shown on the active terminal.
LEMMA SteadyRejected ==
  ASSUME Inv, RejectNavigation
  PROVE  Steady
  <1>1. /\ active # None => active \in Terminal /\ runtimes[active] \in Runtime
                            /\ runtimes[active] # None /\ runtimes[active].active
        /\ TypeOK
    BY InvParts
  <1>2. /\ UNCHANGED <<active, pendingCommand>>
        /\ pendingNavigation # None /\ active = pendingNavigation.source
    BY DEF RejectNavigation, CanResolveNavigation
  <1>3. active # None
    <2>1. pendingNavigation \in Navigation
      BY <1>1, <1>2 DEF TypeOK
    <2> QED
      BY <1>2, <2>1, NoneIsNone DEF Navigation
  <1>4. CASE pendingNavigation.direction = "return"
    <2>1. runtimes' = runtimes
      BY <1>4 DEF RejectNavigation
    <2> QED
      BY <1>2, <2>1, SteadyUntouched
  <1>5. CASE pendingNavigation.direction # "return"
    <2> DEFINE change == [runtimes[active] EXCEPT !.exec = "denied"]
    <2>1. change \in Runtime /\ change.active = runtimes[active].active /\ change.exec = "denied"
          /\ change.hack = runtimes[active].hack /\ change.done = runtimes[active].done
      BY <1>1, <1>3 DEF Runtime
    <2>2. runtimes' = [runtimes EXCEPT ![active] = change]
      BY <1>1, <1>5 DEF RejectNavigation, TypeOK
    <2> HIDE DEF change
    <2>3. change.active /\ change.exec # "pending"
      BY <1>1, <1>3, <2>1
    <2> QED
      BY <1>2, <1>3, <2>1, <2>2, <2>3, SteadyActive
  <1> QED
    BY <1>4, <1>5

\* The checkpoint of a terminal whose command was reset waits for nothing.
LEMMA SteadyReset ==
  ASSUME Inv, NEW t \in Terminal, NEW wide \in BOOLEAN, ResetCommandStates(t, wide)
  PROVE  Steady
  <1> DEFINE affected == runtimes[t] # None /\ (wide => runtimes[t].done)
  <1>1. TypeOK /\ OneTerminalRuns /\ WaitingScreenHasRequest
        /\ (runtimes[t] # None => runtimes[t] \in Runtime)
    BY InvParts
  <1>2. /\ active' = active
        /\ pendingCommand' = IF affected /\ pendingCommand # None /\ pendingCommand.terminal = t
                             THEN None ELSE pendingCommand
    BY DEF ResetCommandStates
  <1>3. CASE runtimes[t] = None
    BY <1>2, <1>3, SteadyUntouched DEF ResetCommandStates
  <1>4. CASE runtimes[t] # None
    <2> DEFINE r == runtimes[t]
               change == [r EXCEPT !.done = FALSE,
                                   !.nav  = IF affected /\ @ = "result" THEN "root" ELSE @,
                                   !.exec = IF affected /\ @ # "denied" THEN "none" ELSE @]
    <2>1. r \in Runtime
      BY <1>1, <1>4
    <2>2. runtimes' = [runtimes EXCEPT ![t] = change]
      BY <1>1, <1>4 DEF ResetCommandStates, TypeOK
    <2>3. change \in Runtime /\ change.active = r.active /\ change.hack = r.hack
          /\ ~change.done /\ (change.exec = "pending" => r.exec = "pending" /\ ~affected)
      BY ONLY <2>1 DEF Runtime
    <2> HIDE DEF change
    <2>4. /\ runtimes'[t] = change /\ runtimes'[t] # None
          /\ \A u \in Terminal : u # t => runtimes'[u] = runtimes[u]
          /\ runtimes' \in [Terminal -> Runtime \cup {None}]
      BY <1>1, <2>2, <2>3, NoneIsNone DEF TypeOK
    <2>5. OneTerminalRuns'
      BY <1>1, <1>2, <1>4, <2>3, <2>4 DEF OneTerminalRuns
    <2>6. WaitingScreenHasRequest'
      BY <1>1, <1>2, <1>4, <2>3, <2>4 DEF WaitingScreenHasRequest
    <2>7. \A u \in Terminal : PuzzleIsKept(u) /\ CompletionIsDurable(u)
      BY <1>4, <2>3, <2>4 DEF PuzzleIsKept, CompletionIsDurable
    <2> QED
      BY <2>4, <2>5, <2>6, <2>7 DEF Steady, Checkpoints
  <1> QED
    BY <1>3, <1>4

\* A broadcast starts and ends without checkpoints.
LEMMA SteadyBroadcast ==
  ASSUME Inv, StartBroadcast \/ EndBroadcast
  PROVE  Steady
  <1>1. runtimes' = [t \in Terminal |-> None] /\ active' = None
    BY DEF StartBroadcast, EndBroadcast, NoTerminals
  <1>2. Checkpoints' /\ OneTerminalRuns' /\ WaitingScreenHasRequest'
    BY <1>1, NoneIsNone DEF Checkpoints, OneTerminalRuns, WaitingScreenHasRequest
  <1>3. ~(broadcast /\ broadcast')
    BY DEF StartBroadcast, EndBroadcast
  <1> QED
    BY <1>1, <1>2, <1>3 DEF Steady, PuzzleIsKept, CompletionIsDurable

\* The Overseer's requests quiet all checkpoints.
LEMMA SteadyQuiet ==
  ASSUME Inv,
         \/ \E target \in Payload : RaiseSwitch(target)
         \/ RaiseSwitch(None) \/ RequestTerminalClear \/ ClearNavigation
  PROVE  Steady
  <1>1. /\ TypeOK /\ OneTerminalRuns
        /\ active # None => active \in Terminal /\ runtimes[active] \in Runtime /\ runtimes[active] # None
        /\ Quiet(runtimes) \in [Terminal -> Runtime \cup {None}]
    BY InvParts, QuietTyped
  <1>2. \A t \in Terminal :
          /\ Quiet(runtimes)[t] = None <=> runtimes[t] = None
          /\ runtimes[t] # None =>
               /\ Quiet(runtimes)[t] \in Runtime
               /\ Quiet(runtimes)[t].active = runtimes[t].active
               /\ Quiet(runtimes)[t].hack = runtimes[t].hack
               /\ Quiet(runtimes)[t].done = runtimes[t].done
               /\ Quiet(runtimes)[t].exec = "none"
    BY <1>1, QuietTyped
  <1>3. CASE runtimes' = Quiet(runtimes) /\ active' = active
    <2>1. Checkpoints' /\ OneTerminalRuns' /\ WaitingScreenHasRequest'
      BY <1>1, <1>2, <1>3 DEF Checkpoints, OneTerminalRuns, WaitingScreenHasRequest
    <2>2. \A t \in Terminal : PuzzleIsKept(t) /\ CompletionIsDurable(t)
      BY <1>2, <1>3 DEF PuzzleIsKept, CompletionIsDurable
    <2> QED
      BY <2>1, <2>2 DEF Steady
  <1>4. CASE active # None /\ active' = None /\ runtimes' = [Quiet(runtimes) EXCEPT ![active].active = FALSE]
    <2> DEFINE q == Quiet(runtimes)[active]
               change == [q EXCEPT !.active = FALSE]
    <2>1. q \in Runtime /\ q.hack = runtimes[active].hack /\ q.done = runtimes[active].done /\ q.exec = "none"
      BY <1>1, <1>2, <1>4
    <2>2. change \in Runtime /\ change.active = FALSE /\ change.hack = q.hack /\ change.done = q.done
          /\ change.exec = "none"
      BY ONLY <2>1 DEF Runtime
    <2>3. runtimes' = [Quiet(runtimes) EXCEPT ![active] = change]
      BY <1>4
    <2> HIDE DEF change, q
    <2>4. /\ runtimes'[active] = change /\ runtimes'[active] # None
          /\ \A t \in Terminal : t # active => runtimes'[t] = Quiet(runtimes)[t]
          /\ runtimes' \in [Terminal -> Runtime \cup {None}]
      BY <1>1, <1>4, <2>2, <2>3, NoneIsNone
    <2>5. Checkpoints' /\ OneTerminalRuns' /\ WaitingScreenHasRequest'
      BY <1>1, <1>2, <1>4, <2>2, <2>4, NoneIsNone
      DEF Checkpoints, OneTerminalRuns, WaitingScreenHasRequest
    <2>6. \A t \in Terminal : PuzzleIsKept(t) /\ CompletionIsDurable(t)
      BY <1>1, <1>2, <1>4, <2>1, <2>2, <2>4 DEF PuzzleIsKept, CompletionIsDurable
    <2> QED
      BY <2>5, <2>6 DEF Steady
  <1> QED
    BY <1>3, <1>4 DEF RaiseSwitch, RequestTerminalClear, ClearNavigation

\* An activation suspends the terminal that was active and enters the other.
LEMMA SteadyActivation ==
  ASSUME Inv, NEW target \in Payload, RequestTerminalActivation(target)
  PROVE  Steady
  <1> DEFINE t == target.terminal
             quiet == Quiet(runtimes)
  <1>1. /\ TypeOK /\ OneTerminalRuns
        /\ active # None => active \in Terminal /\ runtimes[active] \in Runtime /\ runtimes[active] # None
        /\ quiet \in [Terminal -> Runtime \cup {None}]
    BY InvParts, QuietTyped
  <1>2. \A u \in Terminal :
          /\ quiet[u] = None <=> runtimes[u] = None
          /\ runtimes[u] # None =>
               /\ quiet[u] \in Runtime /\ quiet[u].active = runtimes[u].active
               /\ quiet[u].hack = runtimes[u].hack /\ quiet[u].done = runtimes[u].done
               /\ quiet[u].exec = "none"
    BY <1>1, QuietTyped
  <1>3. target \in Target /\ asked # None /\ t = asked.terminal /\ target.done = asked.done
    BY <1>1, PayloadTyped
  <1>4. t \in Terminal /\ runtimes[t] \in Runtime \cup {None}
    BY <1>1, <1>3 DEF Target, TypeOK
  <1>5. /\ active' = t /\ asked' = None
        /\ runtimes' = [u \in Terminal |->
                          CASE u = t -> Entered(runtimes[t], target)
                            [] u # t /\ u = active -> Suspended(quiet[u])
                            [] OTHER -> quiet[u]]
    BY DEF RequestTerminalActivation
  <1> HIDE DEF quiet, t
  <1>6. /\ runtimes'[t] \in Runtime /\ runtimes'[t].active = TRUE /\ runtimes'[t].exec = "none"
        /\ runtimes'[t].done = target.done /\ (runtimes[t] # None => runtimes'[t].hack = runtimes[t].hack)
    <2> DEFINE r == runtimes[t]
               q == Entered(r, target)
    <2>1. runtimes'[t] = q
      BY <1>4, <1>5
    <2>2. r \in Runtime \cup {None} /\ target \in Target
      BY <1>3, <1>4
    <2> HIDE DEF r
    <2>3. q \in Runtime /\ q.active = TRUE /\ q.exec = "none" /\ q.done = target.done
          /\ (r # None => q.hack = r.hack)
      BY <2>2, EnteredTyped
    <2> QED
      BY <2>1, <2>3 DEF r
  <1>7. ASSUME NEW u \in Terminal, u # t, u = active
        PROVE  /\ runtimes'[u] \in Runtime /\ runtimes'[u].active = FALSE /\ runtimes'[u].exec = "none"
               /\ runtimes'[u].done = runtimes[u].done /\ runtimes'[u].hack = runtimes[u].hack
               /\ runtimes[u] # None
    <2>1. runtimes'[u] = Suspended(quiet[u])
      BY <1>5, <1>7
    <2>2. quiet[u] \in Runtime /\ quiet[u].exec = "none" /\ runtimes[u] # None
          /\ quiet[u].done = runtimes[u].done /\ quiet[u].hack = runtimes[u].hack
      BY <1>1, <1>2, <1>7, NoneIsNone
    <2> QED
      BY <2>1, <2>2, SuspendedTyped
  <1>8. \A u \in Terminal : u # t /\ u # active => runtimes'[u] = quiet[u]
    BY <1>5
  <1>9. Checkpoints'
    <2>1. \A u \in Terminal : runtimes'[u] \in Runtime \cup {None}
      BY <1>1, <1>6, <1>7, <1>8
    <2> QED
      BY <1>5, <2>1 DEF Checkpoints
  <1>10. OneTerminalRuns'
    BY <1>1, <1>2, <1>4, <1>5, <1>6, <1>7, <1>8, NoneIsNone DEF OneTerminalRuns
  <1>11. WaitingScreenHasRequest'
    BY <1>2, <1>6, <1>7, <1>8 DEF WaitingScreenHasRequest
  <1>12. \A u \in Terminal : PuzzleIsKept(u)
    BY <1>2, <1>6, <1>7, <1>8, NoneIsNone DEF PuzzleIsKept
  <1>13. \A u \in Terminal : CompletionIsDurable(u)
    BY <1>2, <1>3, <1>5, <1>6, <1>7, <1>8 DEF CompletionIsDurable
  <1> QED
    BY <1>9, <1>10, <1>11, <1>12, <1>13 DEF Steady

\* The switch decision keeps or discards the unfinished puzzle and enters the target that
\* was captured with it.
LEMMA SteadySwitch ==
  ASSUME Inv, NEW preserve \in BOOLEAN, ResolveTerminalSwitch(preserve)
  PROVE  Steady
  <1> DEFINE target == pendingSwitch.target
             left == [runtimes EXCEPT ![active] = IF preserve THEN Suspended(@) ELSE None]
  <1>1. /\ TypeOK /\ OneTerminalRuns /\ WaitingScreenHasRequest
        /\ active # None => active \in Terminal /\ runtimes[active] \in Runtime /\ runtimes[active] # None
        /\ \A t \in Terminal : runtimes[t] # None /\ t # active => ~runtimes[t].active
    BY InvParts
  <1>2. /\ pendingSwitch # None /\ active = pendingSwitch.source /\ pendingCommand' = pendingCommand
        /\ IF target = None
           THEN active' = None /\ runtimes' = left
           ELSE /\ active' = target.terminal
                /\ runtimes' = [left EXCEPT ![target.terminal] = Entered(@, target)]
    BY DEF ResolveTerminalSwitch, CanResolveSwitch, requests
  <1>3. /\ active \in Terminal /\ active # None /\ target \in Target \cup {None}
        /\ target # None => target.terminal \in Terminal
    <2>1. pendingSwitch \in Switch
      BY <1>1, <1>2 DEF TypeOK
    <2> QED
      BY <1>2, <2>1, NoneIsNone DEF Switch, Target
  <1>4. /\ left \in [Terminal -> Runtime \cup {None}]
        /\ \A t \in Terminal : left[t] # None =>
             /\ left[t] \in Runtime /\ left[t].active = FALSE /\ runtimes[t] # None
             /\ left[t].hack = runtimes[t].hack /\ left[t].done = runtimes[t].done
             /\ left[t].exec = runtimes[t].exec
        /\ preserve => \A t \in Terminal : runtimes[t] # None => left[t] # None
    <2> DEFINE s == Suspended(runtimes[active])
               change == IF preserve THEN s ELSE None
    <2>1. s \in Runtime /\ s.active = FALSE /\ s.hack = runtimes[active].hack
          /\ s.exec = runtimes[active].exec /\ s.done = runtimes[active].done
      BY <1>1, <1>3, SuspendedTyped
    <2>2. left = [runtimes EXCEPT ![active] = change]
      BY <1>1, <1>3 DEF TypeOK
    <2> HIDE DEF s, left
    <2>3. change \in Runtime \cup {None} /\ runtimes \in [Terminal -> Runtime \cup {None}]
      BY <1>1, <2>1 DEF TypeOK
    <2>4. /\ left[active] = change /\ left \in [Terminal -> Runtime \cup {None}]
          /\ \A t \in Terminal : t # active => left[t] = runtimes[t]
      BY <1>3, <2>2, <2>3
    <2>5. \A t \in Terminal : t # active /\ runtimes[t] # None =>
            runtimes[t] \in Runtime /\ runtimes[t].active = FALSE
      BY <1>1, <2>3 DEF Runtime
    <2> QED
      BY <1>1, <1>3, <2>1, <2>4, <2>5, NoneIsNone
  <1> HIDE DEF left, target
  <1>6. \A t \in Terminal : CompletionIsDurable(t)
    BY DEF CompletionIsDurable
  <1>7. CASE target = None
    <2>1. active' = None /\ runtimes' = left
      BY <1>2, <1>7
    <2>2. Checkpoints' /\ OneTerminalRuns' /\ WaitingScreenHasRequest'
      BY <1>1, <1>2, <1>4, <2>1, NoneIsNone DEF Checkpoints, OneTerminalRuns, WaitingScreenHasRequest
    <2>3. \A t \in Terminal : PuzzleIsKept(t)
      BY <1>4, <2>1 DEF PuzzleIsKept
    <2> QED
      BY <1>6, <2>2, <2>3 DEF Steady
  <1>8. CASE target # None
    <2> DEFINE u == target.terminal
               change == Entered(left[u], target)
    <2>1. u \in Terminal /\ target \in Target /\ u # None
      BY <1>3, <1>8, NoneIsNone
    <2>2. /\ change \in Runtime /\ change.active = TRUE /\ change.exec = "none"
          /\ left[u] # None => change.hack = left[u].hack
      BY <1>4, <2>1, EnteredTyped
    <2>3. active' = u /\ runtimes' = [left EXCEPT ![u] = change]
      BY <1>2, <1>8
    <2> HIDE DEF u, change
    <2>4. /\ runtimes'[u] = change /\ runtimes'[u] # None /\ runtimes' \in [Terminal -> Runtime \cup {None}]
          /\ \A t \in Terminal : t # u => runtimes'[t] = left[t]
      BY <1>4, <2>1, <2>2, <2>3, NoneIsNone
    <2>5. Checkpoints' /\ OneTerminalRuns' /\ WaitingScreenHasRequest'
      BY <1>1, <1>2, <1>4, <2>1, <2>2, <2>3, <2>4 DEF Checkpoints, OneTerminalRuns, WaitingScreenHasRequest
    <2>6. \A t \in Terminal : PuzzleIsKept(t)
      BY <1>4, <2>2, <2>4 DEF PuzzleIsKept
    <2> QED
      BY <1>6, <2>5, <2>6 DEF Steady
  <1> QED
    BY <1>7, <1>8

\* A transition or a return suspends the active terminal and enters the other, with what
\* the document says of it.
LEMMA SteadyMoved ==
  ASSUME Inv, active # None, NEW t \in Terminal, catalog[t] # None, NEW level \in {"root", "inner"},
         MovedTo(t, level)
  PROVE  Steady
  <1> DEFINE left == [runtimes EXCEPT ![active] = Suspended(@)]
             s == Suspended(runtimes[active])
             target == Latest(t)
             entered == Entered(left[t], target)
             change == [entered EXCEPT !.nav = level]
  <1>1. /\ TypeOK /\ OneTerminalRuns /\ WaitingScreenHasRequest
        /\ active \in Terminal /\ runtimes[active] \in Runtime /\ runtimes[active] # None
        /\ \A u \in Terminal : runtimes[u] # None /\ u # active => ~runtimes[u].active
    BY InvParts
  <1>2. s \in Runtime /\ s.active = FALSE /\ s.hack = runtimes[active].hack
        /\ s.exec = runtimes[active].exec /\ s.done = runtimes[active].done
    BY <1>1, SuspendedTyped
  <1>3. left = [runtimes EXCEPT ![active] = s]
    BY <1>1 DEF TypeOK
  <1>4. active' = t /\ done' = done /\ pendingCommand' = pendingCommand
        /\ runtimes' = [left EXCEPT ![t] = change]
    <2>1. left \in [Terminal -> Runtime \cup {None}]
      BY <1>1, <1>2, <1>3 DEF TypeOK
    <2> QED
      BY <2>1 DEF MovedTo, document
  <1>5. target \in Target /\ target.done = (t \in done)
    BY <1>1 DEF Latest, Target, TypeOK
  <1> HIDE DEF left, s, target
  <1>6. /\ left \in [Terminal -> Runtime \cup {None}] /\ left[active] = s
        /\ \A u \in Terminal : u # active => left[u] = runtimes[u]
    BY <1>1, <1>2, <1>3 DEF TypeOK
  <1>7. \A u \in Terminal : left[u] # None =>
          /\ left[u] \in Runtime /\ left[u].active = FALSE /\ runtimes[u] # None
          /\ left[u].hack = runtimes[u].hack /\ left[u].done = runtimes[u].done
          /\ left[u].exec = runtimes[u].exec
    <2>1. \A u \in Terminal : u # active /\ runtimes[u] # None =>
            runtimes[u] \in Runtime /\ runtimes[u].active = FALSE
      BY <1>1 DEF Runtime, TypeOK
    <2> QED
      BY <1>1, <1>2, <1>6, <2>1
  <1>8. \A u \in Terminal : runtimes[u] # None => left[u] # None
    BY <1>2, <1>6, NoneIsNone
  <1>9. entered \in Runtime /\ entered.active = TRUE /\ entered.exec = "none"
        /\ entered.done = target.done /\ (left[t] # None => entered.hack = left[t].hack)
    BY <1>5, <1>6, EnteredTyped
  <1> HIDE DEF entered
  <1>10. change \in Runtime /\ change.active = TRUE /\ change.exec = "none"
         /\ change.done = target.done /\ (left[t] # None => change.hack = left[t].hack)
    BY <1>9 DEF Runtime
  <1> HIDE DEF change
  <1>11. /\ runtimes'[t] = change /\ runtimes'[t] # None /\ t # None
         /\ runtimes' \in [Terminal -> Runtime \cup {None}]
         /\ \A u \in Terminal : u # t => runtimes'[u] = left[u]
    BY <1>4, <1>6, <1>10, NoneIsNone
  <1>12. Checkpoints' /\ OneTerminalRuns' /\ WaitingScreenHasRequest'
    BY <1>1, <1>4, <1>7, <1>10, <1>11 DEF Checkpoints, OneTerminalRuns, WaitingScreenHasRequest
  <1>13. \A u \in Terminal : PuzzleIsKept(u)
    BY <1>7, <1>8, <1>10, <1>11 DEF PuzzleIsKept
  <1>14. \A u \in Terminal : CompletionIsDurable(u)
    BY <1>4, <1>5, <1>7, <1>10, <1>11 DEF CompletionIsDurable
  <1> QED
    BY <1>12, <1>13, <1>14 DEF Steady

\* An approved transition leads to another terminal of the group that is still there.
LEMMA TransitionTyped ==
  ASSUME Inv, ApproveTransition
  PROVE  /\ active \in Terminal /\ active # None /\ pendingNavigation \in Navigation
         /\ pendingNavigation.target \in Terminal /\ catalog[pendingNavigation.target] # None
         /\ SameTerminalGroup(active, pendingNavigation.target)
         /\ MovedTo(pendingNavigation.target, "root")
         /\ pendingNavigation.point \in Point /\ pendingNavigation.point.terminal = active
         /\ pendingNavigation.point.origin = "authored"
         /\ route' = Append(route, pendingNavigation.point)
  <1>1. pendingNavigation # None /\ active = pendingNavigation.source
        /\ pendingNavigation.direction = "forward"
    BY DEF ApproveTransition, CanResolveNavigation
  <1>2. pendingNavigation \in Navigation
    BY <1>1 DEF Inv, TypeOK
  <1>3. active \in Terminal /\ active # None /\ pendingNavigation.point \in Point
    BY <1>1, <1>2, NoneIsNone DEF Navigation
  <1>4. pendingNavigation.point.terminal = active /\ pendingNavigation.point.origin = "authored"
    BY <1>1 DEF Inv, NavigationIsKnown
  <1> QED
    BY <1>2, <1>3, <1>4 DEF ApproveTransition, TransitionTo

\* An approved return leads to the terminal of the latest return point.
LEMMA ReturnTyped ==
  ASSUME Inv, ApproveReturn
  PROVE  /\ active \in Terminal /\ active # None /\ pendingNavigation \in Navigation
         /\ pendingNavigation.target \in Terminal /\ catalog[pendingNavigation.target] # None
         /\ pendingNavigation.target = Last(route).terminal
         /\ \E level \in {"root", "inner"} : MovedTo(pendingNavigation.target, level)
         /\ route # <<>> /\ route' = Front(route)
  <1>1. /\ pendingNavigation # None /\ active = pendingNavigation.source
        /\ pendingNavigation.direction = "return" /\ route # <<>>
        /\ Last(route) = pendingNavigation.point
        /\ ValidTerminalReturnPoint(active, pendingNavigation.point)
        /\ MovedTo(pendingNavigation.target, Restored(pendingNavigation.point))
        /\ route' = Front(route)
    BY DEF ApproveReturn, ReturnStillOffered, CanResolveNavigation
  <1>2. pendingNavigation \in Navigation
    BY <1>1 DEF Inv, TypeOK
  <1>3. active \in Terminal /\ active # None /\ pendingNavigation.target \in Terminal
    BY <1>1, <1>2, NoneIsNone DEF Navigation
  <1>4. pendingNavigation.target = pendingNavigation.point.terminal
    BY <1>1 DEF Inv, NavigationIsKnown
  <1>5. catalog[pendingNavigation.target] # None
    BY <1>1, <1>3, <1>4 DEF ValidTerminalReturnPoint, SameTerminalGroup, Inv, TypeOK
  <1>6. Restored(pendingNavigation.point) \in {"root", "inner"}
    BY DEF Restored
  <1> QED
    BY <1>1, <1>2, <1>3, <1>4, <1>5, <1>6

\* Every step is steady.
LEMMA StepSteady == Inv /\ [Next]_vars => Steady
  <1> SUFFICES ASSUME Inv, [Next]_vars PROVE Steady
    OBVIOUS
  <1>1. CASE Overseer
    <2>1. ASSUME NEW t \in Terminal, ReadCommandStates(t) PROVE Steady
      BY <2>1, SteadyUntouched DEF ReadCommandStates, requests
    <2>2. ASSUME ActivationRefused \/ CancelTerminalSwitch PROVE Steady
      BY <2>2, SteadyUntouched DEF ActivationRefused, CancelTerminalSwitch, requests
    <2>3. ASSUME ForceHackSuccess PROVE Steady
      BY <2>3, SteadyMoves
    <2> QED
      BY <1>1, <2>1, <2>2, <2>3, SteadyBroadcast, SteadyQuiet, SteadyActivation, SteadyReplaced,
         SteadySwitch DEF Overseer
  <1>2. CASE Player
    <2>1. ASSUME RequestTerminalReturn \/ RequestTerminalTransition \/ RefuseTerminalTransition
          PROVE  Steady
      BY <2>1, SteadyUntouched
      DEF RequestTerminalReturn, RequestTerminalTransition, RefuseTerminalTransition
    <2> QED
      BY <1>2, <2>1, SteadyMoves DEF Player
  <1>3. CASE Decisions
    <2>1. ASSUME TransitionGone \/ ReturnGone PROVE Steady
      BY <2>1, SteadyUntouched DEF TransitionGone, ReturnGone, NavigationGone
    <2>2. ASSUME ApproveTransition PROVE Steady
      BY <2>2, TransitionTyped, SteadyMoved
    <2>3. ASSUME ApproveReturn PROVE Steady
      BY <2>3, ReturnTyped, SteadyMoved
    <2> QED
      BY <1>3, <2>1, <2>2, <2>3, SteadyDecisions, SteadyRejected, SteadyReset DEF Decisions
  <1>4. CASE Document
    <2>1. UNCHANGED <<runtimes, active, pendingCommand>>
      BY <1>4 DEF Document, DeleteTerminal, EditTerminal, ReplaceTerminalGroups, requests
    <2> QED
      BY <2>1, SteadyUntouched
  <1>5. CASE UNCHANGED vars
    BY <1>5, SteadyUntouched DEF vars, requests
  <1> QED
    BY <1>1, <1>2, <1>3, <1>4, <1>5 DEF Next

-----------------------------------------------------------------------------
(* The session document.                                                    *)

DocumentIsSound ==
  /\ catalog \in [Terminal -> Tree \cup {None}]
  /\ place \in [Terminal -> Place \cup {None}]
  /\ \A t \in Terminal : place[t] = None <=> catalog[t] = None
  /\ done \subseteq Terminal
  /\ WellFormed(place)

\* Every edit of the document keeps its layout well-formed.
LEMMA StepDocument == Inv /\ [Next]_vars => DocumentIsSound'
  <1> SUFFICES ASSUME Inv, [Next]_vars PROVE DocumentIsSound'
    OBVIOUS
  <1>1. TypeOK /\ WellFormed(place) /\ DocumentIsSound
    BY DEF Inv, TypeOK, DocumentIsSound
  <1>2. ASSUME catalog' = catalog, place' = place, done' \subseteq Terminal PROVE DocumentIsSound'
    BY <1>1, <1>2 DEF DocumentIsSound, WellFormed
  <1>3. ASSUME UNCHANGED document PROVE DocumentIsSound'
    BY <1>1, <1>2, <1>3 DEF document, TypeOK
  <1>4. ASSUME NEW t \in Terminal, Removed(t) PROVE DocumentIsSound'
    <2>1. /\ WellFormed(place)' /\ place' \in [Terminal -> Place \cup {None}]
          /\ \A u \in Terminal : place'[u] = None <=> u = t \/ place[u] = None
          /\ catalog' \in [Terminal -> Tree \cup {None}]
          /\ \A u \in Terminal : catalog'[u] = None <=> u = t \/ catalog[u] = None
      BY <1>1, <1>4, RemovedWellFormed
    <2>2. done' \subseteq Terminal
      BY <1>1, <1>4 DEF Removed, TypeOK
    <2> QED
      BY <1>1, <2>1, <2>2 DEF DocumentIsSound
  <1>5. ASSUME NEW t \in Terminal, NEW tree \in Draft[t], EditTerminal(t, tree) PROVE DocumentIsSound'
    <2>1. tree \in Tree /\ tree # None
      BY TerminalAssumption
    <2>2. /\ catalog' \in [Terminal -> Tree \cup {None}]
          /\ \A u \in Terminal : catalog'[u] = None <=> catalog[u] = None
      BY <1>1, <1>5, <2>1 DEF EditTerminal, TypeOK
    <2>3. place' = place /\ done' \subseteq Terminal
      BY <1>1, <1>5 DEF EditTerminal, TypeOK
    <2> QED
      BY <1>1, <2>2, <2>3 DEF DocumentIsSound, WellFormed
  <1>6. ASSUME NEW layout \in Layouts, ReplaceTerminalGroups(layout) PROVE DocumentIsSound'
    <2>1. place' = layout /\ UNCHANGED <<catalog, done>> /\ WellFormed(layout)
          /\ \A t \in Terminal : (layout[t] = None) = (catalog[t] = None)
      BY <1>6 DEF ReplaceTerminalGroups, Layouts, CoherentLayout
    <2>2. layout \in [Terminal -> Place \cup {None}]
      <3>1. layout \in [Terminal -> [group : Group, position : 0 .. Cardinality(Terminal) - 1] \cup {None}]
        BY <1>6 DEF Layouts
      <3>2. Cardinality(Terminal) \in Nat
        BY TerminalAssumption, FS_CardinalityType
      <3>3. [group : Group, position : 0 .. Cardinality(Terminal) - 1] \subseteq Place
        BY <3>2 DEF Place
      <3> QED
        BY <3>1, <3>3
    <2>3. WellFormed(place)'
      BY <2>1 DEF WellFormed
    <2> QED
      BY <1>1, <2>1, <2>2, <2>3 DEF DocumentIsSound
  <1>7. CASE Overseer
    <2>1. UNCHANGED document
      BY <1>7 DEF Overseer, StartBroadcast, EndBroadcast, ReadCommandStates, ActivationRefused, RaiseSwitch,
           RequestTerminalActivation, ResetFailedHack, RequestTerminalClear, ClearNavigation,
           CancelTerminalSwitch, ResolveTerminalSwitch, ForceHackSuccess, UpdateLiveTerminal
    <2> QED
      BY <1>3, <2>1
  <1>8. CASE Player
    <2>1. UNCHANGED document
      BY <1>8 DEF Player, ApplyGuess, EnterFolder, GoBack, RequestTerminalReturn, RequestTerminalTransition,
           RefuseTerminalTransition, RequestCommand
    <2> QED
      BY <1>3, <2>1
  <1>9. CASE Decisions
    <2>1. ASSUME RejectCommand \/ ShowCommand \/ ExecuteCommand \/ FailCommand PROVE DocumentIsSound'
      <3>1. catalog' = catalog /\ place' = place /\ (done' = done \/ done' = done \cup {active})
        BY <2>1 DEF RejectCommand, ShowCommand, ExecuteCommand, FailCommand, Decided
      <3>2. Decidable /\ pendingCommand # None /\ pendingCommand.terminal = active
        BY <2>1 DEF RejectCommand, ShowCommand, ExecuteCommand, FailCommand, Decidable
      <3>3. active \in Terminal
        BY <1>1, <3>2 DEF TypeOK, Command
      <3> QED
        BY <1>1, <1>2, <3>1, <3>3 DEF TypeOK
    <2>2. ASSUME NEW t \in Terminal, NEW wide \in BOOLEAN, ResetCommandStates(t, wide) PROVE DocumentIsSound'
      BY <1>1, <1>2, <2>2 DEF ResetCommandStates, TypeOK
    <2>3. ASSUME ReturnGone PROVE DocumentIsSound'
      <3>1. Removed(pendingNavigation.target) /\ pendingNavigation # None
        BY <2>3 DEF ReturnGone, ReturnStillOffered, CanResolveNavigation
      <3>2. pendingNavigation.target \in Terminal
        BY <1>1, <3>1 DEF TypeOK, Navigation
      <3> QED
        BY <1>4, <3>1, <3>2
    <2>4. ASSUME RejectNavigation \/ ApproveTransition \/ ApproveReturn \/ TransitionGone PROVE DocumentIsSound'
      <3>1. UNCHANGED document
        BY <2>4 DEF RejectNavigation, ApproveTransition, ApproveReturn, TransitionGone, MovedTo
      <3> QED
        BY <1>3, <3>1
    <2> QED
      BY <1>9, <2>1, <2>2, <2>3, <2>4 DEF Decisions
  <1>10. CASE Document
    BY <1>10, <1>4, <1>5, <1>6 DEF Document, DeleteTerminal
  <1>11. CASE UNCHANGED vars
    BY <1>3, <1>11 DEF vars
  <1> QED
    BY <1>7, <1>8, <1>9, <1>10, <1>11 DEF Next

-----------------------------------------------------------------------------
(* The route.                                                               *)

\* The members before a terminal in its group, first to last.
LEMMA PrefixTyped ==
  ASSUME TypeOK, WellFormed(place), NEW t \in Terminal, place[t] # None
  PROVE  /\ Prefix(t) \in Seq(Point) /\ Len(Prefix(t)) = place[t].position
         /\ place[t].position \in Nat /\ place[t].group \in Group
         /\ \A k \in 1 .. place[t].position :
              /\ Prefix(t)[k].terminal \in Terminal /\ Prefix(t)[k].origin = "prefix"
              /\ Prefix(t)[k].place = [group |-> place[t].group, position |-> k - 1]
              /\ place[Prefix(t)[k].terminal] = [group |-> place[t].group, position |-> k - 1]
  <1> DEFINE at(k) == [group |-> place[t].group, position |-> k - 1]
             who(k) == CHOOSE u \in Terminal : place[u] = at(k)
             n == place[t].position
             point(k) == [terminal |-> who(k), level |-> "root", origin |-> "prefix", place |-> at(k)]
  <1>1. n \in Nat /\ place[t].group \in Group
    BY DEF TypeOK, Place
  <1>2. ASSUME NEW k \in 1 .. n
        PROVE  who(k) \in Terminal /\ place[who(k)] = at(k) /\ at(k) \in Place
    <2>1. k - 1 \in 0 .. n - 1 /\ k - 1 \in Nat
      BY <1>1
    <2>2. \E u \in Terminal : place[u] = [group |-> place[t].group, position |-> k - 1]
      BY <2>1 DEF WellFormed
    <2>3. at(k) \in Place
      BY <1>1, <2>1 DEF Place
    <2> QED
      BY <2>2, <2>3
  <1>3. Prefix(t) = [k \in 1 .. n |-> point(k)]
    BY DEF Prefix
  <1> HIDE DEF at, who, n
  <1>4. \A k \in 1 .. n : point(k) \in Point
    BY <1>2 DEF Point
  <1>5. \A k \in 1 .. n : point(k).terminal = who(k) /\ point(k).origin = "prefix" /\ point(k).place = at(k)
    OBVIOUS
  <1> HIDE DEF point
  <1>6. Prefix(t) \in Seq(Point) /\ Len(Prefix(t)) = n /\ \A k \in 1 .. n : Prefix(t)[k] = point(k)
    BY <1>1, <1>3, <1>4
  <1> QED
    BY <1>1, <1>2, <1>5, <1>6 DEF n, at

CourseIsSound == route \in Seq(Point) /\ established \in BOOLEAN /\ initial \in Initial \cup {None}

\* Every step leaves a route of return points.
LEMMA StepCourse == Inv /\ [Next]_vars => CourseIsSound'
  <1> SUFFICES ASSUME Inv, [Next]_vars PROVE CourseIsSound'
    OBVIOUS
  <1>1. TypeOK /\ WellFormed(place) /\ CourseIsSound
    BY DEF Inv, TypeOK, CourseIsSound
  <1>2. ASSUME UNCHANGED course PROVE CourseIsSound'
    BY <1>1, <1>2 DEF course, CourseIsSound
  <1>3. ASSUME route' = <<>>, UNCHANGED <<established, initial>> PROVE CourseIsSound'
    BY <1>1, <1>3 DEF CourseIsSound
  <1>4. ASSUME NoTerminals PROVE CourseIsSound'
    <2>1. established' \in BOOLEAN
      BY <1>4 DEF NoTerminals
    <2>2. route' \in Seq(Point) /\ initial' = None
      BY <1>4 DEF NoTerminals
    <2> QED
      BY <2>1, <2>2 DEF CourseIsSound
  <1>5. ASSUME NEW target \in Payload, RequestTerminalActivation(target) PROVE CourseIsSound'
    <2> DEFINE t == target.terminal
    <2>1. EstablishedAt(t) /\ t \in Terminal
      BY <1>1, <1>5, PayloadTyped DEF RequestTerminalActivation, Target
    <2> HIDE DEF t
    <2>2. CASE established \/ place[t] = None
      <3>1. established' \in BOOLEAN
        BY <2>1 DEF EstablishedAt
      <3>2. route' = <<>> /\ initial' = initial
        BY <2>1, <2>2, Zenon DEF EstablishedAt
      <3> QED
        BY <1>1, <3>1, <3>2 DEF CourseIsSound
    <2>3. CASE ~(established \/ place[t] = None)
      <3>1. Prefix(t) \in Seq(Point)
        BY <1>1, <2>1, <2>3, PrefixTyped
      <3>2. place[t] \in Place
        BY <1>1, <2>1, <2>3 DEF TypeOK
      <3>3. [terminal |-> t, place |-> place[t]] \in Initial
        BY <2>1, <3>2 DEF Initial
      <3>4. established' \in BOOLEAN
        BY <2>1 DEF EstablishedAt
      <3> QED
        BY <2>1, <2>3, <3>1, <3>3, <3>4 DEF EstablishedAt, CourseIsSound
    <2> QED
      BY <2>2, <2>3
  <1>6. CASE Overseer
    <2>1. \/ UNCHANGED course \/ NoTerminals
          \/ route' = <<>> /\ UNCHANGED <<established, initial>>
          \/ \E target \in Payload : RequestTerminalActivation(target)
      BY <1>6 DEF Overseer, StartBroadcast, EndBroadcast, ReadCommandStates, ActivationRefused, RaiseSwitch,
           ResetFailedHack, RequestTerminalClear, ClearNavigation,
           CancelTerminalSwitch, ResolveTerminalSwitch, ForceHackSuccess, UpdateLiveTerminal
    <2> QED
      BY <1>2, <1>3, <1>4, <1>5, <2>1
  <1>7. CASE Player
    <2>1. UNCHANGED course
      BY <1>7 DEF Player, ApplyGuess, EnterFolder, GoBack, RequestTerminalReturn, RequestTerminalTransition,
           RefuseTerminalTransition, RequestCommand
    <2> QED
      BY <1>2, <2>1
  <1>8. CASE Decisions
    <2>1. ASSUME ApproveTransition PROVE CourseIsSound'
      <3>1. pendingNavigation.point \in Point /\ route' = Append(route, pendingNavigation.point)
        BY <2>1, TransitionTyped
      <3>2. UNCHANGED <<established, initial>>
        BY <2>1 DEF ApproveTransition, MovedTo
      <3> QED
        BY <1>1, <3>1, <3>2 DEF CourseIsSound
    <2>2. ASSUME ApproveReturn PROVE CourseIsSound'
      <3>1. route # <<>> /\ route' = SubSeq(route, 1, Len(route) - 1)
        BY <2>2, ReturnTyped DEF Front
      <3>2. UNCHANGED <<established, initial>>
        BY <2>2 DEF ApproveReturn, MovedTo
      <3>3. route' \in Seq(Point)
        BY <1>1, <3>1 DEF CourseIsSound
      <3> QED
        BY <1>1, <3>2, <3>3 DEF CourseIsSound
    <2>3. ApproveTransition \/ ApproveReturn \/ UNCHANGED course
      BY <1>8 DEF Decisions, RejectCommand, ShowCommand, ExecuteCommand, FailCommand, Decided, RejectNavigation,
           TransitionGone, ReturnGone, NavigationGone, ResetCommandStates
    <2> QED
      BY <1>2, <2>1, <2>2, <2>3
  <1>9. CASE Document
    <2>1. UNCHANGED course
      BY <1>9 DEF Document, DeleteTerminal, EditTerminal, ReplaceTerminalGroups
    <2> QED
      BY <1>2, <2>1
  <1>10. CASE UNCHANGED vars
    BY <1>2, <1>10 DEF vars
  <1> QED
    BY <1>6, <1>7, <1>8, <1>9, <1>10 DEF Next

-----------------------------------------------------------------------------
(* The broadcast and the requests.                                          *)

LifeIsSound == broadcast \in BOOLEAN /\ active \in Terminal \cup {None} /\ NothingOutlivesBroadcast

RequestsAreSound ==
  /\ pendingSwitch \in Switch \cup {None} /\ pendingCommand \in Command \cup {None}
  /\ pendingNavigation \in Navigation \cup {None} /\ notice \in BOOLEAN /\ asked \in Asked \cup {None}
  /\ NavigationIsKnown /\ OneRequestAtATime

\* What steps may do to the requests, each with the type of what it asks.
RequestsStep ==
  /\ \/ pendingSwitch' \in {pendingSwitch, None}
     \/ pendingSwitch' \in Switch
  /\ asked' \in Asked \cup {None}
  /\ \/ pendingCommand' \in {pendingCommand, None} /\ UNCHANGED <<pendingNavigation, notice>>
     \/ /\ pendingCommand' \in {pendingCommand, None}
        /\ pendingNavigation' = None /\ notice' \in BOOLEAN
     \/ /\ pendingCommand = None /\ pendingNavigation = None
        /\ pendingCommand' \in Command /\ UNCHANGED <<pendingNavigation, notice>>
     \/ /\ pendingCommand = None /\ pendingNavigation = None /\ pendingCommand' = None
        /\ pendingNavigation' \in Navigation /\ NavigationIsKnown' /\ notice' = FALSE
     \/ /\ pendingCommand = None /\ pendingNavigation = None
        /\ UNCHANGED <<pendingCommand, pendingNavigation>> /\ notice' = TRUE

\* Such a step keeps the requests sound.
LEMMA RequestsStepSound ==
  ASSUME Inv, RequestsStep
  PROVE  RequestsAreSound'
  <1>1. /\ pendingSwitch \in Switch \cup {None} /\ pendingCommand \in Command \cup {None}
        /\ pendingNavigation \in Navigation \cup {None} /\ notice \in BOOLEAN /\ asked \in Asked \cup {None}
        /\ NavigationIsKnown /\ OneRequestAtATime
    BY DEF Inv, TypeOK, TerminalsAreConsistent
  <1>2. /\ pendingSwitch' \in Switch \cup {None} /\ pendingCommand' \in Command \cup {None}
        /\ pendingNavigation' \in Navigation \cup {None} /\ notice' \in BOOLEAN /\ asked' \in Asked \cup {None}
    BY <1>1 DEF RequestsStep
  <1>3. NavigationIsKnown'
    BY <1>1 DEF RequestsStep, NavigationIsKnown
  <1>4. OneRequestAtATime'
    BY <1>1, NoneIsNone DEF RequestsStep, OneRequestAtATime
  <1> QED
    BY <1>2, <1>3, <1>4 DEF RequestsAreSound

\* Every step is such a step.
LEMMA StepRequests == Inv /\ [Next]_vars => RequestsAreSound'
  <1> SUFFICES ASSUME Inv, [Next]_vars PROVE RequestsStep
    BY RequestsStepSound
  <1>1. /\ TypeOK /\ asked \in Asked \cup {None} /\ notice \in BOOLEAN
        /\ active # None => active \in Terminal /\ runtimes[active] \in Runtime
    BY InvParts DEF TypeOK
  <1>2. ASSUME UNCHANGED <<requests, asked>>, pendingSwitch' \in {pendingSwitch, None} PROVE RequestsStep
    BY <1>1, <1>2 DEF RequestsStep, requests
  <1>3. CASE Overseer
    <2>1. ASSUME NEW t \in Terminal, ReadCommandStates(t) PROVE RequestsStep
      <3>1. asked' \in Asked
        BY <2>1 DEF ReadCommandStates, Asked
      <3> QED
        BY <2>1, <3>1 DEF ReadCommandStates, RequestsStep, requests
    <2>2. ASSUME NEW target \in Payload \cup {None}, RaiseSwitch(target) PROVE RequestsStep
      <3>1. target \in Target \cup {None}
        BY <1>1, PayloadTyped
      <3>2. active \in Terminal /\ pendingSwitch' = [source |-> active, target |-> target]
        BY <1>1, <2>2 DEF RaiseSwitch, Unfinished
      <3>3. pendingSwitch' \in Switch
        BY <3>1, <3>2 DEF Switch
      <3>4. asked' \in Asked \cup {None}
        BY <1>1, <2>2 DEF RaiseSwitch
      <3> QED
        BY <2>2, <3>3, <3>4 DEF RaiseSwitch, ClearedRequests, RequestsStep
    <2>3. ASSUME \/ StartBroadcast \/ EndBroadcast \/ RequestTerminalClear \/ ClearNavigation
                 \/ \E target \in Payload : RequestTerminalActivation(target)
          PROVE  RequestsStep
      BY <1>1, <2>3
      DEF StartBroadcast, EndBroadcast, RequestTerminalClear, ClearNavigation,
          RequestTerminalActivation, ClearedRequests, RequestsStep
    <2>4. ASSUME \/ ActivationRefused \/ CancelTerminalSwitch \/ ForceHackSuccess
                 \/ \E target \in Payload : ResetFailedHack(target)
                 \/ \E preserve \in BOOLEAN : ResolveTerminalSwitch(preserve)
                 \/ active # None /\ \E tree \in Draft[active] : UpdateLiveTerminal(tree)
          PROVE  RequestsStep
      BY <1>1, <2>4
      DEF ActivationRefused, CancelTerminalSwitch, ForceHackSuccess, ResetFailedHack,
          ResolveTerminalSwitch, UpdateLiveTerminal, RequestsStep, requests
    <2> QED
      BY <1>3, <2>1, <2>2, <2>3, <2>4 DEF Overseer
  <1>4. CASE Player
    <2>1. ASSUME \/ \E outcome \in {"solved", "failed"} : ApplyGuess(outcome)
                 \/ EnterFolder \/ GoBack
          PROVE  RequestsStep
      BY <1>2, <2>1 DEF ApplyGuess, EnterFolder, GoBack
    <2>2. ASSUME RequestTerminalReturn PROVE RequestsStep
      <3>1. /\ CanAct /\ route # <<>> /\ notice' = FALSE
            /\ pendingNavigation' = [direction |-> "return", source |-> active,
                                     target |-> Last(route).terminal, point |-> Last(route)]
            /\ UNCHANGED <<pendingSwitch, pendingCommand, asked>>
        BY <2>2 DEF RequestTerminalReturn
      <3>2. Last(route) \in Point
        BY <1>1, <3>1 DEF Last, TypeOK
      <3>3. pendingNavigation' \in Navigation /\ NavigationIsKnown'
        BY <1>1, <3>1, <3>2 DEF CanAct, Navigation, Point, NavigationIsKnown
      <3> QED
        BY <1>1, <3>1, <3>3 DEF CanAct, RequestsStep
    <2>3. ASSUME RequestTerminalTransition PROVE RequestsStep
      <3> DEFINE link == runtimes[active].tree.link
                 point == [terminal |-> active, level |-> "inner", origin |-> "authored", place |-> None]
      <3>1. /\ CanAct /\ TransitionTo(active, link) /\ notice' = FALSE
            /\ pendingNavigation' = [direction |-> "forward", source |-> active, target |-> link,
                                     point |-> point]
            /\ UNCHANGED <<pendingSwitch, pendingCommand, asked>>
        BY <2>3 DEF RequestTerminalTransition
      <3>2. point \in Point /\ link \in Terminal
        BY <1>1, <3>1 DEF CanAct, Point, TransitionTo
      <3>3. point.terminal = active /\ point.origin = "authored"
        OBVIOUS
      <3> HIDE DEF link, point
      <3>4. pendingNavigation' \in Navigation /\ NavigationIsKnown'
        BY <1>1, <3>1, <3>2, <3>3 DEF CanAct, Navigation, NavigationIsKnown
      <3> QED
        BY <1>1, <3>1, <3>4 DEF CanAct, RequestsStep
    <2>4. ASSUME RefuseTerminalTransition PROVE RequestsStep
      BY <1>1, <2>4 DEF RefuseTerminalTransition, CanAct, RequestsStep
    <2>5. ASSUME RequestCommand PROVE RequestsStep
      <3>1. /\ CanAct /\ UNCHANGED <<pendingSwitch, pendingNavigation, notice, asked>>
            /\ pendingCommand' = [terminal |-> active, command |-> runtimes[active].tree.command,
                                  mode |-> Mode(runtimes[active])]
        BY <2>5 DEF RequestCommand
      <3>2. pendingCommand' \in Command
        BY <1>1, <3>1 DEF CanAct, Command, Runtime, Tree, Mode
      <3> QED
        BY <1>1, <3>1, <3>2 DEF CanAct, RequestsStep
    <2> QED
      BY <1>4, <2>1, <2>2, <2>3, <2>4, <2>5 DEF Player
  <1>5. CASE Decisions
    BY <1>1, <1>5
    DEF Decisions, RejectCommand, ShowCommand, ExecuteCommand, FailCommand, Decided, RejectNavigation,
        ApproveTransition, ApproveReturn, MovedTo, TransitionGone, ReturnGone, NavigationGone,
        ResetCommandStates, RequestsStep
  <1>6. CASE Document
    BY <1>2, <1>6 DEF Document, DeleteTerminal, EditTerminal, ReplaceTerminalGroups
  <1>7. CASE UNCHANGED vars
    BY <1>2, <1>7 DEF vars
  <1> QED
    BY <1>3, <1>4, <1>5, <1>6, <1>7 DEF Next

\* Without a broadcast only the document changes, and calls begin and are refused.
LEMMA StepLife == Inv /\ [Next]_vars => LifeIsSound'
  <1> SUFFICES ASSUME Inv, [Next]_vars PROVE LifeIsSound'
    OBVIOUS
  <1>1. TypeOK /\ NothingOutlivesBroadcast /\ LifeIsSound
    BY InvParts DEF LifeIsSound, TypeOK
  <1>2. ASSUME UNCHANGED <<broadcast, active>>,
               broadcast \/ UNCHANGED <<route, runtimes, pendingSwitch, pendingCommand, pendingNavigation>>
        PROVE  LifeIsSound'
    BY <1>1, <1>2 DEF LifeIsSound, NothingOutlivesBroadcast
  <1>3. ASSUME broadcast' = TRUE, active' \in Terminal \cup {None} PROVE LifeIsSound'
    BY <1>3 DEF LifeIsSound, NothingOutlivesBroadcast
  <1>4. CASE Overseer
    <2>1. ASSUME StartBroadcast PROVE LifeIsSound'
      BY <1>3, <2>1 DEF StartBroadcast, NoTerminals
    <2>2. ASSUME EndBroadcast PROVE LifeIsSound'
      BY <2>2 DEF EndBroadcast, NoTerminals, ClearedRequests, LifeIsSound, NothingOutlivesBroadcast
    <2>3. ASSUME NEW target \in Payload, RequestTerminalActivation(target) PROVE LifeIsSound'
      BY <1>1, <1>3, <2>3, PayloadTyped DEF RequestTerminalActivation, Target
    <2>4. ASSUME RequestTerminalClear PROVE LifeIsSound'
      BY <1>1, <1>3, <2>4 DEF RequestTerminalClear, LifeIsSound
    <2>5. ASSUME NEW preserve \in BOOLEAN, ResolveTerminalSwitch(preserve) PROVE LifeIsSound'
      <3>1. pendingSwitch \in Switch
        BY <1>1, <2>5 DEF ResolveTerminalSwitch, CanResolveSwitch, TypeOK
      <3>2. active' \in Terminal \cup {None}
        BY <2>5, <3>1 DEF ResolveTerminalSwitch, Switch, Target
      <3> QED
        BY <1>3, <2>5, <3>2 DEF ResolveTerminalSwitch, CanResolveSwitch
    <2>6. ASSUME \/ \E t \in Terminal : ReadCommandStates(t)
                 \/ ActivationRefused \/ CancelTerminalSwitch \/ ForceHackSuccess \/ ClearNavigation
                 \/ \E target \in Payload : RaiseSwitch(target) \/ ResetFailedHack(target)
                 \/ RaiseSwitch(None)
                 \/ active # None /\ \E tree \in Draft[active] : UpdateLiveTerminal(tree)
          PROVE  LifeIsSound'
      <3>1. ASSUME \/ \E t \in Terminal : ReadCommandStates(t)
                   \/ ActivationRefused
            PROVE  LifeIsSound'
        BY <1>2, <3>1 DEF ReadCommandStates, ActivationRefused, requests, course
      <3>2. ASSUME active # None, NEW tree \in Draft[active], UpdateLiveTerminal(tree)
            PROVE  UNCHANGED <<broadcast, active>> /\ broadcast
        BY <3>2 DEF UpdateLiveTerminal
      <3>3. ASSUME NEW target, RaiseSwitch(target) \/ ResetFailedHack(target)
            PROVE  UNCHANGED <<broadcast, active>> /\ broadcast
        BY <3>3 DEF RaiseSwitch, ResetFailedHack
      <3>4. ASSUME CancelTerminalSwitch \/ ForceHackSuccess \/ ClearNavigation
            PROVE  UNCHANGED <<broadcast, active>> /\ broadcast
        BY <3>4 DEF CancelTerminalSwitch, CanResolveSwitch, ForceHackSuccess, ClearNavigation
      <3> QED
        BY <1>2, <2>6, <3>1, <3>2, <3>3, <3>4
    <2> QED
      BY <1>4, <2>1, <2>2, <2>3, <2>4, <2>5, <2>6 DEF Overseer
  <1>5. CASE Player
    BY <1>2, <1>5
    DEF Player, CanAct, ApplyGuess, EnterFolder, GoBack, RequestTerminalReturn,
        RequestTerminalTransition, RefuseTerminalTransition, RequestCommand
  <1>6. CASE Decisions
    <2>1. ASSUME ApproveTransition \/ ApproveReturn PROVE LifeIsSound'
      <3>1. pendingNavigation.target \in Terminal
        BY <2>1, TransitionTyped, ReturnTyped
      <3>2. active' = pendingNavigation.target /\ broadcast' = broadcast /\ broadcast
        BY <2>1 DEF ApproveTransition, ApproveReturn, ReturnStillOffered, CanResolveNavigation, MovedTo
      <3>3. broadcast' = TRUE
        BY <1>1, <3>2 DEF TypeOK
      <3> QED
        BY <1>3, <3>1, <3>2, <3>3
    <2>2. ASSUME NEW t \in Terminal, NEW wide \in BOOLEAN, ResetCommandStates(t, wide) PROVE LifeIsSound'
      <3>1. UNCHANGED <<broadcast, active, route, pendingSwitch, pendingNavigation>>
        BY <2>2 DEF ResetCommandStates, course
      <3>2. ~broadcast => UNCHANGED <<runtimes, pendingCommand>>
        BY <1>1, <2>2 DEF ResetCommandStates, NothingOutlivesBroadcast
      <3> QED
        BY <1>1, <1>2, <3>1, <3>2
    <2>3. ASSUME \/ RejectCommand \/ ShowCommand \/ ExecuteCommand \/ FailCommand
                 \/ RejectNavigation \/ TransitionGone \/ ReturnGone
          PROVE  LifeIsSound'
      BY <1>2, <2>3
      DEF Decidable, RejectCommand, ShowCommand, ExecuteCommand, FailCommand, Decided, RejectNavigation,
          TransitionGone, ReturnGone, NavigationGone, ReturnStillOffered, CanResolveNavigation
    <2> QED
      BY <1>6, <2>1, <2>2, <2>3 DEF Decisions
  <1>7. CASE Document
    BY <1>2, <1>7 DEF Document, DeleteTerminal, EditTerminal, ReplaceTerminalGroups, requests, course
  <1>8. CASE UNCHANGED vars
    BY <1>2, <1>8 DEF vars, requests, course
  <1> QED
    BY <1>4, <1>5, <1>6, <1>7, <1>8 DEF Next

-----------------------------------------------------------------------------
(* The invariant.                                                           *)

\* A session is opened with a well-formed layout, and without a broadcast.
LEMMA InitInv == Init => Inv
  <1> SUFFICES ASSUME Init PROVE Inv
    OBVIOUS
  <1> USE DEF Init
  <1>1. catalog \in [Terminal -> Tree \cup {None}] /\ \A t \in Terminal : catalog[t] # None
    <2>1. \A t \in Terminal : Draft[t] \subseteq Tree /\ None \notin Draft[t]
      BY TerminalAssumption
    <2>2. catalog \in [Terminal -> UNION {Draft[t] : t \in Terminal}]
          /\ \A t \in Terminal : catalog[t] \in Draft[t]
      OBVIOUS
    <2> QED
      BY <2>1, <2>2
  <1>2. place \in [Terminal -> Place \cup {None}] /\ \A t \in Terminal : place[t] # None
    BY TerminalAssumption
  <1>3. WellFormed(place)
    BY TerminalAssumption
  <1>4. broadcast \in BOOLEAN /\ established \in BOOLEAN /\ notice \in BOOLEAN
    OBVIOUS
  <1>5. runtimes \in [Terminal -> Runtime \cup {None}] /\ route \in Seq(Point)
    OBVIOUS
  <1>6. TypeOK
    BY <1>1, <1>2, <1>4, <1>5 DEF TypeOK
  <1>7. OneTerminalRuns /\ WaitingScreenHasRequest
    BY NoneIsNone DEF OneTerminalRuns, WaitingScreenHasRequest
  <1>8. NothingOutlivesBroadcast /\ OneRequestAtATime /\ NavigationIsKnown
    BY DEF NothingOutlivesBroadcast, OneRequestAtATime, NavigationIsKnown
  <1> QED
    BY <1>3, <1>6, <1>7, <1>8 DEF Inv, TerminalsAreConsistent

\* Every step keeps the invariant.
LEMMA StepInv == Inv /\ [Next]_vars => Inv'
  <1> SUFFICES ASSUME Inv, [Next]_vars PROVE Inv'
    OBVIOUS
  <1>1. Checkpoints' /\ OneTerminalRuns' /\ WaitingScreenHasRequest'
    BY StepSteady DEF Steady
  <1>2. DocumentIsSound' /\ CourseIsSound' /\ LifeIsSound' /\ RequestsAreSound'
    BY StepDocument, StepCourse, StepLife, StepRequests
  <1>3. TypeOK'
    BY <1>1, <1>2
    DEF TypeOK, Checkpoints, DocumentIsSound, CourseIsSound, LifeIsSound, RequestsAreSound
  <1>4. TerminalsAreConsistent'
    BY <1>1, <1>2 DEF TerminalsAreConsistent, LifeIsSound, RequestsAreSound
  <1> QED
    BY <1>2, <1>3, <1>4 DEF Inv, DocumentIsSound, RequestsAreSound

\* The terminals of a broadcast keep their invariant.
THEOREM InvAlways == Spec => []Inv
  BY InitInv, StepInv, PTL DEF Spec

\* The variables keep their types: whatever is edited, decided or walked, a place is known
\* for exactly the terminals of the session.
THEOREM TypeCorrect == Spec => []TypeOK
  <1>1. Inv => TypeOK
    BY DEF Inv
  <1> QED
    BY <1>1, InvAlways, PTL

\* Exactly the active terminal's checkpoint runs, nothing outlives its broadcast, a screen
\* that waits has its request and the players never have two, for any session and edits:
\* the requests, switch decisions, transitions and returns of control.Service agree.
THEOREM TerminalsAlwaysConsistent == Spec => []TerminalsAreConsistent
  <1>1. Inv => TerminalsAreConsistent
    BY DEF Inv
  <1> QED
    BY <1>1, InvAlways, PTL

\* A puzzle keeps its outcome and players see as completed only what the document says,
\* whichever step is taken (SuspendRuntime, ReactivateRuntime, ResolveCommandExecution).
THEOREM OutcomesAlwaysStand == Spec => OutcomesStand
  <1>1. Inv /\ [Next]_vars => [\A t \in Terminal : PuzzleIsKept(t) /\ CompletionIsDurable(t)]_vars
    BY StepSteady DEF Steady
  <1> QED
    BY <1>1, InvAlways, PTL DEF Spec, OutcomesStand

-----------------------------------------------------------------------------
(* Requests stay decidable.                                                 *)

CommandStays ==
  Decidable /\ pendingCommand' = pendingCommand /\ ~Decidable' =>
    \/ \E preserve \in BOOLEAN : ResolveTerminalSwitch(preserve)
    \/ \E target \in Payload : ResetFailedHack(target)

NavigationStays ==
  CanResolveNavigation /\ pendingNavigation' = pendingNavigation /\ ~CanResolveNavigation' =>
    \E preserve \in BOOLEAN : ResolveTerminalSwitch(preserve)

\* A pending command stays the active terminal's, and its screen waits.
LEMMA StepCommand == Inv /\ [Next]_vars => CommandStays
  <1> SUFFICES ASSUME Inv, [Next]_vars, Decidable, pendingCommand' = pendingCommand, ~Decidable',
                      ~\E preserve \in BOOLEAN : ResolveTerminalSwitch(preserve),
                      ~\E target \in Payload : ResetFailedHack(target)
               PROVE  FALSE
    BY DEF CommandStays
  <1>1. /\ TypeOK /\ OneRequestAtATime /\ broadcast /\ pendingCommand # None
        /\ active = pendingCommand.terminal /\ runtimes[active].exec = "pending"
    BY InvParts DEF Decidable
  <1>2. /\ active # None /\ active \in Terminal /\ runtimes[active] \in Runtime /\ runtimes[active] # None
        /\ runtimes \in [Terminal -> Runtime \cup {None}]
    <2>1. pendingCommand \in Command
      BY <1>1 DEF TypeOK
    <2>2. active \in Terminal /\ active # None
      BY <1>1, <2>1, NoneIsNone DEF Command
    <2> QED
      BY <2>2, InvParts DEF TypeOK
  <1>3. pendingNavigation = None /\ ~CanAct /\ pendingCommand' # None
    BY <1>1 DEF OneRequestAtATime, CanAct
  <1>4. ASSUME UNCHANGED <<broadcast, active>>, runtimes'[active].exec = "pending" PROVE FALSE
    BY <1>1, <1>4 DEF Decidable
  <1>5. ASSUME UNCHANGED <<broadcast, active, runtimes>> PROVE FALSE
    BY <1>1, <1>4, <1>5
  <1>6. CASE Overseer
    <2>1. ASSUME ForceHackSuccess PROVE FALSE
      <3>1. runtimes' = [runtimes EXCEPT ![active] = [@ EXCEPT !.hack = "solved"]]
        BY <2>1 DEF ForceHackSuccess
      <3>2. runtimes'[active] = [runtimes[active] EXCEPT !.hack = "solved"]
        BY <1>2, <3>1
      <3>3. runtimes'[active].exec = runtimes[active].exec
        BY <1>2, <3>2 DEF Runtime
      <3> QED
        BY <1>1, <1>4, <2>1, <3>3 DEF ForceHackSuccess
    <2>2. ASSUME active # None, NEW tree \in Draft[active], UpdateLiveTerminal(tree) PROVE FALSE
      <3> DEFINE target == [terminal |-> active, tree |-> tree, done |-> runtimes[active].done]
      <3>1. runtimes'[active] = UpdateRuntime(runtimes[active], target)
        BY <1>2, <2>2 DEF UpdateLiveTerminal
      <3>2. tree \in Tree /\ runtimes[active].done \in BOOLEAN
        BY <1>2, TerminalAssumption DEF Runtime
      <3>3. target \in Target
        BY <1>2, <3>2 DEF Target
      <3> HIDE DEF target
      <3>4. runtimes'[active].exec = runtimes[active].exec
        BY <1>2, <3>1, <3>3, UpdateRuntimeTyped
      <3> QED
        BY <1>1, <1>4, <2>2, <3>4 DEF UpdateLiveTerminal
    <2>3. ASSUME \/ EndBroadcast \/ RequestTerminalClear \/ ClearNavigation \/ RaiseSwitch(None)
                 \/ \E target \in Payload : RaiseSwitch(target) \/ RequestTerminalActivation(target)
          PROVE  FALSE
      BY <1>3, <2>3
      DEF EndBroadcast, RequestTerminalClear, ClearNavigation, RaiseSwitch,
          RequestTerminalActivation, ClearedRequests
    <2>4. ASSUME (\E t \in Terminal : ReadCommandStates(t)) \/ ActivationRefused \/ CancelTerminalSwitch
          PROVE  FALSE
      BY <1>5, <2>4 DEF ReadCommandStates, ActivationRefused, CancelTerminalSwitch
    <2>5. ASSUME StartBroadcast PROVE FALSE
      BY <1>1, <2>5 DEF StartBroadcast
    <2> QED
      BY <1>6, <2>1, <2>2, <2>3, <2>4, <2>5 DEF Overseer
  <1>7. CASE Player
    BY <1>3, <1>7
    DEF Player, ApplyGuess, EnterFolder, GoBack, RequestTerminalReturn, RequestTerminalTransition,
        RefuseTerminalTransition, RequestCommand
  <1>8. CASE Decisions
    <2>1. ASSUME RejectCommand \/ ShowCommand \/ ExecuteCommand \/ FailCommand PROVE FALSE
      BY <1>3, <2>1 DEF RejectCommand, ShowCommand, ExecuteCommand, FailCommand, Decided
    <2>2. ASSUME NEW t \in Terminal, NEW wide \in BOOLEAN, ResetCommandStates(t, wide) PROVE FALSE
      <3> DEFINE affected == runtimes[t] # None /\ (wide => runtimes[t].done)
      <3>1. UNCHANGED <<broadcast, active>>
        BY <2>2 DEF ResetCommandStates
      <3>2. ~(affected /\ pendingCommand.terminal = t)
        BY <1>1, <1>3, <2>2 DEF ResetCommandStates
      <3>3. CASE t # active
        <4>1. runtimes'[active] = runtimes[active]
          BY <1>2, <2>2, <3>3 DEF ResetCommandStates
        <4> QED
          BY <1>1, <1>4, <3>1, <4>1
      <3>4. CASE t = active
        <4>1. ~affected
          BY <1>1, <3>2, <3>4
        <4> DEFINE r == runtimes[active]
                   change == [r EXCEPT !.done = FALSE,
                                       !.nav  = IF affected /\ @ = "result" THEN "root" ELSE @,
                                       !.exec = IF affected /\ @ # "denied" THEN "none" ELSE @]
        <4>2. runtimes' = [runtimes EXCEPT ![active] = change]
          BY <1>2, <2>2, <3>4 DEF ResetCommandStates
        <4>3. r \in Runtime
          BY <1>2
        <4>4. change.exec = r.exec
          BY ONLY <4>1, <4>3 DEF Runtime
        <4> HIDE DEF change
        <4>5. runtimes'[active].exec = "pending"
          BY <1>1, <1>2, <4>2, <4>4
        <4> QED
          BY <1>4, <3>1, <4>5
      <3> QED
        BY <3>3, <3>4
    <2>3. ASSUME RejectNavigation \/ ApproveTransition \/ ApproveReturn \/ TransitionGone \/ ReturnGone
          PROVE  FALSE
      BY <1>3, <2>3
      DEF RejectNavigation, ApproveTransition, ApproveReturn, TransitionGone, ReturnGone,
          ReturnStillOffered, CanResolveNavigation
    <2> QED
      BY <1>8, <2>1, <2>2, <2>3 DEF Decisions
  <1>9. CASE Document
    BY <1>5, <1>9 DEF Document, DeleteTerminal, EditTerminal, ReplaceTerminalGroups
  <1>10. CASE UNCHANGED vars
    BY <1>5, <1>10 DEF vars
  <1> QED
    BY <1>6, <1>7, <1>8, <1>9, <1>10 DEF Next

\* A pending transition or return stays the active terminal's.
LEMMA StepNavigation == Inv /\ [Next]_vars => NavigationStays
  <1> SUFFICES ASSUME Inv, [Next]_vars, CanResolveNavigation, pendingNavigation' = pendingNavigation,
                      ~CanResolveNavigation',
                      ~\E preserve \in BOOLEAN : ResolveTerminalSwitch(preserve)
               PROVE  FALSE
    BY DEF NavigationStays
  <1>1. /\ OneRequestAtATime /\ broadcast /\ pendingNavigation # None /\ pendingNavigation' # None
        /\ active = pendingNavigation.source
    BY InvParts DEF CanResolveNavigation
  <1>2. ~CanAct
    BY <1>1 DEF CanAct
  <1>3. ASSUME UNCHANGED <<broadcast, active>> PROVE FALSE
    BY <1>1, <1>3 DEF CanResolveNavigation
  <1>4. CASE Overseer
    <2>1. ASSUME \/ EndBroadcast \/ RequestTerminalClear \/ ClearNavigation \/ RaiseSwitch(None)
                 \/ \E target \in Payload : RaiseSwitch(target) \/ RequestTerminalActivation(target)
          PROVE  FALSE
      BY <1>1, <2>1
      DEF EndBroadcast, RequestTerminalClear, ClearNavigation, RaiseSwitch,
          RequestTerminalActivation, ClearedRequests
    <2>2. ASSUME \/ \E t \in Terminal : ReadCommandStates(t)
                 \/ ActivationRefused \/ CancelTerminalSwitch \/ ForceHackSuccess
                 \/ \E target \in Payload : ResetFailedHack(target)
                 \/ active # None /\ \E tree \in Draft[active] : UpdateLiveTerminal(tree)
          PROVE  FALSE
      BY <1>3, <2>2
      DEF ReadCommandStates, ActivationRefused, CancelTerminalSwitch, ForceHackSuccess,
          ResetFailedHack, UpdateLiveTerminal
    <2>3. ASSUME StartBroadcast PROVE FALSE
      BY <1>1, <2>3 DEF StartBroadcast
    <2> QED
      BY <1>4, <2>1, <2>2, <2>3 DEF Overseer
  <1>5. CASE Player
    BY <1>2, <1>5
    DEF Player, ApplyGuess, EnterFolder, GoBack, RequestTerminalReturn, RequestTerminalTransition,
        RefuseTerminalTransition, RequestCommand
  <1>6. CASE Decisions
    <2>1. ASSUME \/ RejectCommand \/ ShowCommand \/ ExecuteCommand \/ FailCommand
                 \/ \E t \in Terminal, wide \in BOOLEAN : ResetCommandStates(t, wide)
          PROVE  FALSE
      BY <1>3, <2>1
      DEF RejectCommand, ShowCommand, ExecuteCommand, FailCommand, Decided, ResetCommandStates
    <2>2. ASSUME RejectNavigation \/ ApproveTransition \/ ApproveReturn \/ TransitionGone \/ ReturnGone
          PROVE  FALSE
      BY <1>1, <2>2
      DEF RejectNavigation, ApproveTransition, ApproveReturn, MovedTo, TransitionGone, ReturnGone,
          NavigationGone
    <2> QED
      BY <1>6, <2>1, <2>2 DEF Decisions
  <1>7. CASE Document
    BY <1>3, <1>7 DEF Document, DeleteTerminal, EditTerminal, ReplaceTerminalGroups
  <1>8. CASE UNCHANGED vars
    BY <1>3, <1>8 DEF vars
  <1> QED
    BY <1>4, <1>5, <1>6, <1>7, <1>8 DEF Next

\* A request that can be decided stays so until it is decided or cancelled; only a switch
\* decision and the reset of a failed puzzle pass it by (control.Service).
THEOREM RequestsAlwaysDecidable == Spec => RequestsStayDecidable
  <1>1. Inv /\ [Next]_vars => [CommandStays /\ NavigationStays]_vars
    BY StepCommand, StepNavigation
  <1>2. Inv /\ [Next]_vars =>
          [/\ Decidable /\ pendingCommand' = pendingCommand /\ ~Decidable' =>
                \/ \E preserve \in BOOLEAN : ResolveTerminalSwitch(preserve)
                \/ \E target \in Payload : ResetFailedHack(target)
           /\ CanResolveNavigation /\ pendingNavigation' = pendingNavigation /\ ~CanResolveNavigation' =>
                \E preserve \in BOOLEAN : ResolveTerminalSwitch(preserve)]_vars
    BY <1>1 DEF CommandStays, NavigationStays
  <1> QED
    BY <1>2, InvAlways, PTL DEF Spec, RequestsStayDecidable

-----------------------------------------------------------------------------
(* The way back.                                                            *)

\* Where return point i is walked from.
Behind(i) == IF i < Len(route) THEN route[i + 1].terminal ELSE active

\* A transition adds the terminal it leaves; it shares its group with the one it enters.
LEMMA TransitionKeepsWay ==
  ASSUME Inv, Walkable, ApproveTransition
  PROVE  Walkable'
  <1> DEFINE point == pendingNavigation.point
             t == pendingNavigation.target
             n == Len(route)
  <1>1. /\ active # None /\ t \in Terminal /\ SameTerminalGroup(active, t)
        /\ point.terminal = active /\ point.origin = "authored"
        /\ route' = Append(route, point) /\ active' = t /\ place' = place
    BY TransitionTyped DEF MovedTo, document
  <1>2. route \in Seq(Point) /\ n \in Nat
    BY DEF Inv, TypeOK
  <1> HIDE DEF point, t
  <1>3. /\ Len(route') = n + 1 /\ route'[n + 1] = point
        /\ \A i \in 1 .. n : route'[i] = route[i]
    BY <1>1, <1>2
  <1>4. ASSUME NEW i \in 1 .. n + 1 PROVE ValidTerminalReturnPoint(Behind(i), route[i])'
    <2>1. CASE i = n + 1
      <3>1. Behind(i)' = t /\ route'[i] = point
        BY <1>1, <1>3, <2>1 DEF Behind
      <3>2. SameTerminalGroup(t, active)
        BY <1>1 DEF SameTerminalGroup
      <3> QED
        BY <1>1, <3>1, <3>2 DEF ValidTerminalReturnPoint, SameTerminalGroup
    <2>2. CASE i # n + 1
      <3>1. i \in 1 .. n
        BY <1>2, <2>2
      <3>2. Behind(i)' = Behind(i)
        <4>1. CASE i = n
          BY <1>1, <1>2, <1>3, <4>1 DEF Behind
        <4>2. CASE i < n
          BY <1>2, <1>3, <3>1, <4>2 DEF Behind
        <4> QED
          BY <1>2, <3>1, <4>1, <4>2
      <3>3. ValidTerminalReturnPoint(Behind(i), route[i])
        BY <1>1, <3>1 DEF Walkable, Behind
      <3> QED
        BY <1>1, <1>3, <3>1, <3>2, <3>3 DEF ValidTerminalReturnPoint, SameTerminalGroup
    <2> QED
      BY <2>1, <2>2
  <1> QED
    BY <1>3, <1>4 DEF Walkable, Behind

\* A return takes its point off the route.
LEMMA ReturnKeepsWay ==
  ASSUME Inv, Walkable, ApproveReturn
  PROVE  Walkable'
  <1> DEFINE n == Len(route)
  <1>1. /\ active # None /\ pendingNavigation.target = Last(route).terminal
        /\ route # <<>> /\ route' = Front(route)
        /\ active' = pendingNavigation.target /\ place' = place
    BY ReturnTyped DEF MovedTo, document
  <1>2. route \in Seq(Point) /\ n \in Nat /\ n > 0
    BY <1>1 DEF Inv, TypeOK
  <1>3. /\ Len(route') = n - 1 /\ \A i \in 1 .. n - 1 : route'[i] = route[i]
        /\ active' = route[n].terminal
    <2>1. route' = SubSeq(route, 1, n - 1) /\ n - 1 \in Nat
      BY <1>1, <1>2 DEF Front
    <2>2. route' = [i \in 1 .. n - 1 |-> route[i]]
      BY <1>2, <2>1
    <2>3. active' = route[n].terminal
      BY <1>1 DEF Last
    <2> HIDE DEF n
    <2>4. Len(route') = n - 1
      BY <2>1, <2>2
    <2> QED
      BY <2>2, <2>3, <2>4
  <1>4. ASSUME NEW i \in 1 .. n - 1 PROVE ValidTerminalReturnPoint(Behind(i), route[i])'
    <2>1. Behind(i)' = Behind(i)
      <3>1. CASE i = n - 1
        BY <1>2, <1>3, <3>1 DEF Behind
      <3>2. CASE i < n - 1
        BY <1>2, <1>3, <3>2 DEF Behind
      <3> QED
        BY <1>2, <3>1, <3>2
    <2>2. ValidTerminalReturnPoint(Behind(i), route[i])
      BY <1>1, <1>2 DEF Walkable, Behind
    <2> QED
      BY <1>1, <1>3, <2>1, <2>2 DEF ValidTerminalReturnPoint, SameTerminalGroup
  <1> QED
    BY <1>3, <1>4 DEF Walkable, Behind

\* The route to a terminal that is put on first: the members before it, in turn.
LEMMA ActivationKeepsWay ==
  ASSUME Inv, NEW target \in Payload, RequestTerminalActivation(target)
  PROVE  Walkable'
  <1> DEFINE t == target.terminal
             n == place[t].position
             g == place[t].group
  <1>1. t \in Terminal /\ EstablishedAt(t) /\ active' = t /\ place' = place
    BY PayloadTyped DEF Inv, RequestTerminalActivation, Target, document
  <1> HIDE DEF t
  <1>2. CASE established \/ place[t] = None
    <2>1. route' = <<>>
      BY <1>1, <1>2, Zenon DEF EstablishedAt
    <2> QED
      BY <2>1 DEF Walkable
  <1>3. CASE ~(established \/ place[t] = None)
    <2>1. route' = Prefix(t) /\ place[t] # None /\ place[t] \in Place
      BY <1>1, <1>3 DEF EstablishedAt, Inv, TypeOK
    <2>2. /\ Len(route') = n /\ n \in Nat /\ g \in Group
          /\ \A k \in 1 .. n :
               /\ route'[k].terminal \in Terminal /\ route'[k].origin = "prefix"
               /\ route'[k].place = [group |-> g, position |-> k - 1]
               /\ place[route'[k].terminal] = [group |-> g, position |-> k - 1]
      BY <1>1, <2>1, PrefixTyped DEF Inv
    <2>3. place[t] = [group |-> g, position |-> n]
      BY <2>1 DEF Place
    <2> HIDE DEF n, g
    <2>4. ASSUME NEW i \in 1 .. n
          PROVE  /\ Behind(i)' \in Terminal
                 /\ place[Behind(i)'] = [group |-> g, position |-> i]
      <3>1. CASE i = n
        BY <1>1, <2>2, <2>3, <3>1 DEF Behind
      <3>2. CASE i # n
        <4>1. i + 1 \in 1 .. n /\ (i + 1) - 1 = i /\ i < n
          BY <2>2, <3>2
        <4>2. Behind(i)' = route'[i + 1].terminal
          BY <2>2, <4>1 DEF Behind
        <4> QED
          BY <2>2, <4>1, <4>2
      <3> QED
        BY <3>1, <3>2
    <2>5. ASSUME NEW i \in 1 .. n PROVE ValidTerminalReturnPoint(Behind(i), route[i])'
      <3>1. /\ place[Behind(i)'].group = g /\ place[Behind(i)'].position = i
            /\ place[route'[i].terminal].group = g /\ route'[i].place.position = i - 1
        <4>1. /\ place[Behind(i)'] = [group |-> g, position |-> i]
              /\ place[route'[i].terminal] = [group |-> g, position |-> i - 1]
              /\ route'[i].place = [group |-> g, position |-> i - 1]
          BY <2>2, <2>4
        <4> QED
          BY <4>1
      <3>2. place[Behind(i)'] # None /\ place[route'[i].terminal] # None
        <4>1. [group |-> g, position |-> i] \in Place /\ [group |-> g, position |-> i - 1] \in Place
          BY <2>2 DEF Place
        <4> QED
          BY <2>2, <2>4, <4>1, NoneIsNone
      <3>3. SameTerminalGroup(Behind(i)', route'[i].terminal)
        BY <3>1, <3>2 DEF SameTerminalGroup
      <3>4. place[route'[i].terminal] = route'[i].place
        BY <2>2
      <3>5. place[Behind(i)'].position = route'[i].place.position + 1
        BY <2>2, <3>1
      <3> QED
        BY <1>1, <3>3, <3>4, <3>5 DEF ValidTerminalReturnPoint, SameTerminalGroup
    <2> QED
      BY <2>2, <2>5 DEF Walkable, Behind
  <1> QED
    BY <1>2, <1>3

\* A layout the running route allows keeps every return point valid.
LEMMA RegroupingKeepsWay ==
  ASSUME Inv, NEW layout \in Layouts, ReplaceTerminalGroups(layout)
  PROVE  Walkable'
  <1> DEFINE n == Len(route)
             g == layout[active].group
  <1> SUFFICES ASSUME active # None PROVE \A i \in 1 .. n : ValidTerminalReturnPoint(Behind(i), route[i])'
    BY DEF Walkable, Behind, ReplaceTerminalGroups, course
  <1>1. /\ place' = layout /\ active' = active /\ route' = route
        /\ broadcast /\ layout[active] # None /\ \A i \in 1 .. n : KeepsPoint(layout, i)
    BY InvParts DEF ReplaceTerminalGroups, RuntimeAllows, course
  <1>2. route \in Seq(Point) /\ n \in Nat
    BY DEF Inv, TypeOK
  <1> HIDE DEF g
  <1>3. ASSUME NEW i \in 1 .. n
        PROVE  /\ layout[route[i].terminal] # None /\ layout[route[i].terminal].group = g
               /\ route[i].origin = "prefix" =>
                    /\ layout[route[i].terminal] = route[i].place
                    /\ layout[Behind(i)] = [route[i].place EXCEPT !.position = @ + 1]
    BY <1>1, <1>3 DEF KeepsPoint, Behind, g
  <1>4. ASSUME NEW i \in 1 .. n
        PROVE  layout[Behind(i)] # None /\ layout[Behind(i)].group = g
    <2>1. CASE i < n
      <3>1. i + 1 \in 1 .. n
        BY <1>2, <2>1
      <3> QED
        BY <1>3, <2>1, <3>1 DEF Behind
    <2>2. CASE ~(i < n)
      BY <1>1, <2>2 DEF Behind, g
    <2> QED
      BY <2>1, <2>2
  <1>5. ASSUME NEW i \in 1 .. n, route[i].origin = "prefix"
        PROVE  layout[Behind(i)].position = route[i].place.position + 1
    <2>1. route[i].place # None
      BY <1>3, <1>5
    <2>2. route[i] \in Point
      BY <1>2
    <2>3. route[i].place \in Place
      BY <2>1, <2>2 DEF Point
    <2>4. [route[i].place EXCEPT !.position = @ + 1].position = route[i].place.position + 1
      BY ONLY <2>3 DEF Place
    <2> QED
      BY <1>3, <1>5, <2>4
  <1>6. ASSUME NEW i \in 1 .. n PROVE ValidTerminalReturnPoint(Behind(i), route[i])'
    <2>1. Behind(i)' = Behind(i)
      BY <1>1 DEF Behind
    <2> QED
      BY <1>1, <1>3, <1>4, <1>5, <2>1 DEF ValidTerminalReturnPoint, SameTerminalGroup
  <1> QED
    BY <1>6

WayStays ==
  Walkable /\ ~Walkable' =>
    \/ \E preserve \in BOOLEAN : ResolveTerminalSwitch(preserve)
    \/ ReturnGone
    \/ \E t \in Terminal : DeleteTerminal(t)

\* Only a switch decision and a deleted terminal cut the way back.
LEMMA StepWay == Inv /\ [Next]_vars => WayStays
  <1> SUFFICES ASSUME Inv, [Next]_vars, Walkable,
                      ~\E preserve \in BOOLEAN : ResolveTerminalSwitch(preserve),
                      ~ReturnGone, ~\E t \in Terminal : DeleteTerminal(t)
               PROVE  Walkable'
    BY DEF WayStays
  <1>1. ASSUME UNCHANGED <<place, route, active>> PROVE Walkable'
    BY <1>1 DEF Walkable, ValidTerminalReturnPoint, SameTerminalGroup
  <1>2. ASSUME route' = <<>> PROVE Walkable'
    BY <1>2 DEF Walkable
  <1>3. CASE Overseer
    <2>1. ASSUME \/ StartBroadcast \/ EndBroadcast \/ RequestTerminalClear \/ ClearNavigation
                 \/ RaiseSwitch(None) \/ \E target \in Payload : RaiseSwitch(target)
          PROVE  Walkable'
      BY <1>2, <2>1
      DEF StartBroadcast, EndBroadcast, NoTerminals, RequestTerminalClear, ClearNavigation, RaiseSwitch
    <2>2. ASSUME \/ \E t \in Terminal : ReadCommandStates(t)
                 \/ ActivationRefused \/ CancelTerminalSwitch \/ ForceHackSuccess
                 \/ \E target \in Payload : ResetFailedHack(target)
                 \/ active # None /\ \E tree \in Draft[active] : UpdateLiveTerminal(tree)
          PROVE  Walkable'
      BY <1>1, <2>2
      DEF ReadCommandStates, ActivationRefused, CancelTerminalSwitch, ForceHackSuccess,
          ResetFailedHack, UpdateLiveTerminal, document, course
    <2> QED
      BY <1>3, <2>1, <2>2, ActivationKeepsWay DEF Overseer
  <1>4. CASE Player
    BY <1>1, <1>4
    DEF Player, ApplyGuess, EnterFolder, GoBack, RequestTerminalReturn, RequestTerminalTransition,
        RefuseTerminalTransition, RequestCommand, document, course
  <1>5. CASE Decisions
    <2>1. ASSUME \/ RejectCommand \/ ShowCommand \/ ExecuteCommand \/ FailCommand
                 \/ RejectNavigation \/ TransitionGone
                 \/ \E t \in Terminal, wide \in BOOLEAN : ResetCommandStates(t, wide)
          PROVE  Walkable'
      BY <1>1, <2>1
      DEF RejectCommand, ShowCommand, ExecuteCommand, FailCommand, Decided, ResetCommandStates,
          RejectNavigation, TransitionGone, NavigationGone, document, course
    <2> QED
      BY <1>5, <2>1, TransitionKeepsWay, ReturnKeepsWay DEF Decisions
  <1>6. CASE Document
    <2>1. ASSUME NEW t \in Terminal, NEW tree \in Draft[t], EditTerminal(t, tree) PROVE Walkable'
      BY <1>1, <2>1 DEF EditTerminal, course
    <2> QED
      BY <1>6, <2>1, RegroupingKeepsWay DEF Document
  <1>7. CASE UNCHANGED vars
    BY <1>1, <1>7 DEF vars, document, course
  <1> QED
    BY <1>3, <1>4, <1>5, <1>6, <1>7 DEF Next

\* While a route can be walked back it stays so: transitions, returns, first activations
\* and every regrouping validateRuntimeTerminalGroups allows keep each return point valid
\* from the next one; only a switch decision and a deleted terminal can cut the way.
THEOREM RouteAlwaysWalkable == Spec => RouteCanBeWalkedBack
  <1>1. Inv /\ [Next]_vars => [WayStays]_vars
    BY StepWay
  <1>2. Inv /\ [Next]_vars =>
          [Walkable /\ ~Walkable' =>
             \/ \E preserve \in BOOLEAN : ResolveTerminalSwitch(preserve)
             \/ ReturnGone
             \/ \E t \in Terminal : DeleteTerminal(t)]_vars
    BY <1>1 DEF WayStays
  <1> QED
    BY <1>2, InvAlways, PTL DEF Spec, RouteCanBeWalkedBack

=============================================================================
