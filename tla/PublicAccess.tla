---------------------------- MODULE PublicAccess ----------------------------
(* The manager of public access (internal/tunnel/manager.go) with its        *)
(* private ingress (public_ingress.go), the ngrok endpoint (ngrok.go), the   *)
(* settings file and the secret store, and the two callers the application   *)
(* has for it: the window, whose commands app.publicAccessCommandMu lets in  *)
(* one at a time, and the shutdown of the application, which takes another   *)
(* lock and so runs beside a command of the window.                          *)
(*                                                                           *)
(* Every call and every goroutine is split where manager.mu is released:     *)
(* one action is one critical section, or the end of one wait.               *)
EXTENDS Naturals, FiniteSets

CONSTANTS Mutation,       \* what a reconfiguration may do to the two secrets
          MaxAttempts,    \* bound: runtimes the manager tries to start
          MaxGeneration,  \* bound: intents of the callers and the monitor
          MaxRevision,    \* bound: committed settings
          None

Attempt == 1 .. MaxAttempts
Secret == {"provider", "password"}
Change == {"keep", "replace", "delete"}

ASSUME BoundsAssumption ==
  /\ MaxAttempts \in Nat /\ MaxGeneration \in Nat /\ MaxRevision \in Nat
  /\ Mutation \subseteq [Secret -> Change]
  /\ None \notin Nat

VARIABLES
  prefs,      \* preferences.Revision: the settings the manager works with
  disk,       \* Revision of the settings file
  stored,     \* the secret store: 0 without the item, else which value it has
  presence,   \* provider, password: what the manager believes of the store
  status,     \* PublicAccessStatus
  endpoint, ingress,       \* attempt whose endpoint or ingress the manager holds, or 0
  start, pendingStart,     \* startOperation in progress or unsettled, or 0
  cleanup,                 \* attempt the monitor cleans up after, or 0
  stop,                    \* caller whose stopOperation is open, or None
  reconfigure,             \* generation of the open reconfigureOperation, or 0
  op,         \* the startOperations, with the goroutine that starts each
  gate,       \* the private ingress of an attempt
  tunnel,     \* the provider's endpoint of an attempt
  monitor,    \* the goroutine that watches an attempt's endpoint
  call,       \* where each caller is
  quitting    \* the runtime context is cancelled: App.Shutdown has begun

manager == <<prefs, presence, status, endpoint, ingress, start, pendingStart,
             cleanup, stop, reconfigure>>
outside == <<disk, stored, gate, tunnel>>
vars == <<manager, outside, op, monitor, call, quitting>>

Caller == {"window", "quit"}
LifecycleState == {"disabled", "starting", "ready", "stopping", "failed"}

\* The public address and the error go with the state (PublicAccessStatus.Validate).
Status == [state : LifecycleState, generation : Nat, revision : Nat]
Gate == [at : {"none", "deny", "admit", "closed", "stuck"}, password : Nat]

Operation ==
  [generation : Nat, revision : Nat, cancelled : BOOLEAN, settled : BOOLEAN,
   worker : {"none", "ingress", "tunnel", "check", "activate", "sent", "taken"},
   failed : BOOLEAN, disposer : {"none", "waiting", "closing"}]
NoOperation ==
  [generation |-> 0, revision |-> 0, cancelled |-> FALSE, settled |-> FALSE,
   worker |-> "none", failed |-> FALSE, disposer |-> "none"]

\* A call is between two critical sections; the place is named for the one that is next.
Place ==
  {"idle", "snapshot", "start", "retained", "select", "discard", "stop", "joined",
   "settling", "closing", "stopped", "reconfigure", "provider", "password", "presence",
   "save", "commit", "over"}
Call ==
  [kind : {"none", "start", "stop", "reconfigure"}, at : Place, revision : Nat,
   attempt : Attempt \cup {0}, generation : Nat,
   endpoint : Attempt \cup {0}, ingress : Attempt \cup {0}, pending : Attempt \cup {0},
   active : BOOLEAN, failed : BOOLEAN, change : [Secret -> Change],
   seen : [Secret -> {"absent", "present", "unknown"}]]
Nothing == [s \in Secret |-> "keep"]
Unseen == [s \in Secret |-> "unknown"]
Idle ==
  [kind |-> "none", at |-> "idle", revision |-> 0, attempt |-> 0, generation |-> 0,
   endpoint |-> 0, ingress |-> 0, pending |-> 0, active |-> FALSE, failed |-> FALSE,
   change |-> Nothing, seen |-> Unseen]

TypeOK ==
  /\ prefs \in Nat /\ disk \in Nat /\ reconfigure \in Nat
  /\ stored \in [Secret -> Nat]
  /\ presence \in [Secret -> {"absent", "present", "unknown"}]
  /\ status \in Status
  /\ endpoint \in Attempt \cup {0} /\ ingress \in Attempt \cup {0}
  /\ start \in Attempt \cup {0} /\ pendingStart \in Attempt \cup {0} /\ cleanup \in Attempt \cup {0}
  /\ stop \in Caller \cup {None}
  /\ op \in [Attempt -> Operation]
  /\ gate \in [Attempt -> Gate]
  /\ tunnel \in [Attempt -> {"none", "open", "dead", "closed"}]
  /\ monitor \in [Attempt -> {"none", "watching", "closing", "ended"}]
  /\ call \in [Caller -> Call]
  /\ quitting \in BOOLEAN

(* Initialize: the settings and the presence of both secrets are read, and   *)
(* the manager is disabled, or failed when a secret could not be read.       *)
Readings ==
  {r \in [Secret -> {"unknown", "absent", "present"}] :
     \A s \in Secret : r[s] \in {"unknown", IF stored[s] = 0 THEN "absent" ELSE "present"}}

Init ==
  /\ prefs = 0 /\ disk = 0 /\ quitting = FALSE
  /\ stored \in [Secret -> {0, 1}]
  /\ presence \in Readings
  /\ status = [state |-> IF \E s \in Secret : presence[s] = "unknown" THEN "failed" ELSE "disabled",
               generation |-> 0, revision |-> 0]
  /\ endpoint = 0 /\ ingress = 0 /\ start = 0 /\ pendingStart = 0
  /\ cleanup = 0 /\ stop = None /\ reconfigure = 0
  /\ op = [g \in Attempt |-> NoOperation]
  /\ gate = [g \in Attempt |-> [at |-> "none", password |-> 0]]
  /\ tunnel = [g \in Attempt |-> "none"]
  /\ monitor = [g \in Attempt |-> "none"]
  /\ call = [p \in Caller |-> Idle]

-----------------------------------------------------------------------------
(* What the handlers share.                                                  *)

\* The context of the window's commands is cancelled by the shutdown; that of the
\* shutdown has a deadline, which may pass at any time.
ContextDone(p) == p = "window" => quitting
StartCancelled(g) == op[g].cancelled \/ quitting

Failed == [status EXCEPT !.state = "failed"]
Intent(state) == [state |-> state, generation |-> status.generation + 1, revision |-> prefs]
Unused == {g \in Attempt : op[g].worker = "none"}

DenyHeld ==   \* ingress.Deny, when the manager holds one
  IF ingress # 0 THEN [gate EXCEPT ![ingress].at = IF @ = "admit" THEN "deny" ELSE @] ELSE gate
Cancel == IF start # 0 THEN [op EXCEPT ![start].cancelled = TRUE] ELSE op

Answered(p, ok) == IF p = "quit" /\ ok THEN [Idle EXCEPT !.at = "over"] ELSE Idle
Answer(p, ok) ==   \* a reconfiguration that answers also completes its operation
  /\ call' = [call EXCEPT ![p] = Answered(p, ok)]
  /\ reconfigure' = IF call[p].kind = "reconfigure" THEN 0 ELSE reconfigure
Moves(p, place) == call' = [call EXCEPT ![p].at = place]

(* closePublicAccessRuntime ends within its five seconds.  It succeeds, or   *)
(* one half fails: the provider's endpoint stays open and can be closed      *)
(* again; the ingress is shut by force and keeps its error for every later   *)
(* Close ("stuck").  A close that timed out may still finish by itself.      *)
CloseRuntime(e, i, ok) ==
  /\ ok => (i # 0 => gate[i].at # "stuck")
  /\ ok \/ (e # 0 /\ tunnel[e] \in {"open", "dead"}) \/ (i # 0 /\ gate[i].at \in {"deny", "admit", "stuck"})
  /\ \E t \in {"closed"} \cup (IF e # 0 /\ ~ok THEN {tunnel[e]} ELSE {}) :
       tunnel' = [g \in Attempt |-> IF g = e /\ tunnel[g] # "none" THEN t ELSE tunnel[g]]
  /\ \E at \in {"closed"} \cup (IF ok THEN {} ELSE {"stuck"}) :
       gate' = [g \in Attempt |->
                  IF g = i /\ gate[g].at \in {"deny", "admit"} THEN [gate[g] EXCEPT !.at = at] ELSE gate[g]]

\* The manager forgets a runtime that is closed, unless it holds another by now.
Forget(e, i) ==
  /\ endpoint' = IF endpoint = e THEN 0 ELSE endpoint
  /\ ingress' = IF ingress = i THEN 0 ELSE ingress
ForgetRetained(g) == UNCHANGED <<endpoint, ingress>>   \* mutant of Retain
\* retainRuntimeAfterFailedCleanup
Retain(g) ==
  /\ endpoint' = IF endpoint = 0 /\ tunnel[g] # "none" THEN g ELSE endpoint
  /\ ingress' = IF ingress = 0 /\ gate[g].at # "none" THEN g ELSE ingress
\* completeStartLocked and settleStartLocked
Complete(g) == start' = IF start = g THEN 0 ELSE start
SettleQuietly(g) ==   \* mutant of Settle: those who wait are not told
  /\ op' = [op EXCEPT ![g].disposer = "none"]
  /\ pendingStart' = IF pendingStart = g THEN 0 ELSE pendingStart
Settle(g) ==
  /\ op' = [op EXCEPT ![g].settled = TRUE, ![g].disposer = "none"]
  /\ pendingStart' = IF pendingStart = g THEN 0 ELSE pendingStart

-----------------------------------------------------------------------------
(* The callers.  The window sends the revision it last saw; one command at a *)
(* time, and the bounds are taken into account here, never inside a call.    *)

WindowCalls(kind) ==
  /\ call["window"].at = "idle" /\ status.generation < MaxGeneration
  /\ kind # "stop" => Unused # {}
  /\ \E expected \in 0 .. prefs, change \in IF kind = "reconfigure" THEN Mutation ELSE {Nothing} :
       /\ kind = "reconfigure" => expected < MaxRevision
       /\ call' = [call EXCEPT !["window"] =
                     [Idle EXCEPT !.kind = kind, !.at = kind, !.revision = expected, !.change = change]]
  /\ UNCHANGED <<manager, outside, op, monitor, quitting>>

\* App.Shutdown cancels the runtime context and stops public access.  It may be called
\* again after an error.
Quit ==
  /\ call["quit"].at = "idle" /\ status.generation <= MaxGeneration
  /\ quitting' = TRUE
  /\ call' = [call EXCEPT !["quit"].kind = "stop", !["quit"].at = "snapshot"]
  /\ UNCHANGED <<manager, outside, op, monitor>>

ShutdownReads ==   \* Shutdown reads the revision and calls Stop with it
  /\ call["quit"].at = "snapshot"
  /\ call' = [call EXCEPT !["quit"].at = "stop", !["quit"].revision = prefs]
  /\ UNCHANGED <<manager, outside, op, monitor, quitting>>

-----------------------------------------------------------------------------
(* startPublicAccess.  One Start at a time: the branch that joins another    *)
(* caller's start is never taken.                                            *)

StartWaits(p) ==
  \/ (reconfigure # 0 /\ call[p].kind # "reconfigure")
  \/ (pendingStart # 0 /\ status.state # "starting")
  \/ cleanup # 0

Starting(p) == call[p].at = "start" /\ ~StartWaits(p) /\ call[p].revision = prefs
SecretsPresent == \A s \in Secret : presence[s] = "present"

StartGivesUp(p) ==
  /\ call[p].at = "start" /\ StartWaits(p) /\ ContextDone(p)
  /\ Answer(p, FALSE)
  /\ UNCHANGED <<prefs, presence, status, endpoint, ingress, start, pendingStart, cleanup, stop,
                  outside, op, monitor, quitting>>

\* A stale revision is a conflict; a ready manager has nothing to do.
StartAnswers(p) ==
  /\ call[p].at = "start" /\ ~StartWaits(p)
  /\ call[p].revision # prefs \/ status.state = "ready"
  /\ Answer(p, call[p].revision = prefs)
  /\ UNCHANGED <<prefs, presence, status, endpoint, ingress, start, pendingStart, cleanup, stop,
                  outside, op, monitor, quitting>>

StartWithoutSecrets(p) ==
  /\ Starting(p) /\ status.state # "ready" /\ ~SecretsPresent
  /\ status' = [Failed EXCEPT !.generation = @ + 1]
  /\ Answer(p, FALSE)
  /\ UNCHANGED <<prefs, presence, endpoint, ingress, start, pendingStart, cleanup, stop,
                  outside, op, monitor, quitting>>

\* What an earlier close left over is closed first, and the start begins anew.
StartOverRetained(p) ==
  /\ Starting(p) /\ status.state # "ready" /\ SecretsPresent
  /\ endpoint # 0 \/ ingress # 0
  /\ gate' = DenyHeld
  /\ call' = [call EXCEPT ![p].at = "retained", ![p].endpoint = endpoint, ![p].ingress = ingress]
  /\ UNCHANGED <<manager, disk, stored, tunnel, op, monitor, quitting>>

RetainedClosed(p, ok) ==
  /\ call[p].at = "retained"
  /\ CloseRuntime(call[p].endpoint, call[p].ingress, ok)
  /\ IF ok THEN Forget(call[p].endpoint, call[p].ingress) /\ Moves(p, "start")
                 /\ UNCHANGED <<status, reconfigure>>
     ELSE status' = Failed /\ Answer(p, FALSE) /\ UNCHANGED <<endpoint, ingress>>
  /\ UNCHANGED <<prefs, presence, start, pendingStart, cleanup, stop, disk, stored, op, monitor, quitting>>

StartBegins(p) ==
  /\ Starting(p) /\ status.state # "ready" /\ SecretsPresent
  /\ endpoint = 0 /\ ingress = 0
  /\ \E g \in Unused :
       /\ \A h \in Unused : g <= h
       /\ status' = Intent("starting")
       /\ op' = [op EXCEPT ![g] = [NoOperation EXCEPT !.generation = status.generation + 1,
                                      !.revision = prefs, !.worker = "ingress"]]
       /\ start' = g /\ pendingStart' = g
       /\ call' = [call EXCEPT ![p].at = "select", ![p].attempt = g]
  /\ UNCHANGED <<prefs, presence, endpoint, ingress, cleanup, stop, reconfigure, outside, monitor, quitting>>

\* The goroutine of a start: ingress, secrets and endpoint, activation, response.
WorkerIngress(g) ==
  /\ op[g].worker = "ingress"
  /\ \/ /\ ~StartCancelled(g)
        /\ gate' = [gate EXCEPT ![g].at = "deny"]
        /\ op' = [op EXCEPT ![g].worker = "tunnel"]
     \/ /\ op' = [op EXCEPT ![g].worker = "sent", ![g].failed = TRUE]
        /\ UNCHANGED gate
  /\ UNCHANGED <<manager, disk, stored, tunnel, monitor, call, quitting>>

WorkerTunnel(g) ==
  /\ op[g].worker = "tunnel"
  /\ \/ /\ ~StartCancelled(g) /\ \A s \in Secret : stored[s] # 0
        /\ tunnel' = [tunnel EXCEPT ![g] = "open"]
        /\ gate' = [gate EXCEPT ![g].password = stored["password"]]
        /\ op' = [op EXCEPT ![g].worker = "check"]
     \/ /\ op' = [op EXCEPT ![g].worker = "sent", ![g].failed = TRUE]
        /\ UNCHANGED <<tunnel, gate>>
  /\ UNCHANGED <<manager, disk, stored, monitor, call, quitting>>

WorkerChecks(g) ==
  /\ op[g].worker = "check"
  /\ op' = IF StartCancelled(g) THEN [op EXCEPT ![g].worker = "sent", ![g].failed = TRUE]
           ELSE [op EXCEPT ![g].worker = "activate"]
  /\ UNCHANGED <<manager, outside, monitor, call, quitting>>

WorkerActivates(g) ==
  /\ op[g].worker = "activate"
  /\ \E ok \in BOOLEAN :
       /\ gate' = IF ok THEN [gate EXCEPT ![g].at = "admit"] ELSE gate
       /\ op' = [op EXCEPT ![g].worker = "sent", ![g].failed = ~ok]
  /\ UNCHANGED <<manager, disk, stored, tunnel, monitor, call, quitting>>

CurrentOperation(g) == start = g   \* mutant of Current: the status is not looked at
\* finishStart: the response of a start that is no longer current changes nothing.
Current(g) ==
  /\ start = g /\ status.state = "starting"
  /\ status.generation = op[g].generation /\ prefs = op[g].revision

\* mutant of StartReady: the error of the activation is lost
StartReadyRegardless(p) ==
  /\ call[p].at = "select" /\ op[call[p].attempt].worker = "sent"
  /\ LET g == call[p].attempt IN
       /\ Current(g)
       /\ endpoint' = g /\ ingress' = g
       /\ status' = [status EXCEPT !.state = "ready"]
       /\ Complete(g)
       /\ Settle(g)
       /\ monitor' = [monitor EXCEPT ![g] = "watching"]
  /\ Answer(p, TRUE)
  /\ UNCHANGED <<prefs, presence, cleanup, stop, outside, quitting>>

Responds(p) == call[p].at = "select" /\ op[call[p].attempt].worker = "sent"

StartReady(p) ==
  /\ Responds(p)
  /\ LET g == call[p].attempt IN
       /\ Current(g) /\ ~op[g].failed
       /\ endpoint' = g /\ ingress' = g
       /\ status' = [status EXCEPT !.state = "ready"]
       /\ Complete(g)
       /\ Settle(g)
       /\ monitor' = [monitor EXCEPT ![g] = "watching"]
  /\ Answer(p, TRUE)
  /\ UNCHANGED <<prefs, presence, cleanup, stop, outside, quitting>>

StartUndone(p) ==
  /\ Responds(p)
  /\ LET g == call[p].attempt IN
       /\ ~Current(g) \/ op[g].failed
       /\ status' = IF Current(g) THEN Failed ELSE status
       /\ gate' = [gate EXCEPT ![g].at = IF @ = "admit" THEN "deny" ELSE @]
       /\ op' = [op EXCEPT ![g].worker = "taken"]
  /\ Moves(p, "discard")
  /\ UNCHANGED <<prefs, presence, endpoint, ingress, start, pendingStart, cleanup, stop, reconfigure,
                  disk, stored, tunnel, monitor, quitting>>

StartDiscarded(p, ok) ==
  /\ call[p].at = "discard"
  /\ LET g == call[p].attempt IN
       /\ CloseRuntime(g, g, ok)
       /\ IF ok THEN UNCHANGED <<endpoint, ingress>> ELSE Retain(g)
       /\ Complete(g)
       /\ Settle(g)
  /\ Answer(p, FALSE)
  /\ UNCHANGED <<prefs, presence, status, cleanup, stop, disk, stored, monitor, quitting>>

\* The thirty seconds are over, or the context is: failCurrentStart, and the response is
\* left to disposeLateStart.
StartExpires(p) ==
  /\ call[p].at = "select"
  /\ LET g == call[p].attempt IN
       /\ status' = IF start = g /\ status.state = "starting" /\ status.generation = op[g].generation
                    THEN Failed ELSE status
       /\ Complete(g)
       /\ op' = [op EXCEPT ![g].cancelled = TRUE, ![g].disposer = "waiting"]
  /\ Answer(p, FALSE)
  /\ UNCHANGED <<prefs, presence, endpoint, ingress, pendingStart, cleanup, stop, outside, monitor, quitting>>

LateStart(g) ==
  /\ op[g].disposer = "waiting" /\ op[g].worker = "sent"
  /\ op' = [op EXCEPT ![g].disposer = "closing", ![g].worker = "taken"]
  /\ gate' = [gate EXCEPT ![g].at = IF @ = "admit" THEN "deny" ELSE @]
  /\ UNCHANGED <<manager, disk, stored, tunnel, monitor, call, quitting>>

LateStartDisposed(g, ok) ==
  /\ op[g].disposer = "closing"
  /\ CloseRuntime(g, g, ok)
  /\ IF ok THEN UNCHANGED <<endpoint, ingress>> ELSE Retain(g)
  /\ Settle(g)
  /\ UNCHANGED <<prefs, presence, status, start, cleanup, stop, reconfigure,
                  disk, stored, monitor, call, quitting>>

-----------------------------------------------------------------------------
(* Stop.                                                                     *)

StopWaits(p) == reconfigure # 0 \/ cleanup # 0
Stopping(p) == call[p].at = "stop" /\ ~StopWaits(p)
Joins == stop # None /\ status.state = "stopping"
Stopped == status.state = "disabled" /\ endpoint = 0 /\ ingress = 0

StopGivesUp(p) ==
  /\ \/ call[p].at = "stop" /\ StopWaits(p)
     \/ call[p].at = "joined"
  /\ ContextDone(p)
  /\ Answer(p, FALSE)
  /\ UNCHANGED <<prefs, presence, status, endpoint, ingress, start, pendingStart, cleanup, stop,
                  outside, op, monitor, quitting>>

\* Shutdown tries again after a conflict.
StopConflicts(p) ==
  /\ Stopping(p) /\ call[p].revision # prefs
  /\ IF p = "quit" THEN Moves(p, "snapshot") /\ UNCHANGED reconfigure ELSE Answer(p, FALSE)
  /\ UNCHANGED <<prefs, presence, status, endpoint, ingress, start, pendingStart, cleanup, stop,
                  outside, op, monitor, quitting>>

StopJoins(p) ==
  /\ Stopping(p) /\ call[p].revision = prefs /\ Joins
  /\ Moves(p, "joined")
  /\ UNCHANGED <<manager, outside, op, monitor, quitting>>

StopFindsNothing(p) ==
  /\ Stopping(p) /\ call[p].revision = prefs /\ Stopped
  /\ Answer(p, TRUE)
  /\ UNCHANGED <<prefs, presence, status, endpoint, ingress, start, pendingStart, cleanup, stop,
                  outside, op, monitor, quitting>>

StopBegins(p) ==
  /\ Stopping(p) /\ call[p].revision = prefs /\ ~Joins /\ ~Stopped
  /\ status' = Intent("stopping")
  /\ op' = Cancel
  /\ gate' = DenyHeld
  /\ stop' = p
  /\ call' = [call EXCEPT ![p].at = "settling", ![p].generation = status.generation + 1,
                          ![p].pending = pendingStart, ![p].endpoint = endpoint, ![p].ingress = ingress]
  /\ UNCHANGED <<prefs, presence, endpoint, ingress, start, pendingStart, cleanup, reconfigure,
                  disk, stored, tunnel, monitor, quitting>>

\* The pending start has settled.  What it may have left is read again if nothing was
\* captured before, and denied; without a runtime there is nothing to close.
Settled(p) == call[p].pending # 0 => op[call[p].pending].settled
Reread(p) == call[p].endpoint = 0 /\ call[p].ingress = 0
RuntimeOf(p) == IF Reread(p) THEN <<endpoint, ingress>> ELSE <<call[p].endpoint, call[p].ingress>>
RuntimeTaken(p, next, place) ==
  /\ gate' = IF Reread(p) THEN DenyHeld ELSE gate
  /\ call' = [call EXCEPT ![p].endpoint = RuntimeOf(p)[1], ![p].ingress = RuntimeOf(p)[2],
                          ![p].at = IF RuntimeOf(p) = <<0, 0>> THEN next ELSE place]

StopSettled(p) ==
  /\ call[p].at = "settling" /\ call[p].kind = "stop" /\ Settled(p)
  /\ RuntimeTaken(p, "stopped", "closing")
  /\ UNCHANGED <<manager, disk, stored, tunnel, op, monitor, quitting>>

StopExpires(p) ==
  /\ call[p].at = "settling" /\ call[p].kind = "stop" /\ ~Settled(p) /\ ContextDone(p)
  /\ call' = [call EXCEPT ![p].at = "stopped", ![p].failed = TRUE]
  /\ UNCHANGED <<manager, outside, op, monitor, quitting>>

StopCloses(p, ok) ==
  /\ call[p].at = "closing" /\ call[p].kind = "stop"
  /\ CloseRuntime(call[p].endpoint, call[p].ingress, ok)
  /\ call' = [call EXCEPT ![p].at = "stopped", ![p].failed = ~ok]
  /\ UNCHANGED <<manager, disk, stored, op, monitor, quitting>>

\* The last section: the status is set whatever it has become meanwhile, and those who
\* joined get the same answer.
StopEnds(p) ==
  /\ call[p].at = "stopped"
  /\ IF call[p].failed THEN status' = Failed /\ UNCHANGED <<endpoint, ingress>>
     ELSE /\ status' = [state |-> "disabled", generation |-> call[p].generation, revision |-> prefs]
          /\ Forget(call[p].endpoint, call[p].ingress)
  /\ stop' = None
  /\ call' = [q \in Caller |-> IF q = p \/ call[q].at = "joined" THEN Answered(q, ~call[p].failed) ELSE call[q]]
  /\ UNCHANGED <<prefs, presence, start, pendingStart, cleanup, reconfigure, outside, op, monitor, quitting>>

-----------------------------------------------------------------------------
(* Reconfigure: SavePublicAccessSettings and GeneratePlayerPassword.  Only   *)
(* the window reconfigures, one call at a time, so none waits for another.   *)

ReconfigureWaits(p) == cleanup # 0 \/ (call[p].revision = prefs /\ stop # None)

ReconfigureGivesUp(p) ==
  /\ call[p].at = "reconfigure" /\ ReconfigureWaits(p) /\ ContextDone(p)
  /\ call' = [call EXCEPT ![p] = Idle]
  /\ UNCHANGED <<manager, outside, op, monitor, quitting>>

ReconfigureConflicts(p) ==
  /\ call[p].at = "reconfigure" /\ cleanup = 0 /\ call[p].revision # prefs
  /\ call' = [call EXCEPT ![p] = Idle]
  /\ UNCHANGED <<manager, outside, op, monitor, quitting>>

ReconfigureBegins(p) ==
  /\ call[p].at = "reconfigure" /\ ~ReconfigureWaits(p) /\ call[p].revision = prefs
  /\ status' = Intent("stopping")
  /\ reconfigure' = status.generation + 1
  /\ op' = Cancel
  /\ gate' = DenyHeld
  /\ call' = [call EXCEPT ![p].at = "settling", ![p].generation = status.generation + 1,
        ![p].active = status.state \in {"starting", "ready"} \/ endpoint # 0 \/ ingress # 0 \/ pendingStart # 0,
        ![p].pending = pendingStart, ![p].endpoint = endpoint, ![p].ingress = ingress]
  /\ UNCHANGED <<prefs, presence, endpoint, ingress, start, pendingStart, cleanup, stop,
                  disk, stored, tunnel, monitor, quitting>>

ReconfigureSettled(p) ==
  /\ call[p].at = "settling" /\ call[p].kind = "reconfigure" /\ Settled(p)
  /\ RuntimeTaken(p, "provider", "closing")
  /\ UNCHANGED <<manager, disk, stored, tunnel, op, monitor, quitting>>

\* finishReconfigureFailure
FailsReconfigure(p) ==
  /\ status' = [state |-> "failed", generation |-> call[p].generation, revision |-> prefs]
  /\ Answer(p, FALSE)

ReconfigureExpires(p) ==
  /\ call[p].at = "settling" /\ call[p].kind = "reconfigure" /\ ~Settled(p) /\ ContextDone(p)
  /\ FailsReconfigure(p)
  /\ UNCHANGED <<prefs, presence, endpoint, ingress, start, pendingStart, cleanup, stop,
                  outside, op, monitor, quitting>>

ReconfigureCloses(p, ok) ==
  /\ call[p].at = "closing" /\ call[p].kind = "reconfigure"
  /\ CloseRuntime(call[p].endpoint, call[p].ingress, ok)
  /\ IF ok THEN Forget(call[p].endpoint, call[p].ingress) /\ Moves(p, "provider")
                 /\ UNCHANGED <<status, reconfigure>>
     ELSE FailsReconfigure(p) /\ UNCHANGED <<endpoint, ingress>>
  /\ UNCHANGED <<prefs, presence, start, pendingStart, cleanup, stop, disk, stored, op, monitor, quitting>>

(* The two secrets are changed one after the other.  A change that fails     *)
(* leaves its secret alone, but not the one before it: the presence of both  *)
(* is read again.  With a context that is over the store refuses.            *)
Changed(s, change) ==
  CASE change = "keep" -> stored[s]
    [] change = "replace" -> stored[s] + 1
    [] change = "delete" -> 0

ReconfigureSecret(p, s, next) ==
  /\ call[p].at = s /\ (call[p].change[s] = "keep" \/ ~ContextDone(p))
  /\ stored' = [stored EXCEPT ![s] = Changed(s, call[p].change[s])]
  /\ Moves(p, next)
  /\ UNCHANGED <<manager, disk, gate, tunnel, op, monitor, quitting>>

SecretFails(p, s) ==
  /\ call[p].at = s /\ call[p].change[s] # "keep"
  /\ presence' \in Readings
  /\ FailsReconfigure(p)
  /\ UNCHANGED <<prefs, endpoint, ingress, start, pendingStart, cleanup, stop, outside, op, monitor, quitting>>

PresenceRead(p) ==
  /\ call[p].at = "presence"
  /\ \E r \in IF ContextDone(p) THEN {Unseen} ELSE Readings :
       IF \E s \in Secret : r[s] = "unknown"
       THEN FailsReconfigure(p) /\ presence' = r
       ELSE /\ call' = [call EXCEPT ![p].at = "save", ![p].seen = r]
            /\ UNCHANGED <<status, presence, reconfigure>>
  /\ UNCHANGED <<prefs, endpoint, ingress, start, pendingStart, cleanup, stop, outside, op, monitor, quitting>>

\* The file is replaced atomically; Save may still fail after that, when the directory
\* cannot be synced.
SettingsSaved(p) ==
  /\ call[p].at = "save"
  /\ disk' = prefs + 1
  /\ Moves(p, "commit")
  /\ UNCHANGED <<manager, stored, gate, tunnel, op, monitor, quitting>>

SaveFails(p) ==
  /\ call[p].at = "save"
  /\ disk' \in {disk, prefs + 1}
  /\ presence' = call[p].seen
  /\ FailsReconfigure(p)
  /\ UNCHANGED <<prefs, endpoint, ingress, start, pendingStart, cleanup, stop,
                  stored, gate, tunnel, op, monitor, quitting>>

\* The settings are installed if the operation is still the current one, which it always
\* is (PublicAccessProofs), and public access starts again under it when it was active.
ReconfigureCommits(p) ==
  /\ call[p].at = "commit" /\ status.generation = call[p].generation
  /\ prefs' = prefs + 1
  /\ presence' = call[p].seen
  /\ status' = [state |-> "disabled", generation |-> status.generation, revision |-> prefs + 1]
  /\ IF call[p].active /\ \A s \in Secret : call[p].seen[s] = "present"
     THEN call' = [call EXCEPT ![p].at = "start", ![p].revision = prefs + 1] /\ UNCHANGED reconfigure
     ELSE Answer(p, TRUE)
  /\ UNCHANGED <<endpoint, ingress, start, pendingStart, cleanup, stop, outside, op, monitor, quitting>>

-----------------------------------------------------------------------------
(* The provider's endpoint and the goroutine that watches it.                *)

TunnelDies(g) ==
  /\ tunnel[g] = "open" /\ status.generation < MaxGeneration
  /\ tunnel' = [tunnel EXCEPT ![g] = "dead"]
  /\ UNCHANGED <<manager, disk, stored, gate, op, monitor, call, quitting>>

\* A runtime that Stop, Reconfigure or a start has taken over is theirs to close.
MonitorFires(g) ==
  /\ monitor[g] = "watching" /\ tunnel[g] \in {"dead", "closed"}
  /\ IF /\ endpoint = g /\ ingress = g /\ status.state = "ready"
        /\ status.generation = op[g].generation
     THEN /\ gate' = DenyHeld
          /\ cleanup' = g
          /\ status' = Intent("failed")
          /\ monitor' = [monitor EXCEPT ![g] = "closing"]
     ELSE monitor' = [monitor EXCEPT ![g] = "ended"] /\ UNCHANGED <<gate, cleanup, status>>
  /\ UNCHANGED <<prefs, presence, endpoint, ingress, start, pendingStart, stop, reconfigure,
                  disk, stored, tunnel, op, call, quitting>>

MonitorCloses(g, ok) ==
  /\ monitor[g] = "closing"
  /\ CloseRuntime(g, g, ok)
  /\ IF ok THEN Forget(g, g) ELSE UNCHANGED <<endpoint, ingress>>
  /\ cleanup' = IF cleanup = g THEN 0 ELSE cleanup
  /\ monitor' = [monitor EXCEPT ![g] = "ended"]
  /\ UNCHANGED <<prefs, presence, status, start, pendingStart, stop, reconfigure,
                  disk, stored, op, call, quitting>>

-----------------------------------------------------------------------------

StartStep(p) ==
  \/ StartGivesUp(p) \/ StartAnswers(p) \/ StartWithoutSecrets(p)
  \/ StartOverRetained(p) \/ (\E ok \in BOOLEAN : RetainedClosed(p, ok)) \/ StartBegins(p)
  \/ StartReady(p) \/ StartUndone(p) \/ (\E ok \in BOOLEAN : StartDiscarded(p, ok)) \/ StartExpires(p)

StopStep(p) ==
  \/ StopGivesUp(p) \/ StopConflicts(p) \/ StopJoins(p) \/ StopFindsNothing(p) \/ StopBegins(p)
  \/ StopSettled(p) \/ StopExpires(p) \/ (\E ok \in BOOLEAN : StopCloses(p, ok)) \/ StopEnds(p)

ReconfigureStep(p) ==
  \/ ReconfigureGivesUp(p) \/ ReconfigureConflicts(p) \/ ReconfigureBegins(p)
  \/ ReconfigureSettled(p) \/ ReconfigureExpires(p) \/ (\E ok \in BOOLEAN : ReconfigureCloses(p, ok))
  \/ ReconfigureSecret(p, "provider", "password") \/ ReconfigureSecret(p, "password", "presence")
  \/ (\E s \in Secret : SecretFails(p, s)) \/ PresenceRead(p)
  \/ SettingsSaved(p) \/ SaveFails(p) \/ ReconfigureCommits(p)

WorkerStep(g) == WorkerIngress(g) \/ WorkerTunnel(g) \/ WorkerChecks(g) \/ WorkerActivates(g)
DisposerStep(g) == LateStart(g) \/ \E ok \in BOOLEAN : LateStartDisposed(g, ok)
MonitorStep(g) == MonitorFires(g) \/ \E ok \in BOOLEAN : MonitorCloses(g, ok)

Next ==
  \/ \E kind \in {"start", "stop", "reconfigure"} : WindowCalls(kind)
  \/ Quit \/ ShutdownReads
  \/ StartStep("window") \/ ReconfigureStep("window")
  \/ \E p \in Caller : StopStep(p)
  \/ \E g \in Attempt : WorkerStep(g) \/ DisposerStep(g) \/ MonitorStep(g) \/ TunnelDies(g)

Spec == Init /\ [][Next]_vars

(* Every goroutine of the manager goes on; every wait has a deadline or ends *)
(* with the one waited for; a close is bounded.  Nobody has to call, and no  *)
(* endpoint has to die.                                                      *)
FairSpec ==
  /\ Spec
  /\ WF_vars(ShutdownReads)
  /\ WF_vars(StartStep("window") \/ ReconfigureStep("window") \/ StopStep("window"))
  /\ WF_vars(StopStep("quit"))
  /\ \A g \in Attempt : WF_vars(WorkerStep(g)) /\ WF_vars(DisposerStep(g)) /\ WF_vars(MonitorStep(g))

-----------------------------------------------------------------------------
(* Properties.                                                               *)

Live(g) == tunnel[g] \in {"open", "dead"} \/ gate[g].at \in {"deny", "admit"}

(* A public URL is shown only while the runtime behind it is the manager's   *)
(* own, admits players, and was started with the settings in force.          *)
ReadyIsServed ==
  status.state = "ready" =>
    /\ endpoint # 0 /\ ingress = endpoint
    /\ gate[ingress].at = "admit" /\ tunnel[endpoint] \in {"open", "dead"}
    /\ status.revision = prefs /\ op[endpoint].revision = prefs

(* Public access that is shown as disabled is closed: no endpoint and no     *)
(* ingress of any start, late or cancelled, is left open.                    *)
DisabledIsClosed == status.state = "disabled" => \A g \in Attempt : ~Live(g)

(* What the manager says of a secret is true or unknown, also after a        *)
(* reconfiguration that changed one secret and failed on the other or on the *)
(* file.                                                                     *)
PresenceIsHonest ==
  reconfigure = 0 => presence \in Readings

(* What the Overseer is told of the public access is so: it is served when   *)
(* ready, closed when disabled, and the secrets are there as shown.          *)
StatusIsTrue == ReadyIsServed /\ DisabledIsClosed /\ PresenceIsHonest

(* No runtime is lost: whatever is open is held by the manager or belongs to *)
(* a start that has not settled, so that a later Stop finds it.              *)
EveryRuntimeIsOwned ==
  \A g \in Attempt :
    /\ tunnel[g] \in {"open", "dead"} => endpoint = g \/ pendingStart = g
    /\ gate[g].at \in {"deny", "admit"} => ingress = g \/ pendingStart = g

(* The old endpoint is closed before a new one is started, whatever stop,    *)
(* timeout, failed close or reconfiguration lies between them.               *)
OneRuntimeAtATime == \A g, h \in Attempt : Live(g) /\ Live(h) => g = h

(* Players are let in with the password that is stored: a password is        *)
(* replaced or deleted only when no ingress admits with the old one.         *)
AdmissionUsesStoredPassword ==
  \A g \in Attempt : gate[g].at = "admit" => gate[g].password = stored["password"]

(* There is one runtime at most, the manager knows it, and it lets in those  *)
(* who know the stored password and nobody else.                             *)
RuntimesAreOwned == EveryRuntimeIsOwned /\ OneRuntimeAtATime /\ AdmissionUsesStoredPassword

(* A start that Stop or Reconfigure cancelled never becomes ready.           *)
CancelledStartStaysDown ==
  [][status'.state = "ready" /\ status.state # "ready" => ~op[endpoint'].cancelled]_vars

(* Every command of the window is answered and every shutdown ends, although *)
(* Stop and Reconfigure wait for starts, cleanups and each other.            *)
CallsAreAnswered ==
  /\ call["window"].at # "idle" ~> call["window"].at = "idle"
  /\ call["quit"].at = "snapshot" ~> call["quit"].at \in {"idle", "over"}

(* The data model of the feature: the generation increases for every intent. *)
(* The code: Start does not wait for a Stop in progress, which then puts     *)
(* its own, older generation back, so this does not hold.                    *)
GenerationNeverGoesBack == [][status'.generation >= status.generation]_vars

=============================================================================
