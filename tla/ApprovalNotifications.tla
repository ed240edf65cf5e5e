------------------------- MODULE ApprovalNotifications -------------------------
(***************************************************************************)
(* The native notification of the request that waits for the Overseer:     *)
(* approval_notifications.go between the coordinator, which publishes its  *)
(* states through the App, and the desktop, whose calls take time, may     *)
(* fail and are made one at a time under nativeMu.  The coordinator        *)
(* publishes under its lock; a command of the Overseer publishes the state *)
(* it was answered with once more after the lock was released, so that an  *)
(* older state may be observed after a newer one.                          *)
(***************************************************************************)
EXTENDS Naturals, Sequences, FiniteSets, Bags

CONSTANTS
  MaxRequests,   \* bound: requests in a run; their ids are never reused
  MaxCommands,   \* bound: Overseer commands that publish their answer
  MaxClicks,     \* bound: responses being handled at the same time
  None

ASSUME BoundsAssumption ==
  MaxRequests \in Nat \ {0} /\ MaxCommands \in Nat /\ MaxClicks \in Nat /\ None \notin Nat

Request == 1 .. MaxRequests

\* The record of the current request, the goroutines that deliver and remove its
\* notification, and the answer that a command publishes again.
Deliveries == [request : Request, delivery : {"waiting", "attempting", "delivered", "failed"},
               deciding : BOOLEAN]
Goroutines == [pc : {"clean", "removing", "send", "sending", "rechecking", "record", "close"},
               old : Request \cup {None}, request : Request \cup {None}, last : BOOLEAN,
               generation : Nat, error : BOOLEAN, lost : BOOLEAN]
Echoes == [revision : Nat, request : Request \cup {None}, accepted : BOOLEAN]

ASSUME NoneAssumption == None \notin Deliveries \cup Goroutines \cup Echoes

VARIABLES
  revision,      \* of the coordinator; the App always shows the coordinator's latest
  pending,       \* PendingCommandExecution or PendingTerminalNavigation
  requests,      \* request ids drawn
  commands,      \* Overseer commands begun
  echo,          \* the answer a command is about to publish again
  availability,
  generation,
  authorization, \* of the goroutine authorize
  current,       \* currentApprovalNotification
  tasks,         \* a bag: goroutines applyTransition and cleanup
  clicks,        \* a bag: responses that called the App
  shown,         \* requests with a notification on the desktop
  sent,          \* history: deliveries of each request
  closed,        \* the native service was shut down
  overtaken      \* history: an older state with another request was observed

coordinator == <<revision, pending, requests, commands, echo, overtaken>>
service == <<availability, generation, authorization, current>>
desktop == <<shown, sent, closed>>
vars == <<coordinator, service, tasks, clicks, desktop>>

-----------------------------------------------------------------------------
(* Delivery records and goroutines.                                         *)

Task(pc, old, request, last) ==
  [pc |-> pc, old |-> old, request |-> request, last |-> last, generation |-> generation, error |-> FALSE, lost |-> FALSE]

\* go applyTransition(old, request, generation)
Spawned(old, request) ==
  IF old = None /\ request = None THEN EmptyBag
  ELSE SetToBag({Task(IF old = None THEN "send" ELSE "clean", old, request, FALSE)})

Invalidated == IF current = None THEN None ELSE current.request

Waiting(request) == [request |-> request, delivery |-> "waiting", deciding |-> FALSE]

\* Mutant of Claims: asked before the availability has changed.
ClaimsBefore(available, record) == availability = "ready" /\ record # None /\ record.delivery = "waiting"

\* claimDeliveryLocked
Claims(available, record) == available = "ready" /\ record # None /\ record.delivery = "waiting"
Claim(available, record) == IF Claims(available, record) THEN [record EXCEPT !.delivery = "attempting"] ELSE record

SameRequest(request) == request # None /\ current # None /\ current.request = request

\* Mutant of Leftover: what is being delivered is taken to be gone.
LeftoverIfDelivered == IF current # None /\ current.delivery = "attempting" THEN None ELSE Invalidated

\* What observing a state without the current request has to remove.
Leftover == Invalidated

\* observeCoordinationState
Observe(request) ==
  IF availability = "stopped" \/ SameRequest(request) THEN UNCHANGED <<current, tasks>>
  ELSE LET record == IF request = None THEN None ELSE Waiting(request) IN
       /\ current' = Claim(availability, record)
       /\ tasks' = tasks (+) Spawned(Leftover, IF Claims(availability, record) THEN request ELSE None)

-----------------------------------------------------------------------------
Init ==
  /\ revision = 0 /\ pending = None /\ requests = 0 /\ commands = 0 /\ echo = None /\ overtaken = FALSE
  /\ availability = "starting" /\ generation = 0 /\ authorization = "none" /\ current = None
  /\ tasks = EmptyBag /\ clicks = EmptyBag
  /\ shown = {} /\ sent = [r \in Request |-> 0] /\ closed = FALSE

\* ServiceStartup; the App starts after it.
ServiceStartup ==
  /\ availability = "starting"
  /\ generation' = generation + 1
  /\ \/ availability' = "unavailable" /\ UNCHANGED authorization
     \/ availability' = "authorizing" /\ authorization' = "queued"
  /\ UNCHANGED <<coordinator, current, tasks, clicks, desktop>>

\* ServiceShutdown
ServiceShutdown ==
  /\ availability \notin {"starting", "stopped"}
  /\ generation' = generation + 1 /\ availability' = "stopped" /\ current' = None
  /\ tasks' = tasks (+) SetToBag({[Task(IF Invalidated = None THEN "close" ELSE "clean", Invalidated, None, TRUE)
                                     EXCEPT !.generation = generation + 1]})
  /\ UNCHANGED <<coordinator, authorization, clicks, desktop>>

-----------------------------------------------------------------------------
(* The coordinator and the App.                                             *)

\* An effect with the master state, published under the coordinator's lock.
Publish(request) ==
  /\ revision' = revision + 1 /\ pending' = request
  /\ Observe(request)

Started == availability # "starting"

\* A player asks for a command or a way to another terminal.
Ask ==
  /\ Started /\ pending = None /\ requests < MaxRequests
  /\ requests' = requests + 1
  /\ Publish(requests + 1)
  /\ UNCHANGED <<commands, echo, overtaken, availability, generation, authorization, clicks, desktop>>

\* Decided in the window, or gone with its terminal, broadcast or controller.
Dismiss ==
  /\ pending # None
  /\ Publish(None)
  /\ UNCHANGED <<requests, commands, echo, overtaken, availability, generation, authorization, clicks, desktop>>

\* A command of the Overseer that leaves the request alone, and its answer.
Command ==
  /\ Started /\ echo = None /\ commands < MaxCommands
  /\ commands' = commands + 1
  /\ Publish(pending)
  /\ echo' = [revision |-> revision + 1, request |-> pending, accepted |-> FALSE]
  /\ UNCHANGED <<requests, overtaken, availability, generation, authorization, clicks, desktop>>

\* publishCoordinationState, up to where app.mu is released.
EchoAccepted ==
  /\ echo # None /\ ~echo.accepted
  /\ echo' = IF echo.revision < revision THEN None ELSE [echo EXCEPT !.accepted = TRUE]
  /\ UNCHANGED <<revision, pending, requests, commands, overtaken, service, tasks, clicks, desktop>>

\* publishCoordinationState, from there on.
EchoObserved ==
  /\ echo # None /\ echo.accepted
  /\ Observe(echo.request)
  /\ echo' = None
  /\ overtaken' = (overtaken \/ echo.request # pending)
  /\ UNCHANGED <<revision, pending, requests, commands, availability, generation, authorization, clicks, desktop>>

-----------------------------------------------------------------------------
(* The native service.                                                      *)

\* nativeMu
NativeFree ==
  /\ authorization # "asking"
  /\ \A t \in BagToSet(tasks) : t.pc \notin {"removing", "sending", "rechecking"}

Authorize ==
  /\ authorization = "queued" /\ NativeFree
  /\ authorization' = "asking"
  /\ UNCHANGED <<coordinator, availability, generation, current, tasks, clicks, desktop>>

\* Mutant of StillWanted: the answer counts, however late.
WantedAnyway == TRUE

StillWanted == generation = 1 /\ availability # "stopped"

\* The desktop or the user answers, or the call fails, which counts as a refusal.
Authorized(granted) ==
  /\ authorization = "asking"
  /\ authorization' = IF granted THEN "granted" ELSE "refused"
  /\ UNCHANGED <<coordinator, availability, generation, current, tasks, clicks, desktop>>

\* authorize, after nativeMu was released.
AuthorizationTaken ==
  /\ authorization \in {"granted", "refused"}
  /\ authorization' = "none"
  /\ LET available == IF authorization = "granted" THEN "ready" ELSE "unavailable" IN
     IF StillWanted
     THEN /\ availability' = available
          /\ current' = Claim(available, current)
          /\ tasks' = tasks (+) Spawned(None, IF Claims(available, current) THEN current.request ELSE None)
     ELSE UNCHANGED <<availability, current, tasks>>
  /\ UNCHANGED <<coordinator, generation, clicks, desktop>>

\* Task t becomes u, or ends.
Becomes(t, u) == tasks' = (tasks (-) SetToBag({t})) (+) (IF u = None THEN EmptyBag ELSE SetToBag({u}))

AfterCleanup(t) ==
  CASE t.last -> [t EXCEPT !.pc = "close"]
    [] ~t.last /\ t.request # None -> [t EXCEPT !.pc = "send"]
    [] OTHER -> None

CanRemove(t) == t.generation = generation /\ (availability # "stopped" \/ t.last)

Cleanup(t) ==
  /\ t.pc = "clean" /\ NativeFree
  /\ Becomes(t, IF CanRemove(t) THEN [t EXCEPT !.pc = "removing"] ELSE AfterCleanup(t))
  /\ UNCHANGED <<coordinator, service, clicks, desktop>>

\* A removal that fails is not tried again and counts as made.
Removed(t) ==
  /\ t.pc = "removing"
  /\ Becomes(t, AfterCleanup(t))
  /\ shown' = shown \ {t.old}
  /\ UNCHANGED <<coordinator, service, clicks, sent, closed>>

CanSend(t) ==
  /\ t.generation = generation /\ availability = "ready"
  /\ current # None /\ current.request = t.request /\ current.delivery = "attempting"

Send(t) ==
  /\ t.pc = "send" /\ NativeFree
  /\ Becomes(t, IF CanSend(t) THEN [t EXCEPT !.pc = "sending"] ELSE None)
  /\ UNCHANGED <<coordinator, service, clicks, desktop>>

Sent(t) ==
  /\ t.pc = "sending"
  /\ shown' = shown \cup {t.request}
  /\ sent' = [sent EXCEPT ![t.request] = @ + 1]
  /\ Becomes(t, [t EXCEPT !.pc = "record"])
  /\ UNCHANGED <<coordinator, service, clicks, closed>>

\* A failed call has the authorization looked up again.
SendFails(t) ==
  /\ t.pc = "sending"
  /\ Becomes(t, [t EXCEPT !.error = TRUE,
                          !.pc = IF t.generation = generation /\ availability = "ready" THEN "rechecking" ELSE "record"])
  /\ UNCHANGED <<coordinator, service, clicks, desktop>>

Rechecked(t, lost) ==
  /\ t.pc = "rechecking"
  /\ Becomes(t, [t EXCEPT !.pc = "record", !.lost = lost])
  /\ UNCHANGED <<coordinator, service, clicks, desktop>>

\* applyTransition, after nativeMu was released.
Record(t) ==
  /\ t.pc = "record"
  /\ Becomes(t, None)
  /\ IF t.generation # generation THEN UNCHANGED <<current, availability>>
     ELSE /\ current' = IF current # None /\ current.request = t.request /\ current.delivery = "attempting"
                        THEN [current EXCEPT !.delivery = IF t.error THEN "failed" ELSE "delivered"] ELSE current
          /\ availability' = IF t.lost /\ availability # "stopped" THEN "unavailable" ELSE availability
  /\ UNCHANGED <<coordinator, generation, authorization, clicks, desktop>>

\* The last native call of the shutdown.
Close(t) ==
  /\ t.pc = "close" /\ NativeFree
  /\ Becomes(t, None)
  /\ closed' = TRUE
  /\ UNCHANGED <<coordinator, service, clicks, shown, sent>>

-----------------------------------------------------------------------------
(* Responses.                                                               *)

\* handleResponse, up to the call of the App; a notification may answer late.
Click(r) ==
  /\ sent[r] > 0 /\ BagCardinality(clicks) < MaxClicks
  /\ availability # "stopped" /\ current # None /\ current.request = r /\ ~current.deciding
  /\ current' = [current EXCEPT !.deciding = TRUE]
  /\ clicks' = clicks (+) SetToBag({[request |-> r, generation |-> generation, answer |-> "none"]})
  /\ UNCHANGED <<coordinator, availability, generation, authorization, tasks, desktop>>

Answer(c, answer) == clicks' = (clicks (-) SetToBag({c})) (+) SetToBag({[c EXCEPT !.answer = answer]})

\* ResolveCommandExecution, ResolveTerminalNavigation; a command whose state could
\* not be saved is answered with an error and is over.
Resolve(c) ==
  /\ c.answer = "none" /\ c.request = pending
  /\ Publish(None)
  /\ \E answer \in {"ok", "failed"} : Answer(c, answer)
  /\ UNCHANGED <<requests, commands, echo, overtaken, availability, generation, authorization, desktop>>

\* The request is over already, or cannot be decided as it stands.
ResolveRefused(c) ==
  /\ c.answer = "none"
  /\ Answer(c, "failed")
  /\ UNCHANGED <<coordinator, service, tasks, desktop>>

Released == [current EXCEPT !.deciding = FALSE]

\* handleResponse, after the App answered.
Handled(c) ==
  /\ c.answer # "none"
  /\ clicks' = clicks (-) SetToBag({c})
  /\ IF c.generation = generation /\ current # None /\ current.request = c.request
     THEN IF c.answer = "ok"
          THEN current' = None /\ tasks' = tasks (+) Spawned(Invalidated, None)
          ELSE current' = Released /\ UNCHANGED tasks
     ELSE UNCHANGED <<current, tasks>>
  /\ UNCHANGED <<coordinator, availability, generation, authorization, desktop>>

-----------------------------------------------------------------------------
Overseer == Dismiss \/ Command \/ ServiceShutdown

Goroutine ==
  \E t \in BagToSet(tasks) :
    \/ Cleanup(t) \/ Removed(t) \/ Send(t) \/ Sent(t) \/ SendFails(t) \/ Record(t) \/ Close(t)
    \/ \E lost \in BOOLEAN : Rechecked(t, lost)

Authorizing == Authorize \/ AuthorizationTaken \/ \E granted \in BOOLEAN : Authorized(granted)

Echo == EchoAccepted \/ EchoObserved

Response == \E c \in BagToSet(clicks) : Resolve(c) \/ ResolveRefused(c) \/ Handled(c)

Next ==
  \/ ServiceStartup \/ Ask \/ Overseer \/ Goroutine \/ Authorizing \/ Echo \/ Response
  \/ \E r \in Request : Click(r)

Spec == Init /\ [][Next]_vars

\* Goroutines go on and native calls return.
FairSpec ==
  /\ Spec
  /\ WF_vars(Goroutine) /\ WF_vars(Authorizing) /\ WF_vars(Echo) /\ WF_vars(Response)

-----------------------------------------------------------------------------
(* Properties.                                                              *)

\* FR-008: a request is announced once, however often its state is published; unless
\* a command's late answer made the service forget it (observeCoordinationState).
AnnouncedOnce == overtaken \/ \A r \in Request : sent[r] <= 1

\* FR-001: a request that waits while notifications can be sent is announced, also
\* when it came before the authorization did (authorize, claimDeliveryLocked).
WaitingIsAnnounced ==
  \A r \in Request :
    (pending = r /\ availability = "ready") ~>
      \/ pending # r \/ sent[r] > 0 \/ overtaken
      \/ availability # "ready" \/ (current # None /\ current.delivery = "failed")

\* A request is announced, and only once.
RequestsAreAnnounced == []AnnouncedOnce /\ WaitingIsAnnounced

\* FR-011: what is on the desktop and no longer waits is taken down, also when the
\* request ended while its notification was being sent; unless the service stopped.
OrphansLeaveTheScreen ==
  \A r \in Request :
    (r \in shown /\ Invalidated # r) ~> (r \notin shown \/ Invalidated = r \/ availability = "stopped")

\* An answer to a notification is let go of, and the next one may be tried: no click
\* leaves the record waiting for a decision (handleResponse, releaseDecision).
ClicksAreAnswered ==
  \A r \in Request :
    (current # None /\ current.request = r /\ current.deciding) ~>
      (current = None \/ current.request # r \/ ~current.deciding)

\* Nothing hangs: notifications leave the screen and clicks are over in the end.
NotificationsSettle == OrphansLeaveTheScreen /\ ClicksAreAnswered

\* What comes late changes nothing: a stopped service stays stopped and holds no
\* request, whatever is published, authorized, sent or clicked later, and once the
\* native service is closed nothing appears on the desktop (authorize, applyTransition).
NothingAfterStop ==
  [][/\ availability = "stopped" => availability' = "stopped" /\ current' = None
     /\ closed => shown' \subseteq shown]_vars
===============================================================================
