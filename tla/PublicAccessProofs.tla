-------------------------- MODULE PublicAccessProofs --------------------------
(***************************************************************************)
(* The status of public access is true, there is one runtime at most and   *)
(* the manager knows it, and a cancelled start stays down: for any number  *)
(* of attempts, intents and settings.                                      *)
(*                                                                         *)
(* The invariant follows a runtime from hand to hand.  It belongs to the   *)
(* start that has not settled (Pending), then to the manager (Owned), and  *)
(* those who have captured it to close it hold nothing newer than what the *)
(* manager has (Taken).  While a Stop or a Reconfigure is open no start    *)
(* can succeed: the one it waits for was cancelled, and one that begins    *)
(* later, next to the Stop of the shutdown, finds its context cancelled    *)
(* before it has opened anything (Dud).                                    *)
(***************************************************************************)
EXTENDS PublicAccess, TLAPS

WindowPlaces ==
  {"idle", "start", "retained", "select", "discard", "stop", "joined", "settling", "closing",
   "stopped", "reconfigure", "provider", "password", "presence", "save", "commit"}
QuitPlaces == {"idle", "snapshot", "stop", "joined", "settling", "closing", "stopped", "over"}

Changing == {"provider", "password", "presence", "save", "commit"}
Open == {"settling", "closing", "stopped"} \cup Changing

W == call["window"]
Q == call["quit"]

\* Where the two callers are, and what that says of the open operations.
Places ==
  /\ W.at \in WindowPlaces /\ Q.at \in QuitPlaces
  /\ Q.at # "idle" => quitting
  /\ Q.kind # "reconfigure" /\ (Q.at \notin {"idle", "over"} => Q.kind = "stop")
  /\ W.at \in {"settling", "closing"} => W.kind \in {"stop", "reconfigure"}
  /\ W.at \in Changing \cup {"reconfigure"} => W.kind = "reconfigure"
  /\ W.at \in {"stop", "joined", "stopped"} => W.kind = "stop"
  /\ W.at = "idle" => W.kind # "reconfigure"
  /\ W.kind = "reconfigure" /\ W.at # "reconfigure" => reconfigure # 0

Running(g) == tunnel[g] \in {"open", "dead"}

\* What a start has made at each step of its goroutine, until somebody takes the result.
Made(g) ==
  /\ op[g].worker \in {"none", "ingress"} => gate[g].at = "none" /\ tunnel[g] = "none"
  /\ op[g].worker = "tunnel" => gate[g].at = "deny" /\ tunnel[g] = "none"
  /\ op[g].worker \in {"check", "activate"} =>
       gate[g].at = "deny" /\ Running(g) /\ gate[g].password = stored["password"]
  /\ op[g].worker = "sent" /\ ~op[g].settled =>
       IF op[g].failed THEN gate[g].at \in {"none", "deny"}
       ELSE gate[g].at = "admit" /\ Running(g) /\ gate[g].password = stored["password"]
  /\ op[g].worker = "taken" => gate[g].at # "admit"

\* A start that has not settled is the pending one and belongs to its caller or its disposer.
Pending ==
  /\ start \in {0, pendingStart}
  /\ pendingStart # 0 => endpoint = 0 /\ ingress = 0
  /\ \A g \in Attempt :
       /\ (op[g].worker # "none" /\ ~op[g].settled) <=> g = pendingStart
       /\ op[g].settled => op[g].worker \in {"sent", "taken"}
       /\ op[g].disposer # "none" => g = pendingStart /\ start = 0
       /\ op[g].disposer = "waiting" => op[g].worker # "taken"
       /\ op[g].disposer = "closing" => op[g].worker = "taken"
       /\ Made(g)
  /\ W.at \in {"select", "discard"} =>
       W.attempt # 0 /\ W.attempt = pendingStart /\ op[W.attempt].disposer = "none"
  /\ W.at = "select" => op[W.attempt].worker # "taken"
  /\ W.at = "discard" => op[W.attempt].worker = "taken"

\* What the manager holds, a caller has captured or a monitor watches has settled.
Owned ==
  /\ endpoint # 0 => op[endpoint].settled
  /\ ingress # 0 => op[ingress].settled
  /\ endpoint # 0 /\ ingress # 0 => endpoint = ingress
  /\ \A g \in Attempt :
       /\ Running(g) => endpoint = g \/ pendingStart = g
       /\ gate[g].at \in {"deny", "admit"} => ingress = g \/ pendingStart = g
       /\ gate[g].at = "admit" => gate[g].password = stored["password"]
       /\ monitor[g] # "none" => op[g].settled
  /\ \A p \in Caller :
       /\ call[p].endpoint # 0 => op[call[p].endpoint].settled
       /\ call[p].ingress # 0 => op[call[p].ingress].settled
       /\ call[p].pending # 0 => op[call[p].pending].worker # "none"

\* A start whose context was cancelled before it had opened anything.
Dud(g) ==
  /\ quitting /\ gate[g].at = "none" /\ tunnel[g] = "none"
  /\ op[g].worker \in {"ingress", "sent", "taken"} /\ (op[g].worker = "sent" => op[g].failed)

Quiet == pendingStart # 0 => Dud(pendingStart)

Holds(p) == endpoint \in {0, call[p].endpoint} /\ ingress \in {0, call[p].ingress}

\* What an open Stop or Reconfigure knows.
Taken(p) ==
  LET c == call[p] IN
  /\ c.at \in Open => Quiet \/ (pendingStart = c.pending /\ status.state # "starting")
  /\ c.at = "settling" => IF c.pending = 0 THEN Quiet /\ Holds(p) ELSE c.endpoint = 0 /\ c.ingress = 0
  /\ c.at = "closing" => Quiet /\ Holds(p)
  /\ c.at = "stopped" /\ ~c.failed =>
       /\ Quiet /\ Holds(p)
       /\ c.endpoint # 0 => ~Running(c.endpoint)
       /\ c.ingress # 0 => gate[c.ingress].at \notin {"deny", "admit"}
  /\ c.at \in Changing => Quiet /\ endpoint = 0 /\ ingress = 0

\* A status of "starting" is that of the start which the window waits for.
StartingIsOurs ==
  status.state = "starting" =>
    /\ W.at = "select" /\ start # 0 /\ start = W.attempt
    /\ status.generation = op[start].generation
    /\ prefs = op[start].revision /\ status.revision = prefs /\ ~op[start].cancelled

ReadyIsHeld ==
  status.state = "ready" =>
    /\ ReadyIsServed /\ pendingStart = 0
    /\ status.generation = op[endpoint].generation /\ monitor[endpoint] = "watching"
    /\ W.at \notin Open \cup {"retained"} /\ Q.at \notin Open

DisabledIsQuiet == status.state = "disabled" => Quiet /\ \A g \in Attempt : ~Live(g)

PresenceIsRead ==
  /\ presence \in Readings \/ W.at \in Changing \ {"provider"}
  /\ W.at \in {"save", "commit"} => W.seen \in Readings

\* A reconfiguration is still the current operation when it commits.
CommitIsCurrent ==
  LET settling == W.at \in {"settling", "closing"} /\ W.kind = "reconfigure" IN
  /\ settling \/ W.at \in Changing => status.generation = W.generation \/ (quitting /\ W.at \notin {"save", "commit"})
  /\ W.at \in {"save", "commit"} => Q.at \notin Open

Inv ==
  /\ TypeOK /\ Places /\ Pending /\ Owned
  /\ \A p \in Caller : Taken(p)
  /\ StartingIsOurs /\ ReadyIsHeld /\ DisabledIsQuiet /\ PresenceIsRead /\ CommitIsCurrent

-----------------------------------------------------------------------------

(* The records and functions the state is made of, one field at a time.    *)
LEMMA StatusSteps ==
  ASSUME status \in Status, prefs \in Nat
  PROVE  /\ Failed \in Status /\ [Failed EXCEPT !.generation = @ + 1] \in Status
         /\ [status EXCEPT !.state = "ready"] \in Status
         /\ status.generation \in Nat /\ status.generation + 1 \in Nat
         /\ \A s \in LifecycleState : Intent(s) \in Status
         /\ \A s \in LifecycleState, n \in Nat, r \in Nat :
              [state |-> s, generation |-> n, revision |-> r] \in Status
  <1>1. \A s \in Status : [s EXCEPT !.generation = @ + 1] \in Status
    BY DEF Status
  <1>2. Failed \in Status
    BY DEF Status, Failed, LifecycleState
  <1>3. [status EXCEPT !.state = "ready"] \in Status /\ status.generation \in Nat
    BY DEF Status, LifecycleState
  <1>4. \A s \in LifecycleState, n \in Nat, r \in Nat :
          [state |-> s, generation |-> n, revision |-> r] \in Status
    BY DEF Status
  <1>. QED  BY <1>1, <1>2, <1>3, <1>4 DEF Intent

LEMMA OperationSteps ==
  ASSUME NEW f \in [Attempt -> Operation], NEW g \in Attempt
  PROVE  /\ \A w \in {"ingress", "tunnel", "check", "activate", "sent", "taken"} :
              [f EXCEPT ![g].worker = w] \in [Attempt -> Operation]
         /\ \A b \in BOOLEAN : [f EXCEPT ![g].failed = b] \in [Attempt -> Operation]
         /\ \A d \in {"none", "waiting", "closing"} : [f EXCEPT ![g].disposer = d] \in [Attempt -> Operation]
         /\ [f EXCEPT ![g].cancelled = TRUE] \in [Attempt -> Operation]
         /\ [f EXCEPT ![g].settled = TRUE] \in [Attempt -> Operation]
  <1>1. ASSUME NEW o \in Operation
        PROVE  /\ \A w \in {"ingress", "tunnel", "check", "activate", "sent", "taken"} :
                    [o EXCEPT !.worker = w] \in Operation
               /\ \A b \in BOOLEAN : [o EXCEPT !.failed = b] \in Operation
               /\ \A d \in {"none", "waiting", "closing"} : [o EXCEPT !.disposer = d] \in Operation
               /\ [o EXCEPT !.cancelled = TRUE] \in Operation
               /\ [o EXCEPT !.settled = TRUE] \in Operation
    BY DEF Operation
  <1>. QED  BY <1>1

LEMMA NewOperation ==
  ASSUME op \in [Attempt -> Operation], NEW g \in Attempt, NEW n \in Nat, NEW r \in Nat
  PROVE  [op EXCEPT ![g] = [NoOperation EXCEPT !.generation = n, !.revision = r, !.worker = "ingress"]]
           \in [Attempt -> Operation]
  BY DEF Operation, NoOperation

LEMMA GateSteps ==
  ASSUME NEW f \in [Attempt -> Gate], NEW g \in Attempt
  PROVE  /\ \A x \in {"deny", "admit", "closed", "stuck"} : [f EXCEPT ![g].at = x] \in [Attempt -> Gate]
         /\ [f EXCEPT ![g].at = IF @ = "admit" THEN "deny" ELSE @] \in [Attempt -> Gate]
         /\ \A n \in Nat : [f EXCEPT ![g].password = n] \in [Attempt -> Gate]
  BY DEF Gate

LEMMA CallSteps ==
  ASSUME NEW f \in [Caller -> Call], NEW p \in Caller
  PROVE  /\ \A c \in Call : [f EXCEPT ![p] = c] \in [Caller -> Call]
         /\ \A x \in Place : [f EXCEPT ![p].at = x] \in [Caller -> Call]
         /\ \A x \in Attempt \cup {0} :
              /\ [f EXCEPT ![p].attempt = x] \in [Caller -> Call]
              /\ [f EXCEPT ![p].endpoint = x] \in [Caller -> Call]
              /\ [f EXCEPT ![p].ingress = x] \in [Caller -> Call]
              /\ [f EXCEPT ![p].pending = x] \in [Caller -> Call]
         /\ \A x \in Nat :
              /\ [f EXCEPT ![p].revision = x] \in [Caller -> Call]
              /\ [f EXCEPT ![p].generation = x] \in [Caller -> Call]
         /\ \A x \in BOOLEAN :
              /\ [f EXCEPT ![p].failed = x] \in [Caller -> Call]
              /\ [f EXCEPT ![p].active = x] \in [Caller -> Call]
         /\ \A x \in {"start", "stop", "reconfigure"} : [f EXCEPT ![p].kind = x] \in [Caller -> Call]
         /\ \A x \in [Secret -> {"absent", "present", "unknown"}] :
              [f EXCEPT ![p].seen = x] \in [Caller -> Call]
  <1>1. ASSUME NEW c \in Call
        PROVE  /\ \A x \in Place : [c EXCEPT !.at = x] \in Call
               /\ \A x \in Attempt \cup {0} :
                    /\ [c EXCEPT !.attempt = x] \in Call
                    /\ [c EXCEPT !.endpoint = x] \in Call
                    /\ [c EXCEPT !.ingress = x] \in Call
                    /\ [c EXCEPT !.pending = x] \in Call
    BY DEF Call
  <1>2. ASSUME NEW c \in Call
        PROVE  /\ \A x \in Nat :
                    /\ [c EXCEPT !.revision = x] \in Call
                    /\ [c EXCEPT !.generation = x] \in Call
               /\ \A x \in BOOLEAN :
                    /\ [c EXCEPT !.failed = x] \in Call
                    /\ [c EXCEPT !.active = x] \in Call
    BY DEF Call
  <1>3. ASSUME NEW c \in Call
        PROVE  /\ \A x \in {"start", "stop", "reconfigure"} : [c EXCEPT !.kind = x] \in Call
               /\ \A x \in [Secret -> {"absent", "present", "unknown"}] : [c EXCEPT !.seen = x] \in Call
    BY DEF Call
  <1>. QED  BY <1>1, <1>2, <1>3

LEMMA Answers ==
  /\ Idle \in Call
  /\ \A p \in Caller, ok \in BOOLEAN : Answered(p, ok) \in Call
  BY DEF Idle, Answered, Call, Place, Nothing, Unseen, Change

LEMMA DenyHeldLemma ==
  ASSUME gate \in [Attempt -> Gate], ingress \in Attempt \cup {0}
  PROVE  /\ DenyHeld \in [Attempt -> Gate]
         /\ \A g \in Attempt :
              /\ DenyHeld[g].password = gate[g].password
              /\ DenyHeld[g].at = IF g = ingress /\ gate[g].at = "admit" THEN "deny" ELSE gate[g].at
  BY DEF DenyHeld, Attempt, Gate

LEMMA CloseRuntimeLemma ==
  ASSUME gate \in [Attempt -> Gate], tunnel \in [Attempt -> {"none", "open", "dead", "closed"}],
         NEW e \in Attempt \cup {0}, NEW i \in Attempt \cup {0}, NEW k \in BOOLEAN, CloseRuntime(e, i, k)
  PROVE  /\ tunnel' \in [Attempt -> {"none", "open", "dead", "closed"}]
         /\ gate' \in [Attempt -> Gate]
         /\ \A g \in Attempt :
              /\ tunnel'[g] \in {tunnel[g], "closed"} /\ (tunnel[g] = "none" => tunnel'[g] = "none")
              /\ g # e => tunnel'[g] = tunnel[g]
              /\ gate'[g].password = gate[g].password
              /\ gate'[g].at = gate[g].at \/ (g = i /\ gate[g].at \in {"deny", "admit"} /\ gate'[g].at \in {"closed", "stuck"})
              /\ g = i => gate'[g].at \notin {"deny", "admit"}
              /\ k /\ g = e => tunnel'[g] \in {"none", "closed"}
  <1>1. PICK t \in {"closed"} \cup (IF e # 0 /\ ~k THEN {tunnel[e]} ELSE {}) :
         tunnel' = [g \in Attempt |-> IF g = e /\ tunnel[g] # "none" THEN t ELSE tunnel[g]]
    BY DEF CloseRuntime
  <1>2. PICK at \in {"closed"} \cup (IF k THEN {} ELSE {"stuck"}) :
         gate' = [g \in Attempt |->
                  IF g = i /\ gate[g].at \in {"deny", "admit"} THEN [gate[g] EXCEPT !.at = at] ELSE gate[g]]
    BY DEF CloseRuntime
  <1>3. t \in {"closed"} \/ (t = tunnel[e] /\ e # 0 /\ ~k)
    BY <1>1
  <1>4. gate' \in [Attempt -> Gate]
    BY <1>2 DEF Gate
  <1>5. \A g \in Attempt :
              /\ gate'[g].password = gate[g].password
              /\ gate'[g].at = gate[g].at \/ (g = i /\ gate[g].at \in {"deny", "admit"} /\ gate'[g].at \in {"closed", "stuck"})
              /\ g = i => gate'[g].at \notin {"deny", "admit"}
    BY <1>2 DEF Gate
  <1>6. tunnel' \in [Attempt -> {"none", "open", "dead", "closed"}]
    BY <1>1, <1>3 DEF Attempt
  <1>7. \A g \in Attempt :
              /\ tunnel'[g] \in {tunnel[g], "closed"} /\ (tunnel[g] = "none" => tunnel'[g] = "none")
              /\ g # e => tunnel'[g] = tunnel[g]
              /\ k /\ g = e => tunnel'[g] \in {"none", "closed"}
    BY <1>1, <1>3 DEF Attempt
  <1>. QED BY <1>4, <1>5, <1>6, <1>7

LEMMA AnswerSteps ==
  ASSUME call \in [Caller -> Call], NEW p \in Caller, NEW ok \in BOOLEAN, Answer(p, ok)
  PROVE  /\ call' \in [Caller -> Call]
         /\ call'[p].at = IF p = "quit" /\ ok THEN "over" ELSE "idle"
         /\ call'[p].kind = "none" /\ call'[p].attempt = 0
         /\ call'[p].endpoint = 0 /\ call'[p].ingress = 0 /\ call'[p].pending = 0
         /\ \A q \in Caller \ {p} : call'[q] = call[q]
         /\ reconfigure' = IF call[p].kind = "reconfigure" THEN 0 ELSE reconfigure
  <1>1. call' = [call EXCEPT ![p] = Answered(p, ok)]
    BY DEF Answer
  <1>2. Answered(p, ok) \in Call
    BY Answers
  <1>3. /\ Answered(p, ok).at = IF p = "quit" /\ ok THEN "over" ELSE "idle"
        /\ Answered(p, ok).kind = "none" /\ Answered(p, ok).attempt = 0
        /\ Answered(p, ok).endpoint = 0 /\ Answered(p, ok).ingress = 0 /\ Answered(p, ok).pending = 0
    BY DEF Answered, Idle
  <1>. QED  BY <1>1, <1>2, <1>3 DEF Answer

LEMMA MovesSteps ==
  ASSUME call \in [Caller -> Call], NEW p \in Caller, NEW place \in Place, Moves(p, place)
  PROVE  /\ call' \in [Caller -> Call]
         /\ call'[p].at = place /\ call'[p].kind = call[p].kind
         /\ call'[p].attempt = call[p].attempt /\ call'[p].generation = call[p].generation
         /\ call'[p].endpoint = call[p].endpoint /\ call'[p].ingress = call[p].ingress
         /\ call'[p].pending = call[p].pending /\ call'[p].failed = call[p].failed
         /\ call'[p].seen = call[p].seen
         /\ \A q \in Caller \ {p} : call'[q] = call[q]
  <1>1. call' = [call EXCEPT ![p] = [call[p] EXCEPT !.at = place]]
    BY DEF Moves
  <1>2. ASSUME NEW c \in Call
        PROVE  LET d == [c EXCEPT !.at = place] IN
               /\ d \in Call /\ d.at = place /\ d.kind = c.kind
               /\ d.attempt = c.attempt /\ d.generation = c.generation
               /\ d.endpoint = c.endpoint /\ d.ingress = c.ingress
               /\ d.pending = c.pending /\ d.failed = c.failed /\ d.seen = c.seen
    BY DEF Call
  <1>. QED  BY <1>1, <1>2

LEMMA CallFields ==
  ASSUME NEW c \in Call
  PROVE  /\ c.at \in Place /\ c.kind \in {"none", "start", "stop", "reconfigure"}
         /\ c.attempt \in Attempt \cup {0} /\ c.pending \in Attempt \cup {0}
         /\ c.endpoint \in Attempt \cup {0} /\ c.ingress \in Attempt \cup {0}
         /\ c.generation \in Nat /\ c.revision \in Nat /\ c.failed \in BOOLEAN
         /\ c.change \in [Secret -> Change] /\ c.seen \in [Secret -> {"absent", "present", "unknown"}]
  BY DEF Call

-----------------------------------------------------------------------------
(* A step that leaves the starts and what they have made alone.            *)
LEMMA RuntimesKept ==
  ASSUME Inv, UNCHANGED <<endpoint, ingress, start, pendingStart, stored, op, gate, tunnel, monitor>>,
         call'["window"].at \in {"select", "discard"} =>
           call'["window"].at = W.at /\ call'["window"].attempt = W.attempt,
         \A p \in Caller :
           /\ call'[p].endpoint \in {0, endpoint, call[p].endpoint}
           /\ call'[p].ingress \in {0, ingress, call[p].ingress}
           /\ call'[p].pending \in {0, pendingStart, call[p].pending}
  PROVE  Pending' /\ Owned'
  <1>1. \A g \in Attempt : Made(g)' = Made(g) /\ Running(g)' = Running(g)
    BY DEF Made, Running
  <1>2. Pending'
    BY <1>1 DEF Inv, Pending, W
  <1>3. Owned'
    <2>1. pendingStart # 0 => op[pendingStart].worker # "none"
      BY DEF Inv, Pending, TypeOK
    <2>. QED  BY <1>1, <2>1 DEF Inv, Owned
  <1>. QED  BY <1>2, <1>3

(* A caller goes where it waits for nobody, with or without having found    *)
(* that something failed.                                                  *)
LEMMA GoingOn ==
  ASSUME Inv, Places', NEW p \in Caller, call' \in [Caller -> Call],
         call[p].at # "select", call'[p].at \notin Open \cup {"select", "discard", "retained"},
         call'[p].endpoint \in {0, call[p].endpoint}, call'[p].ingress \in {0, call[p].ingress},
         call'[p].pending \in {0, call[p].pending},
         \A q \in Caller \ {p} : call'[q] = call[q],
         UNCHANGED <<prefs, endpoint, ingress, start, pendingStart, cleanup, stop,
                     stored, op, gate, tunnel, monitor>>,
         disk' \in Nat, reconfigure' \in Nat, quitting' \in {quitting, TRUE},
         status' = status \/ (p = "window" /\ status' \in Status /\ status'.state = "failed"),
         presence' = presence \/ presence' \in Readings,
         p = "window" /\ call[p].at \in Changing \ {"provider"} => presence' \in Readings
  PROVE  Inv'
  <1>b. p \in {"window", "quit"} /\ {"window", "quit"} = Caller
    BY DEF Caller
  <1>r. Readings' = Readings
    BY DEF Readings
  <1>1. TypeOK'
    <2>1. presence' \in [Secret -> {"absent", "present", "unknown"}]
      BY DEF Inv, TypeOK, Readings
    <2>2. status' \in Status /\ quitting' \in BOOLEAN
      BY DEF Inv, TypeOK
    <2>. QED  BY <2>1, <2>2 DEF Inv, TypeOK
  <1>2. Pending' /\ Owned'
    BY <1>b, RuntimesKept DEF W
  <1>3. ASSUME NEW q \in Caller
        PROVE  Taken(q)'
    <2>1. CASE q = p
      BY <2>1 DEF Inv, Taken, Open, Changing
    <2>2. CASE q # p
      <3>1. Taken(q)
        BY DEF Inv
      <3>. QED  BY <2>2, <3>1 DEF Inv, Taken, Quiet, Dud, Holds, Running
    <2>. QED  BY <2>1, <2>2
  <1>4. StartingIsOurs'
    BY <1>b DEF Inv, StartingIsOurs, W
  <1>5. ReadyIsHeld'
    BY <1>b DEF Inv, ReadyIsHeld, ReadyIsServed, W, Q, Open, Changing
  <1>6. DisabledIsQuiet'
    BY DEF Inv, DisabledIsQuiet, Quiet, Dud, Live
  <1>7. PresenceIsRead'
    BY <1>b, <1>r DEF Inv, PresenceIsRead, W, Open, Changing
  <1>8. CommitIsCurrent'
    BY <1>b DEF Inv, CommitIsCurrent, W, Q, Open, Changing
  <1>. QED  BY <1>1, <1>2, <1>3, <1>4, <1>5, <1>6, <1>7, <1>8 DEF Inv

(* An answer.                                                              *)
LEMMA Answering ==
  ASSUME Inv, NEW p \in Caller, NEW ok \in BOOLEAN, Answer(p, ok),
         call[p].at \notin {"idle", "select", "discard"},
         UNCHANGED <<prefs, endpoint, ingress, start, pendingStart, cleanup, stop,
                     stored, op, gate, tunnel, monitor, quitting>>,
         disk' \in Nat,
         status' = status \/ (p = "window" /\ status' \in Status /\ status'.state = "failed"),
         presence' = presence \/ presence' \in Readings,
         p = "window" /\ call[p].at \in Changing \ {"provider"} => presence' \in Readings
  PROVE  Inv'
  <1>a. /\ call' \in [Caller -> Call]
        /\ call'[p].at = IF p = "quit" /\ ok THEN "over" ELSE "idle"
        /\ call'[p].kind = "none" /\ call'[p].attempt = 0
        /\ call'[p].endpoint = 0 /\ call'[p].ingress = 0 /\ call'[p].pending = 0
        /\ \A q \in Caller \ {p} : call'[q] = call[q]
        /\ reconfigure' = IF call[p].kind = "reconfigure" THEN 0 ELSE reconfigure
    BY AnswerSteps DEF Inv, TypeOK
  <1>b. p \in {"window", "quit"} /\ {"window", "quit"} = Caller
    BY DEF Caller
  <1>1. Places'
    <2>1. CASE p = "window"
      <3>1. call'["quit"] = call["quit"] /\ call'["window"].at = "idle"
        BY <1>a, <1>b, <2>1
      <3>. QED  BY <1>a, <2>1, <3>1 DEF Inv, Places, W, Q, WindowPlaces, Changing
    <2>2. CASE p = "quit"
      <3>1. call'["window"] = call["window"] /\ call'["quit"].at \in {"idle", "over"}
        BY <1>a, <1>b, <2>2
      <3>. QED  BY <1>a, <2>2, <3>1 DEF Inv, Places, W, Q, QuitPlaces, Changing
    <2>. QED  BY <1>b, <2>1, <2>2
  <1>2. call'[p].at \notin Open \cup {"select", "discard", "retained"}
    BY <1>a DEF Open, Changing
  <1>3. reconfigure' \in Nat
    BY <1>a DEF Inv, TypeOK
  <1>. QED  BY <1>a, <1>1, <1>2, <1>3, GoingOn

-----------------------------------------------------------------------------
(* The answers.                                                            *)
LEMMA AnswersKeep ==
  ASSUME Inv, NEW p \in Caller,
         \/ StartGivesUp("window") \/ StartAnswers("window") \/ StartWithoutSecrets("window")
         \/ StopGivesUp(p) \/ (StopConflicts(p) /\ p = "window") \/ StopFindsNothing(p)
         \/ ReconfigureExpires("window") \/ (\E s \in Secret : SecretFails("window", s))
         \/ SaveFails("window")
  PROVE  Inv'
  <1>w. "window" \in Caller /\ TRUE \in BOOLEAN /\ FALSE \in BOOLEAN
    BY DEF Caller
  <1>d. disk \in Nat /\ prefs + 1 \in Nat /\ status \in Status /\ prefs \in Nat
    BY DEF Inv, TypeOK
  <1>f. /\ Failed \in Status /\ Failed.state = "failed"
        /\ [Failed EXCEPT !.generation = @ + 1] \in Status
        /\ [Failed EXCEPT !.generation = @ + 1].state = "failed"
    <2>1. Failed \in Status /\ [Failed EXCEPT !.generation = @ + 1] \in Status
      BY <1>d, StatusSteps
    <2>2. Failed.state = "failed"
      BY <1>d DEF Failed, Status
    <2>. QED  BY <2>1, <2>2 DEF Status
  <1>e. FailsReconfigure("window") => status' \in Status /\ status'.state = "failed" /\ Answer("window", FALSE)
    <2>1. call["window"].generation \in Nat
      BY <1>w, CallFields DEF Inv, TypeOK
    <2>2. [state |-> "failed", generation |-> call["window"].generation, revision |-> prefs] \in Status
      BY <1>d, <2>1, StatusSteps DEF LifecycleState
    <2>3. [state |-> "failed", generation |-> call["window"].generation, revision |-> prefs].state = "failed"
      OBVIOUS
    <2>. QED  BY <2>2, <2>3, Zenon DEF FailsReconfigure
  <1>1. CASE StartGivesUp("window")
    BY <1>1, <1>w, <1>d, Answering DEF StartGivesUp, outside, Changing
  <1>2. CASE StartAnswers("window")
    <2>1. \E ok \in BOOLEAN : Answer("window", ok)
      BY <1>2 DEF StartAnswers
    <2>. QED  BY <1>2, <1>w, <1>d, <2>1, Answering DEF StartAnswers, outside, Changing
  <1>3. CASE StartWithoutSecrets("window")
    BY <1>3, <1>w, <1>d, <1>f, Answering DEF StartWithoutSecrets, Starting, outside, Changing
  <1>4. CASE StopGivesUp(p)
    BY <1>4, <1>w, <1>d, Answering DEF StopGivesUp, outside, Changing
  <1>5. CASE StopConflicts(p) /\ p = "window"
    BY <1>5, <1>w, <1>d, Answering DEF StopConflicts, Stopping, outside, Changing
  <1>6. CASE StopFindsNothing(p)
    BY <1>6, <1>w, <1>d, Answering DEF StopFindsNothing, Stopping, outside, Changing
  <1>7. CASE ReconfigureExpires("window")
    BY <1>7, <1>w, <1>d, <1>e, Answering DEF ReconfigureExpires, outside, Changing
  <1>8. CASE \E s \in Secret : SecretFails("window", s)
    BY <1>8, <1>w, <1>d, <1>e, Answering DEF SecretFails, outside, Secret
  <1>9. CASE SaveFails("window")
    <2>1. presence' \in Readings /\ disk' \in Nat
      BY <1>9, <1>d DEF SaveFails, Inv, PresenceIsRead, W
    <2>. QED  BY <1>9, <1>w, <1>e, <2>1, Answering DEF SaveFails
  <1>. QED  BY <1>1, <1>2, <1>3, <1>4, <1>5, <1>6, <1>7, <1>8, <1>9

-----------------------------------------------------------------------------
(* The calls, and what only moves a caller.                                *)
LEMMA CallsKeep ==
  ASSUME Inv, NEW p \in Caller,
         \/ \E kind \in {"start", "stop", "reconfigure"} : WindowCalls(kind)
         \/ Quit \/ ShutdownReads
         \/ (StopConflicts(p) /\ p = "quit") \/ StopJoins(p)
         \/ ReconfigureGivesUp("window") \/ ReconfigureConflicts("window")
  PROVE  Inv'
  <1>w. Caller = {"window", "quit"}
    BY DEF Caller
  <1>d. disk \in Nat /\ reconfigure \in Nat /\ prefs \in Nat /\ call \in [Caller -> Call]
    BY DEF Inv, TypeOK
  <1>i. /\ Idle \in Call /\ Idle.at = "idle" /\ Idle.kind = "none"
        /\ Idle.endpoint = 0 /\ Idle.ingress = 0 /\ Idle.pending = 0
    BY Answers DEF Idle
  <1>1. CASE \E kind \in {"start", "stop", "reconfigure"} : WindowCalls(kind)
    <2>1. PICK kind \in {"start", "stop", "reconfigure"} : WindowCalls(kind)
      BY <1>1
    <2>2. PICK r \in 0..prefs, change \in IF kind = "reconfigure" THEN Mutation ELSE {Nothing} :
            call' = [call EXCEPT !["window"] =
                       [Idle EXCEPT !.kind = kind, !.at = kind, !.revision = r, !.change = change]]
      BY <2>1 DEF WindowCalls
    <2>. DEFINE c == [Idle EXCEPT !.kind = kind, !.at = kind, !.revision = r, !.change = change]
    <2>3. change \in [Secret -> Change] /\ r \in Nat
      BY <1>d, <2>2, BoundsAssumption DEF Nothing, Change
    <2>4. c \in Call /\ c.kind = kind /\ c.at = kind /\ c.endpoint = 0 /\ c.ingress = 0 /\ c.pending = 0
      BY <2>3 DEF Idle, Call, Place, Unseen
    <2>5. call' \in [Caller -> Call] /\ call'["window"] = c /\ call'["quit"] = call["quit"]
      BY <1>w, <1>d, <2>2, <2>4
    <2>. HIDE DEF c
    <2>6. W.at = "idle" /\ UNCHANGED <<manager, outside, op, monitor, quitting>>
      BY <2>1 DEF WindowCalls, W
    <2>7. Places'
      BY <2>4, <2>5, <2>6 DEF Inv, Places, W, Q, WindowPlaces, Changing, manager
    <2>. QED
      BY <1>w, <1>d, <2>4, <2>5, <2>6, <2>7, GoingOn DEF W, Open, Changing, manager, outside
  <1>2. CASE Quit
    <2>1. /\ call' \in [Caller -> Call] /\ call'["window"] = call["window"]
          /\ call'["quit"].at = "snapshot" /\ call'["quit"].kind = "stop"
          /\ call'["quit"].endpoint = call["quit"].endpoint
          /\ call'["quit"].ingress = call["quit"].ingress /\ call'["quit"].pending = call["quit"].pending
      <3>1. call' = [call EXCEPT !["quit"] = [call["quit"] EXCEPT !.kind = "stop", !.at = "snapshot"]]
        BY <1>2 DEF Quit
      <3>2. ASSUME NEW c \in Call
            PROVE  LET d == [c EXCEPT !.kind = "stop", !.at = "snapshot"] IN
                   /\ d \in Call /\ d.at = "snapshot" /\ d.kind = "stop"
                   /\ d.endpoint = c.endpoint /\ d.ingress = c.ingress /\ d.pending = c.pending
        BY DEF Call, Place
      <3>. QED  BY <1>w, <1>d, <3>1, <3>2
    <2>2. quitting' = TRUE /\ Q.at = "idle" /\ UNCHANGED <<manager, outside, op, monitor>>
      BY <1>2 DEF Quit, Q
    <2>3. Places'
      BY <2>1, <2>2 DEF Inv, Places, W, Q, QuitPlaces, Changing, manager
    <2>. QED
      BY <1>w, <1>d, <2>1, <2>2, <2>3, GoingOn DEF Q, Open, Changing, manager, outside
  <1>3. CASE ShutdownReads
    <2>1. /\ call' \in [Caller -> Call] /\ call'["window"] = call["window"]
          /\ call'["quit"].at = "stop" /\ call'["quit"].kind = call["quit"].kind
          /\ call'["quit"].endpoint = call["quit"].endpoint
          /\ call'["quit"].ingress = call["quit"].ingress /\ call'["quit"].pending = call["quit"].pending
      <3>1. call' = [call EXCEPT !["quit"] = [call["quit"] EXCEPT !.at = "stop", !.revision = prefs]]
        BY <1>3 DEF ShutdownReads
      <3>2. ASSUME NEW c \in Call
            PROVE  LET d == [c EXCEPT !.at = "stop", !.revision = prefs] IN
                   /\ d \in Call /\ d.at = "stop" /\ d.kind = c.kind
                   /\ d.endpoint = c.endpoint /\ d.ingress = c.ingress /\ d.pending = c.pending
        BY <1>d DEF Call, Place
      <3>. QED  BY <1>w, <1>d, <3>1, <3>2
    <2>2. Q.at = "snapshot" /\ UNCHANGED <<manager, outside, op, monitor, quitting>>
      BY <1>3 DEF ShutdownReads, Q
    <2>3. Places'
      BY <2>1, <2>2 DEF Inv, Places, W, Q, QuitPlaces, Changing, manager
    <2>. QED
      BY <1>w, <1>d, <2>1, <2>2, <2>3, GoingOn DEF Q, Open, Changing, manager, outside
  <1>4. CASE StopConflicts(p) /\ p = "quit"
    <2>1. /\ Moves(p, "snapshot") /\ call[p].at = "stop"
          /\ UNCHANGED <<manager, outside, op, monitor, quitting>>
      BY <1>4 DEF StopConflicts, Stopping, manager
    <2>2. /\ call' \in [Caller -> Call] /\ call'[p].at = "snapshot" /\ call'[p].kind = call[p].kind
          /\ call'[p].endpoint = call[p].endpoint /\ call'[p].ingress = call[p].ingress
          /\ call'[p].pending = call[p].pending /\ \A q \in Caller \ {p} : call'[q] = call[q]
      BY <1>d, <2>1, MovesSteps DEF Place
    <2>3. Places'
      BY <1>4, <1>w, <2>1, <2>2 DEF Inv, Places, W, Q, QuitPlaces, Changing, manager
    <2>. QED
      BY <1>d, <2>1, <2>2, <2>3, GoingOn DEF Open, Changing, manager, outside
  <1>5. CASE StopJoins(p)
    <2>1. /\ Moves(p, "joined") /\ call[p].at = "stop"
          /\ UNCHANGED <<manager, outside, op, monitor, quitting>>
      BY <1>5 DEF StopJoins, Stopping
    <2>2. /\ call' \in [Caller -> Call] /\ call'[p].at = "joined" /\ call'[p].kind = call[p].kind
          /\ call'[p].endpoint = call[p].endpoint /\ call'[p].ingress = call[p].ingress
          /\ call'[p].pending = call[p].pending /\ \A q \in Caller \ {p} : call'[q] = call[q]
      BY <1>d, <2>1, MovesSteps DEF Place
    <2>3. Places'
      <3>1. CASE p = "window"
        BY <3>1, <1>w, <2>1, <2>2 DEF Inv, Places, W, Q, WindowPlaces, Changing, manager
      <3>2. CASE p = "quit"
        BY <3>2, <1>w, <2>1, <2>2 DEF Inv, Places, W, Q, QuitPlaces, Changing, manager
      <3>. QED  BY <1>w, <3>1, <3>2
    <2>. QED
      BY <1>d, <2>1, <2>2, <2>3, GoingOn DEF Open, Changing, manager, outside
  <1>6. CASE ReconfigureGivesUp("window") \/ ReconfigureConflicts("window")
    <2>1. /\ call["window"].at = "reconfigure" /\ call' = [call EXCEPT !["window"] = Idle]
          /\ UNCHANGED <<manager, outside, op, monitor, quitting>>
      BY <1>6 DEF ReconfigureGivesUp, ReconfigureConflicts
    <2>2. call' \in [Caller -> Call] /\ call'["window"] = Idle /\ call'["quit"] = call["quit"]
      BY <1>w, <1>d, <1>i, <2>1
    <2>3. Places'
      BY <1>i, <2>1, <2>2 DEF Inv, Places, W, Q, WindowPlaces, Changing, manager
    <2>. QED
      BY <1>w, <1>d, <1>i, <2>1, <2>2, <2>3, GoingOn DEF Open, Changing, manager, outside
  <1>. QED  BY <1>1, <1>2, <1>3, <1>4, <1>5, <1>6

-----------------------------------------------------------------------------
(* The goroutine of a start.  It belongs to the start that has not settled. *)
LEMMA Unsettled ==
  ASSUME Inv, NEW g \in Attempt, op[g].worker \notin {"none", "sent", "taken"}
  PROVE  g = pendingStart /\ ~op[g].settled /\ endpoint = 0 /\ ingress = 0
  BY DEF Inv, Pending, Attempt

LEMMA Working ==
  ASSUME Inv, NEW g \in Attempt, op[g].worker \notin {"none", "sent", "taken"},
         UNCHANGED <<manager, disk, stored, monitor, call, quitting>>,
         op' \in [Attempt -> Operation], gate' \in [Attempt -> Gate],
         tunnel' \in [Attempt -> {"none", "open", "dead", "closed"}],
         \A h \in Attempt \ {g} : op'[h] = op[h] /\ gate'[h] = gate[h] /\ tunnel'[h] = tunnel[h],
         op'[g].worker \in {"tunnel", "check", "activate", "sent"},
         op'[g].settled = op[g].settled, op'[g].cancelled = op[g].cancelled,
         op'[g].disposer = op[g].disposer,
         op'[g].generation = op[g].generation, op'[g].revision = op[g].revision,
         Made(g)', Dud(g) => Dud(g)', gate'[g].at = "admit" => gate'[g].password = stored["password"]
  PROVE  Inv'
  <1>g. g = pendingStart /\ ~op[g].settled /\ endpoint = 0 /\ ingress = 0 /\ g # 0
    BY Unsettled DEF Attempt
  <1>h. \A h \in Attempt \ {g} : Made(h)' = Made(h) /\ Running(h)' = Running(h) /\ Live(h)' = Live(h)
    BY DEF Made, Running, Live
  <1>q. Quiet => Quiet'
    BY <1>g DEF Quiet, manager
  <1>1. TypeOK'
    BY DEF Inv, TypeOK, manager
  <1>2. Places'
    BY DEF Inv, Places, W, Q, manager
  <1>3. Pending'
    BY <1>g, <1>h DEF Inv, Pending, TypeOK, W, manager
  <1>4. Owned'
    <2>1. \A h \in Attempt : op'[h].settled = op[h].settled /\ (op[h].worker # "none" => op'[h].worker # "none")
      OBVIOUS
    <2>2. \A h \in Attempt :
            /\ Running(h)' => endpoint' = h \/ pendingStart' = h
            /\ gate'[h].at \in {"deny", "admit"} => ingress' = h \/ pendingStart' = h
            /\ gate'[h].at = "admit" => gate'[h].password = stored'["password"]
      BY <1>g, <1>h DEF Inv, Owned, manager
    <2>3. \A p \in Caller :
            /\ call[p].endpoint \in Attempt \cup {0} /\ call[p].ingress \in Attempt \cup {0}
            /\ call[p].pending \in Attempt \cup {0}
      BY CallFields DEF Inv, TypeOK
    <2>4. \A p \in Caller :
            /\ call'[p].endpoint # 0 => op'[call'[p].endpoint].settled
            /\ call'[p].ingress # 0 => op'[call'[p].ingress].settled
            /\ call'[p].pending # 0 => op'[call'[p].pending].worker # "none"
      BY <2>1, <2>3 DEF Inv, Owned
    <2>5. \A h \in Attempt : monitor'[h] # "none" => op'[h].settled
      BY <2>1 DEF Inv, Owned
    <2>. QED  BY <1>g, <2>2, <2>4, <2>5 DEF Owned, manager
  <1>5. ASSUME NEW p \in Caller
        PROVE  Taken(p)'
    <2>1. Taken(p)
      BY DEF Inv
    <2>2. /\ call[p].endpoint # 0 => call[p].endpoint \in Attempt \ {g}
          /\ call[p].ingress # 0 => call[p].ingress \in Attempt \ {g}
      BY <1>g, CallFields DEF Inv, TypeOK, Owned
    <2>3. /\ call[p].endpoint # 0 => Running(call[p].endpoint)' = Running(call[p].endpoint)
          /\ call[p].ingress # 0 => gate'[call[p].ingress].at = gate[call[p].ingress].at
      BY <1>h, <2>2
    <2>. QED  BY <1>q, <2>1, <2>3 DEF Taken, Holds, manager
  <1>6. StartingIsOurs'
    BY <1>g DEF Inv, StartingIsOurs, Pending, W, manager
  <1>7. ReadyIsHeld'
    BY <1>g DEF Inv, ReadyIsHeld, manager
  <1>8. DisabledIsQuiet'
    BY <1>g, <1>h, <1>q DEF Inv, DisabledIsQuiet, Quiet, Dud, Live, manager
  <1>9. PresenceIsRead'
    BY DEF Inv, PresenceIsRead, Readings, W, manager
  <1>10. CommitIsCurrent'
    BY DEF Inv, CommitIsCurrent, W, Q, manager
  <1>. QED  BY <1>1, <1>2, <1>3, <1>4, <1>5, <1>6, <1>7, <1>8, <1>9, <1>10 DEF Inv

LEMMA WorkerFields ==
  ASSUME op \in [Attempt -> Operation], NEW g \in Attempt,
         NEW w \in {"tunnel", "check", "activate", "sent"}, NEW f \in BOOLEAN,
         op' = [op EXCEPT ![g].worker = w] \/ op' = [op EXCEPT ![g].worker = w, ![g].failed = f]
  PROVE  /\ op' \in [Attempt -> Operation] /\ op'[g].worker = w
         /\ \A h \in Attempt \ {g} : op'[h] = op[h]
         /\ op'[g].settled = op[g].settled /\ op'[g].cancelled = op[g].cancelled
         /\ op'[g].disposer = op[g].disposer
         /\ op'[g].generation = op[g].generation /\ op'[g].revision = op[g].revision
  <1>1. ASSUME NEW o \in Operation
        PROVE  LET d == [o EXCEPT !.worker = w]
                   e == [o EXCEPT !.worker = w, !.failed = f] IN
               /\ d \in Operation /\ d.worker = w /\ d.settled = o.settled /\ d.cancelled = o.cancelled
               /\ d.disposer = o.disposer /\ d.generation = o.generation /\ d.revision = o.revision
               /\ e \in Operation /\ e.worker = w /\ e.settled = o.settled /\ e.cancelled = o.cancelled
               /\ e.disposer = o.disposer /\ e.generation = o.generation /\ e.revision = o.revision
    BY DEF Operation
  <1>2. op[g] \in Operation
    OBVIOUS
  <1>3. CASE op' = [op EXCEPT ![g].worker = w]
    <2>1. op' = [op EXCEPT ![g] = [op[g] EXCEPT !.worker = w]]
      BY <1>3
    <2>. QED  BY <1>1, <1>2, <2>1
  <1>4. CASE op' = [op EXCEPT ![g].worker = w, ![g].failed = f]
    <2>1. op' = [op EXCEPT ![g] = [op[g] EXCEPT !.worker = w, !.failed = f]]
      BY <1>4
    <2>. QED  BY <1>1, <1>2, <2>1
  <1>. QED  BY <1>3, <1>4

LEMMA WorkersKeep ==
  ASSUME Inv, NEW g \in Attempt, WorkerStep(g)
  PROVE  Inv'
  <1>t. /\ op \in [Attempt -> Operation] /\ gate \in [Attempt -> Gate] /\ stored["password"] \in Nat
        /\ tunnel \in [Attempt -> {"none", "open", "dead", "closed"}]
    BY DEF Inv, TypeOK, Secret
  <1>m. Made(g)
    BY DEF Inv, Pending
  <1>f. \A w \in {"tunnel", "check", "activate", "sent"}, f \in BOOLEAN :
          op' = [op EXCEPT ![g].worker = w, ![g].failed = f] => op'[g].failed = f
    BY <1>t DEF Operation
  <1>1. CASE WorkerIngress(g)
    <2>u. op[g].worker = "ingress" /\ UNCHANGED <<manager, disk, stored, tunnel, monitor, call, quitting>>
      BY <1>1 DEF WorkerIngress
    <2>1. CASE ~quitting /\ gate' = [gate EXCEPT ![g].at = "deny"] /\ op' = [op EXCEPT ![g].worker = "tunnel"]
      <3>1. /\ gate' \in [Attempt -> Gate] /\ gate'[g].at = "deny"
            /\ \A h \in Attempt \ {g} : gate'[h] = gate[h]
        BY <1>t, <2>1 DEF Gate
      <3>2. /\ op' \in [Attempt -> Operation] /\ op'[g].worker = "tunnel"
            /\ \A h \in Attempt \ {g} : op'[h] = op[h]
            /\ op'[g].settled = op[g].settled /\ op'[g].cancelled = op[g].cancelled
            /\ op'[g].disposer = op[g].disposer
            /\ op'[g].generation = op[g].generation /\ op'[g].revision = op[g].revision
        BY <1>t, <2>1, WorkerFields
      <3>3. Made(g)'
        BY <1>m, <2>u, <3>1, <3>2 DEF Made
      <3>. QED  BY <1>t, <2>1, <2>u, <3>1, <3>2, <3>3, Working DEF Dud
    <2>2. CASE gate' = gate /\ op' = [op EXCEPT ![g].worker = "sent", ![g].failed = TRUE]
      <3>2. /\ op' \in [Attempt -> Operation] /\ op'[g].worker = "sent" /\ op'[g].failed = TRUE
            /\ \A h \in Attempt \ {g} : op'[h] = op[h]
            /\ op'[g].settled = op[g].settled /\ op'[g].cancelled = op[g].cancelled
            /\ op'[g].disposer = op[g].disposer
            /\ op'[g].generation = op[g].generation /\ op'[g].revision = op[g].revision
        BY <1>t, <1>f, <2>2, WorkerFields
      <3>3. Made(g)' /\ (Dud(g) => Dud(g)')
        BY <1>m, <2>2, <2>u, <3>2 DEF Made, Dud
      <3>. QED  BY <1>t, <1>m, <2>2, <2>u, <3>2, <3>3, Working DEF Made
    <2>. QED  BY <1>1, <2>1, <2>2 DEF WorkerIngress, StartCancelled
  <1>2. CASE WorkerTunnel(g)
    <2>u. op[g].worker = "tunnel" /\ UNCHANGED <<manager, disk, stored, monitor, call, quitting>>
      BY <1>2 DEF WorkerTunnel
    <2>1. CASE /\ tunnel' = [tunnel EXCEPT ![g] = "open"]
               /\ gate' = [gate EXCEPT ![g].password = stored["password"]]
               /\ op' = [op EXCEPT ![g].worker = "check"]
      <3>1. /\ gate' \in [Attempt -> Gate] /\ gate'[g].at = gate[g].at
            /\ gate'[g].password = stored["password"]
            /\ \A h \in Attempt \ {g} : gate'[h] = gate[h]
        BY <1>t, <2>1 DEF Gate
      <3>2. /\ op' \in [Attempt -> Operation] /\ op'[g].worker = "check"
            /\ \A h \in Attempt \ {g} : op'[h] = op[h]
            /\ op'[g].settled = op[g].settled /\ op'[g].cancelled = op[g].cancelled
            /\ op'[g].disposer = op[g].disposer
            /\ op'[g].generation = op[g].generation /\ op'[g].revision = op[g].revision
        BY <1>t, <2>1, WorkerFields
      <3>3. /\ tunnel' \in [Attempt -> {"none", "open", "dead", "closed"}] /\ tunnel'[g] = "open"
            /\ \A h \in Attempt \ {g} : tunnel'[h] = tunnel[h]
        BY <1>t, <2>1
      <3>4. Made(g)'
        BY <1>m, <2>u, <3>1, <3>2, <3>3 DEF Made, Running
      <3>. QED  BY <2>u, <3>1, <3>2, <3>3, <3>4, Working DEF Dud
    <2>2. CASE tunnel' = tunnel /\ gate' = gate /\ op' = [op EXCEPT ![g].worker = "sent", ![g].failed = TRUE]
      <3>2. /\ op' \in [Attempt -> Operation] /\ op'[g].worker = "sent" /\ op'[g].failed = TRUE
            /\ \A h \in Attempt \ {g} : op'[h] = op[h]
            /\ op'[g].settled = op[g].settled /\ op'[g].cancelled = op[g].cancelled
            /\ op'[g].disposer = op[g].disposer
            /\ op'[g].generation = op[g].generation /\ op'[g].revision = op[g].revision
        BY <1>t, <1>f, <2>2, WorkerFields
      <3>3. Made(g)' /\ (Dud(g) => Dud(g)')
        BY <1>m, <2>2, <2>u, <3>2 DEF Made, Dud
      <3>. QED  BY <1>t, <1>m, <2>2, <2>u, <3>2, <3>3, Working DEF Made
    <2>. QED  BY <1>2, <2>1, <2>2 DEF WorkerTunnel
  <1>3. CASE WorkerChecks(g) \/ (WorkerActivates(g) /\ gate' = gate
                                   /\ op' = [op EXCEPT ![g].worker = "sent", ![g].failed = TRUE])
    <2>u. /\ op[g].worker \in {"check", "activate"}
          /\ UNCHANGED <<manager, disk, stored, gate, tunnel, monitor, call, quitting>>
      BY <1>3 DEF WorkerChecks, WorkerActivates, outside
    <2>1. CASE op' = [op EXCEPT ![g].worker = "activate"] /\ op[g].worker = "check"
      <3>2. /\ op' \in [Attempt -> Operation] /\ op'[g].worker = "activate"
            /\ \A h \in Attempt \ {g} : op'[h] = op[h]
            /\ op'[g].settled = op[g].settled /\ op'[g].cancelled = op[g].cancelled
            /\ op'[g].disposer = op[g].disposer
            /\ op'[g].generation = op[g].generation /\ op'[g].revision = op[g].revision
        BY <1>t, <2>1, WorkerFields
      <3>3. Made(g)'
        BY <1>m, <2>1, <2>u, <3>2 DEF Made, Running
      <3>. QED  BY <1>t, <1>m, <2>1, <2>u, <3>2, <3>3, Working DEF Dud, Made
    <2>2. CASE op' = [op EXCEPT ![g].worker = "sent", ![g].failed = TRUE]
      <3>2. /\ op' \in [Attempt -> Operation] /\ op'[g].worker = "sent" /\ op'[g].failed = TRUE
            /\ \A h \in Attempt \ {g} : op'[h] = op[h]
            /\ op'[g].settled = op[g].settled /\ op'[g].cancelled = op[g].cancelled
            /\ op'[g].disposer = op[g].disposer
            /\ op'[g].generation = op[g].generation /\ op'[g].revision = op[g].revision
        BY <1>t, <1>f, <2>2, WorkerFields
      <3>3. Made(g)'
        BY <1>m, <2>u, <3>2 DEF Made
      <3>. QED  BY <1>t, <1>m, <2>u, <3>2, <3>3, Working DEF Made, Dud
    <2>. QED  BY <1>3, <2>1, <2>2 DEF WorkerChecks
  <1>4. CASE WorkerActivates(g) /\ gate' = [gate EXCEPT ![g].at = "admit"]
              /\ op' = [op EXCEPT ![g].worker = "sent", ![g].failed = FALSE]
    <2>u. op[g].worker = "activate" /\ UNCHANGED <<manager, disk, stored, tunnel, monitor, call, quitting>>
      BY <1>4 DEF WorkerActivates
    <2>1. /\ gate' \in [Attempt -> Gate] /\ gate'[g].at = "admit" /\ gate'[g].password = gate[g].password
          /\ \A h \in Attempt \ {g} : gate'[h] = gate[h]
      BY <1>t, <1>4 DEF Gate
    <2>2. /\ op' \in [Attempt -> Operation] /\ op'[g].worker = "sent" /\ op'[g].failed = FALSE
          /\ \A h \in Attempt \ {g} : op'[h] = op[h]
          /\ op'[g].settled = op[g].settled /\ op'[g].cancelled = op[g].cancelled
          /\ op'[g].disposer = op[g].disposer
          /\ op'[g].generation = op[g].generation /\ op'[g].revision = op[g].revision
      BY <1>t, <1>f, <1>4, WorkerFields
    <2>3. Made(g)'
      BY <1>m, <2>u, <2>1, <2>2 DEF Made, Running
    <2>. QED  BY <1>t, <1>m, <2>u, <2>1, <2>2, <2>3, Working DEF Made, Dud
  <1>5. WorkerActivates(g) =>
          \/ gate' = gate /\ op' = [op EXCEPT ![g].worker = "sent", ![g].failed = TRUE]
          \/ gate' = [gate EXCEPT ![g].at = "admit"] /\ op' = [op EXCEPT ![g].worker = "sent", ![g].failed = FALSE]
    BY DEF WorkerActivates
  <1>. QED  BY <1>1, <1>2, <1>3, <1>4, <1>5 DEF WorkerStep

-----------------------------------------------------------------------------
(* A start begins.                                                         *)
LEMMA StartBeginsKeeps ==
  ASSUME Inv, StartBegins("window")
  PROVE  Inv'
  <1>w. Caller = {"window", "quit"}
    BY DEF Caller
  <1>t. /\ op \in [Attempt -> Operation] /\ call \in [Caller -> Call] /\ status \in Status /\ prefs \in Nat
        /\ status.generation \in Nat /\ status.generation + 1 \in Nat
    BY StatusSteps DEF Inv, TypeOK
  <1>1. PICK g \in Unused :
          /\ status' = Intent("starting")
          /\ op' = [op EXCEPT ![g] = [NoOperation EXCEPT !.generation = status.generation + 1,
                                         !.revision = prefs, !.worker = "ingress"]]
          /\ start' = g /\ pendingStart' = g
          /\ call' = [call EXCEPT !["window"].at = "select", !["window"].attempt = g]
    BY DEF StartBegins
  <1>2. /\ W.at = "start" /\ endpoint = 0 /\ ingress = 0 /\ ~StartWaits("window")
        /\ UNCHANGED <<prefs, presence, endpoint, ingress, cleanup, stop, reconfigure, outside, monitor, quitting>>
    BY DEF StartBegins, Starting, W
  <1>g. g \in Attempt /\ g # 0 /\ op[g].worker = "none"
    BY <1>1 DEF Unused, Attempt
  <1>p. pendingStart = 0 /\ start = 0
    BY <1>2 DEF Inv, StartingIsOurs, Pending, StartWaits, W
  <1>3. /\ op' \in [Attempt -> Operation] /\ \A h \in Attempt \ {g} : op'[h] = op[h]
        /\ op'[g].worker = "ingress" /\ ~op'[g].settled /\ ~op'[g].cancelled /\ op'[g].disposer = "none"
        /\ op'[g].generation = status.generation + 1 /\ op'[g].revision = prefs
    <2>. DEFINE o == [NoOperation EXCEPT !.generation = status.generation + 1, !.revision = prefs, !.worker = "ingress"]
    <2>1. /\ o \in Operation /\ o.worker = "ingress" /\ ~o.settled /\ ~o.cancelled /\ o.disposer = "none"
          /\ o.generation = status.generation + 1 /\ o.revision = prefs
      BY <1>t DEF Operation, NoOperation
    <2>2. op' = [op EXCEPT ![g] = o]
      BY <1>1
    <2>. HIDE DEF o
    <2>. QED  BY <1>t, <1>g, <2>1, <2>2
  <1>4. /\ status' \in Status /\ status'.state = "starting"
        /\ status'.generation = status.generation + 1 /\ status'.revision = prefs
    BY <1>1, <1>t, StatusSteps DEF Intent, LifecycleState
  <1>5. /\ call' \in [Caller -> Call] /\ call'["quit"] = call["quit"]
        /\ call'["window"].at = "select" /\ call'["window"].attempt = g
        /\ call'["window"].kind = W.kind /\ call'["window"].pending = W.pending
        /\ call'["window"].endpoint = W.endpoint /\ call'["window"].ingress = W.ingress
    <2>1. call' = [call EXCEPT !["window"] = [W EXCEPT !.at = "select", !.attempt = g]]
      BY <1>1 DEF W
    <2>2. W \in Call
      BY <1>w, <1>t DEF W
    <2>3. LET d == [W EXCEPT !.at = "select", !.attempt = g] IN
          /\ d \in Call /\ d.at = "select" /\ d.attempt = g /\ d.kind = W.kind /\ d.pending = W.pending
          /\ d.endpoint = W.endpoint /\ d.ingress = W.ingress
      BY <1>g, <2>2 DEF Call, Place
    <2>. QED  BY <1>w, <1>t, <2>1, <2>3
  <1>6. gate[g].at = "none" /\ tunnel[g] = "none"
    BY <1>g DEF Inv, Pending, Made
  <1>7. \A h \in Attempt : /\ Running(h)' = Running(h) /\ Live(h)' = Live(h)
                           /\ op[h].settled => h # g /\ op'[h].settled
                           /\ h # g => Made(h)' = Made(h)
    BY <1>g, <1>2, <1>3 DEF Running, Live, Made, Inv, Pending, outside
  <1>8. Q.at \in Open => Dud(g)'
    BY <1>2, <1>3, <1>6 DEF Dud, Inv, Places, Q, outside, Open, Changing
  <1>f. \A p \in Caller : call[p].pending \in Attempt \cup {0} /\ call[p].endpoint \in Attempt \cup {0}
                          /\ call[p].ingress \in Attempt \cup {0}
    BY CallFields DEF Inv, TypeOK
  <1>9. TypeOK'
    BY <1>1, <1>2, <1>g, <1>3, <1>4, <1>5 DEF Inv, TypeOK, outside
  <1>10. Places'
    BY <1>2, <1>5 DEF Inv, Places, W, Q, WindowPlaces, Changing
  <1>11. Pending'
    <2>1. Made(g)'
      BY <1>2, <1>3, <1>6 DEF Made, outside
    <2>2. ASSUME NEW h \in Attempt
          PROVE  /\ (op'[h].worker # "none" /\ ~op'[h].settled) <=> h = g
                 /\ op'[h].settled => op'[h].worker \in {"sent", "taken"}
                 /\ op'[h].disposer # "none" => h = g
                 /\ op'[h].disposer = "waiting" => op'[h].worker # "taken"
                 /\ op'[h].disposer = "closing" => op'[h].worker = "taken"
                 /\ Made(h)'
      <3>1. CASE h = g
        BY <1>3, <2>1, <3>1
      <3>2. CASE h # g
        BY <1>g, <1>p, <1>3, <1>7, <3>2 DEF Inv, Pending, Attempt
      <3>. QED  BY <3>1, <3>2
    <2>. QED  BY <1>1, <1>2, <1>g, <1>3, <1>5, <2>2 DEF Pending, W
  <1>12. Owned'
    <2>1. \A p \in Caller :
            /\ call'[p].endpoint # 0 => op'[call'[p].endpoint].settled
            /\ call'[p].ingress # 0 => op'[call'[p].ingress].settled
            /\ call'[p].pending # 0 => op'[call'[p].pending].worker # "none"
      <3>1. \A h \in Attempt : op[h].worker # "none" => op'[h].worker # "none"
        BY <1>g, <1>3
      <3>2. \A p \in Caller : /\ call'[p].endpoint = call[p].endpoint /\ call'[p].ingress = call[p].ingress
                              /\ call'[p].pending = call[p].pending
        BY <1>w, <1>5 DEF W
      <3>. QED  BY <1>f, <1>7, <3>1, <3>2 DEF Inv, Owned
    <2>. QED  BY <1>1, <1>2, <1>p, <1>7, <2>1 DEF Inv, Owned, outside
  <1>13. ASSUME NEW p \in Caller
         PROVE  Taken(p)'
    <2>1. CASE p = "window"
      BY <1>5, <2>1 DEF Taken, Open, Changing
    <2>2. CASE p = "quit"
      <3>1. Taken(p) /\ call'[p] = call[p] /\ p \in Caller
        BY <1>5, <2>2 DEF Inv
      <3>2. Q.at \in Open => Quiet'
        BY <1>1, <1>8 DEF Quiet
      <3>3. Q.at \notin Changing
        BY DEF Inv, Places, QuitPlaces, Changing
      <3>. QED  BY <1>2, <1>7, <1>f, <2>2, <3>1, <3>2, <3>3 DEF Taken, Open, Holds, Q, outside
    <2>. QED  BY <1>w, <2>1, <2>2
  <1>14. StartingIsOurs'
    BY <1>1, <1>2, <1>g, <1>3, <1>4, <1>5 DEF StartingIsOurs, W
  <1>15. ReadyIsHeld' /\ DisabledIsQuiet'
    BY <1>4 DEF ReadyIsHeld, DisabledIsQuiet
  <1>16. PresenceIsRead'
    BY <1>2, <1>5 DEF Inv, PresenceIsRead, Readings, W, Changing, outside
  <1>17. CommitIsCurrent'
    BY <1>5 DEF CommitIsCurrent, W, Changing
  <1>. QED  BY <1>9, <1>10, <1>11, <1>12, <1>13, <1>14, <1>15, <1>16, <1>17 DEF Inv

-----------------------------------------------------------------------------
(* The result of a start: it settles, is taken by someone, or expires.     *)
LEMMA SettleSteps ==
  ASSUME op \in [Attempt -> Operation], NEW g \in Attempt, Settle(g)
  PROVE  /\ op' \in [Attempt -> Operation] /\ \A h \in Attempt \ {g} : op'[h] = op[h]
         /\ op'[g].settled /\ op'[g].disposer = "none" /\ op'[g].worker = op[g].worker
         /\ op'[g].failed = op[g].failed /\ op'[g].cancelled = op[g].cancelled
         /\ op'[g].generation = op[g].generation /\ op'[g].revision = op[g].revision
         /\ pendingStart' = IF pendingStart = g THEN 0 ELSE pendingStart
  <1>1. LET d == [op[g] EXCEPT !.settled = TRUE, !.disposer = "none"] IN
        /\ d \in Operation /\ d.settled /\ d.disposer = "none" /\ d.worker = op[g].worker
        /\ d.failed = op[g].failed /\ d.cancelled = op[g].cancelled
        /\ d.generation = op[g].generation /\ d.revision = op[g].revision
    BY DEF Operation
  <1>2. op' = [op EXCEPT ![g] = [op[g] EXCEPT !.settled = TRUE, !.disposer = "none"]]
    BY DEF Settle
  <1>. QED  BY <1>1, <1>2 DEF Settle

LEMMA TakenSteps ==
  ASSUME op \in [Attempt -> Operation], NEW g \in Attempt, NEW d \in {op[g].disposer, "closing"},
         \/ op' = [op EXCEPT ![g].worker = "taken"] /\ d = op[g].disposer
         \/ op' = [op EXCEPT ![g].disposer = "closing", ![g].worker = "taken"] /\ d = "closing"
  PROVE  /\ op' \in [Attempt -> Operation] /\ \A h \in Attempt \ {g} : op'[h] = op[h]
         /\ op'[g].worker = "taken" /\ op'[g].disposer = d
         /\ op'[g].settled = op[g].settled /\ op'[g].failed = op[g].failed
         /\ op'[g].cancelled = op[g].cancelled
         /\ op'[g].generation = op[g].generation /\ op'[g].revision = op[g].revision
  <1>. DEFINE o == [op[g] EXCEPT !.worker = "taken"]
              c == [op[g] EXCEPT !.disposer = "closing", !.worker = "taken"]
  <1>1. /\ o \in Operation /\ o.worker = "taken" /\ o.disposer = op[g].disposer
        /\ o.settled = op[g].settled /\ o.failed = op[g].failed /\ o.cancelled = op[g].cancelled
        /\ o.generation = op[g].generation /\ o.revision = op[g].revision
    BY DEF Operation
  <1>2. /\ c \in Operation /\ c.worker = "taken" /\ c.disposer = "closing"
        /\ c.settled = op[g].settled /\ c.failed = op[g].failed /\ c.cancelled = op[g].cancelled
        /\ c.generation = op[g].generation /\ c.revision = op[g].revision
    <2>1. op[g] \in Operation
      OBVIOUS
    <2>. QED  BY <2>1 DEF Operation
  <1>3. \/ op' = [op EXCEPT ![g] = o] /\ d = op[g].disposer
        \/ op' = [op EXCEPT ![g] = c] /\ d = "closing"
    OBVIOUS
  <1>. HIDE DEF o, c
  <1>. QED  BY <1>1, <1>2, <1>3

LEMMA ExpiredSteps ==
  ASSUME op \in [Attempt -> Operation], NEW g \in Attempt,
         op' = [op EXCEPT ![g].cancelled = TRUE, ![g].disposer = "waiting"]
  PROVE  /\ op' \in [Attempt -> Operation] /\ \A h \in Attempt \ {g} : op'[h] = op[h]
         /\ op'[g].cancelled /\ op'[g].disposer = "waiting" /\ op'[g].worker = op[g].worker
         /\ op'[g].settled = op[g].settled /\ op'[g].failed = op[g].failed
         /\ op'[g].generation = op[g].generation /\ op'[g].revision = op[g].revision
  <1>1. LET d == [op[g] EXCEPT !.cancelled = TRUE, !.disposer = "waiting"] IN
        /\ d \in Operation /\ d.cancelled /\ d.disposer = "waiting" /\ d.worker = op[g].worker
        /\ d.settled = op[g].settled /\ d.failed = op[g].failed
        /\ d.generation = op[g].generation /\ d.revision = op[g].revision
    BY DEF Operation
  <1>2. op' = [op EXCEPT ![g] = [op[g] EXCEPT !.cancelled = TRUE, !.disposer = "waiting"]]
    OBVIOUS
  <1>. QED  BY <1>1, <1>2

LEMMA DenySteps ==
  ASSUME gate \in [Attempt -> Gate], NEW g \in Attempt,
         gate' = [gate EXCEPT ![g].at = IF @ = "admit" THEN "deny" ELSE @]
  PROVE  /\ gate' \in [Attempt -> Gate] /\ \A h \in Attempt \ {g} : gate'[h] = gate[h]
         /\ gate'[g].at = IF gate[g].at = "admit" THEN "deny" ELSE gate[g].at
         /\ gate'[g].password = gate[g].password
  BY DEF Gate

LEMMA StartReadyKeeps ==
  ASSUME Inv, StartReady("window")
  PROVE  Inv'
  <1>w. Caller = {"window", "quit"}
    BY DEF Caller
  <1>. DEFINE g == W.attempt
  <1>1. /\ W.at = "select" /\ op[g].worker = "sent" /\ Current(g) /\ ~op[g].failed
        /\ endpoint' = g /\ ingress' = g /\ status' = [status EXCEPT !.state = "ready"]
        /\ Complete(g) /\ Settle(g) /\ monitor' = [monitor EXCEPT ![g] = "watching"]
        /\ Answer("window", TRUE)
        /\ UNCHANGED <<prefs, presence, cleanup, stop, outside, quitting>>
    BY DEF StartReady, Responds, W
  <1>g. /\ g \in Attempt /\ g # 0 /\ g = pendingStart /\ ~op[g].settled
        /\ endpoint = 0 /\ ingress = 0 /\ start = g
    BY <1>1 DEF Inv, Pending, TypeOK, Current, Attempt
  <1>. HIDE DEF g
  <1>t. /\ op \in [Attempt -> Operation] /\ call \in [Caller -> Call] /\ status \in Status
    BY DEF Inv, TypeOK
  <1>2. /\ op' \in [Attempt -> Operation] /\ \A h \in Attempt \ {g} : op'[h] = op[h]
        /\ op'[g].settled /\ op'[g].disposer = "none" /\ op'[g].worker = "sent" /\ ~op'[g].failed
        /\ op'[g].generation = op[g].generation /\ op'[g].revision = op[g].revision
        /\ pendingStart' = 0
    BY <1>1, <1>g, <1>t, SettleSteps
  <1>3. /\ status' \in Status /\ status'.state = "ready"
        /\ status'.generation = status.generation /\ status'.revision = status.revision
    BY <1>1, <1>t DEF Status, LifecycleState
  <1>4. /\ call' \in [Caller -> Call] /\ call'["quit"] = call["quit"]
        /\ call'["window"].at = "idle" /\ call'["window"].kind = "none"
        /\ call'["window"].endpoint = 0 /\ call'["window"].ingress = 0 /\ call'["window"].pending = 0
        /\ reconfigure' \in {0, reconfigure}
    BY <1>1, <1>w, <1>t, AnswerSteps
  <1>5. gate[g].at = "admit" /\ Running(g) /\ gate[g].password = stored["password"]
    BY <1>1, <1>g DEF Inv, Pending, Made
  <1>6. start' = 0
    BY <1>1, <1>g DEF Complete
  <1>7. /\ status.generation = op[g].generation /\ prefs = op[g].revision /\ status.revision = prefs
        /\ status.state = "starting"
    BY <1>1, <1>g DEF Current, Inv, StartingIsOurs, W
  <1>8. \A p \in Caller : call[p].at \notin Open
    BY <1>1, <1>g, <1>5, <1>7 DEF Inv, Taken, Quiet, Dud
  <1>9. \A h \in Attempt : /\ Running(h)' = Running(h)
                           /\ op[h].settled => op'[h].settled
                           /\ op[h].worker # "none" => op'[h].worker # "none"
    BY <1>1, <1>2 DEF Running, outside
  <1>10. TypeOK'
    <2>1. monitor' \in [Attempt -> {"none", "watching", "closing", "ended"}]
      BY <1>1, <1>g DEF Inv, TypeOK
    <2>2. reconfigure' \in Nat
      BY <1>4 DEF Inv, TypeOK
    <2>. QED  BY <1>1, <1>2, <1>3, <1>4, <1>6, <1>g, <2>1, <2>2 DEF Inv, TypeOK, outside
  <1>11. Places'
    BY <1>1, <1>4 DEF Inv, Places, W, Q, WindowPlaces, Changing
  <1>12. Pending'
    <2>1. ASSUME NEW h \in Attempt
          PROVE  Made(h)'
      BY <1>1, <1>2, <1>5 DEF Inv, Pending, Made, Running, outside
    <2>2. ASSUME NEW h \in Attempt
          PROVE  /\ (op'[h].worker # "none" /\ ~op'[h].settled) <=> h = 0
                 /\ op'[h].settled => op'[h].worker \in {"sent", "taken"}
                 /\ op'[h].disposer = "none"
      BY <1>2, <1>g DEF Inv, Pending, Attempt
    <2>. QED  BY <1>2, <1>4, <1>6, <2>1, <2>2 DEF Pending, W
  <1>13. Owned'
    <2>1. \A p \in Caller : call[p].pending \in Attempt \cup {0} /\ call[p].endpoint \in Attempt \cup {0}
                            /\ call[p].ingress \in Attempt \cup {0}
      BY CallFields DEF Inv, TypeOK
    <2>2. \A p \in Caller :
            /\ call'[p].endpoint # 0 => op'[call'[p].endpoint].settled
            /\ call'[p].ingress # 0 => op'[call'[p].ingress].settled
            /\ call'[p].pending # 0 => op'[call'[p].pending].worker # "none"
      BY <1>w, <1>4, <1>9, <2>1 DEF Inv, Owned
    <2>3. \A h \in Attempt : monitor'[h] # "none" => op'[h].settled
      BY <1>1, <1>2, <1>9 DEF Inv, Owned, TypeOK
    <2>. QED  BY <1>1, <1>2, <1>9, <1>g, <2>2, <2>3 DEF Inv, Owned, outside
  <1>14. ASSUME NEW p \in Caller
         PROVE  Taken(p)'
    BY <1>4, <1>8, <1>w DEF Taken, Open, Changing
  <1>15. StartingIsOurs' /\ DisabledIsQuiet'
    BY <1>3 DEF StartingIsOurs, DisabledIsQuiet
  <1>16. ReadyIsHeld'
    <2>1. gate'[g].at = "admit" /\ tunnel'[g] \in {"open", "dead"} /\ monitor'[g] = "watching"
      BY <1>1, <1>5, <1>g DEF Running, outside, Inv, TypeOK
    <2>. QED
      BY <1>1, <1>2, <1>3, <1>4, <1>7, <1>8, <1>g, <1>w, <2>1 DEF ReadyIsHeld, ReadyIsServed, W, Q, Open, Changing
  <1>17. PresenceIsRead'
    BY <1>1, <1>4 DEF Inv, PresenceIsRead, Readings, W, Changing, outside
  <1>18. CommitIsCurrent'
    BY <1>4 DEF CommitIsCurrent, W, Changing
  <1>. QED  BY <1>10, <1>11, <1>12, <1>13, <1>14, <1>15, <1>16, <1>17, <1>18 DEF Inv

(* The caller or the disposer takes a result that is not wanted: the       *)
(* ingress denies from now on.                                             *)
LEMMA Taking ==
  ASSUME Inv, Places', NEW g \in Attempt, g = pendingStart, op[g].worker = "sent",
         NEW d \in {"none", "closing"}, d = "closing" => start = 0,
         op' \in [Attempt -> Operation], \A h \in Attempt \ {g} : op'[h] = op[h],
         op'[g].worker = "taken", op'[g].disposer = d, op'[g].settled = op[g].settled,
         op'[g].failed = op[g].failed,
         gate' = [gate EXCEPT ![g].at = IF @ = "admit" THEN "deny" ELSE @],
         UNCHANGED <<prefs, presence, endpoint, ingress, start, pendingStart, cleanup, stop, reconfigure,
                     disk, stored, tunnel, monitor, quitting>>,
         status' \in Status, status'.state # "starting", status'.generation = status.generation,
         status' = status \/ status'.state = "failed",
         call' \in [Caller -> Call], call'["quit"] = call["quit"],
         \/ call'["window"] = W /\ W.at \notin {"select", "discard"} /\ d = "closing"
         \/ /\ W.at = "select" /\ call'["window"].at = "discard" /\ d = "none"
            /\ call'["window"].attempt = g
            /\ call'["window"].endpoint = W.endpoint /\ call'["window"].ingress = W.ingress
            /\ call'["window"].pending = W.pending
  PROVE  Inv'
  <1>w. Caller = {"window", "quit"}
    BY DEF Caller
  <1>g. g # 0 /\ ~op[g].settled /\ endpoint = 0 /\ ingress = 0
    BY DEF Inv, Pending, Attempt
  <1>1. /\ gate' \in [Attempt -> Gate] /\ \A h \in Attempt \ {g} : gate'[h] = gate[h]
        /\ gate'[g].at = IF gate[g].at = "admit" THEN "deny" ELSE gate[g].at
        /\ gate'[g].password = gate[g].password
    BY DenySteps DEF Inv, TypeOK
  <1>2. \A h \in Attempt : /\ Running(h)' = Running(h) /\ Live(h)' = Live(h)
                           /\ gate'[h].at \in {"deny", "admit"} <=> gate[h].at \in {"deny", "admit"}
                           /\ op'[h].settled = op[h].settled
                           /\ op[h].worker # "none" => op'[h].worker # "none"
    BY <1>1 DEF Running, Live
  <1>q. Quiet => Quiet'
    BY <1>1 DEF Quiet, Dud
  <1>f. \A p \in Caller : /\ call[p].pending \in Attempt \cup {0} /\ call[p].endpoint \in Attempt \cup {0}
                          /\ call[p].ingress \in Attempt \cup {0}
                          /\ call'[p].endpoint = call[p].endpoint /\ call'[p].ingress = call[p].ingress
                          /\ call'[p].pending = call[p].pending
    BY <1>w, CallFields DEF Inv, TypeOK, W
  <1>3. TypeOK'
    BY <1>1 DEF Inv, TypeOK
  <1>4. Pending'
    <2>1. ASSUME NEW h \in Attempt
          PROVE  /\ (op'[h].worker # "none" /\ ~op'[h].settled) <=> h = g
                 /\ op'[h].settled => op'[h].worker \in {"sent", "taken"}
                 /\ op'[h].disposer # "none" => h = g
                 /\ op'[h].disposer = "waiting" => op'[h].worker # "taken"
                 /\ op'[h].disposer = "closing" => op'[h].worker = "taken"
                 /\ Made(h)'
      <3>1. CASE h = g
        BY <1>1, <1>g, <3>1 DEF Made
      <3>2. CASE h # g
        BY <1>1, <3>2 DEF Inv, Pending, Made, Running
      <3>. QED  BY <3>1, <3>2
    <2>. QED  BY <1>g, <2>1 DEF Inv, Pending, W
  <1>5. Owned'
    <2>1. \A p \in Caller :
            /\ call'[p].endpoint # 0 => op'[call'[p].endpoint].settled
            /\ call'[p].ingress # 0 => op'[call'[p].ingress].settled
            /\ call'[p].pending # 0 => op'[call'[p].pending].worker # "none"
      BY <1>f, <1>2 DEF Inv, Owned
    <2>2. \A h \in Attempt : gate'[h].at = "admit" => gate'[h].password = stored["password"]
      BY <1>1 DEF Inv, Owned
    <2>. QED  BY <1>g, <1>2, <2>1, <2>2 DEF Inv, Owned
  <1>6. ASSUME NEW p \in Caller
        PROVE  Taken(p)'
    <2>1. CASE call'[p] = call[p]
      <3>1. Taken(p)
        BY DEF Inv
      <3>. QED  BY <1>2, <1>f, <1>q, <2>1, <3>1 DEF Taken, Holds
    <2>2. CASE p = "window" /\ call'[p].at = "discard"
      BY <2>2 DEF Taken, Open, Changing
    <2>. QED  BY <1>w, <2>1, <2>2 DEF W
  <1>7. StartingIsOurs'
    BY DEF StartingIsOurs
  <1>8. ReadyIsHeld'
    BY <1>g DEF Inv, ReadyIsHeld
  <1>9. DisabledIsQuiet'
    BY <1>2, <1>q DEF Inv, DisabledIsQuiet
  <1>10. PresenceIsRead'
    BY DEF Inv, PresenceIsRead, Readings, W, Changing
  <1>11. CommitIsCurrent'
    BY DEF Inv, CommitIsCurrent, W, Q, Changing
  <1>. QED  BY <1>3, <1>4, <1>5, <1>6, <1>7, <1>8, <1>9, <1>10, <1>11 DEF Inv

LEMMA TakingKeeps ==
  ASSUME Inv, StartUndone("window") \/ \E g \in Attempt : LateStart(g)
  PROVE  Inv'
  <1>w. Caller = {"window", "quit"}
    BY DEF Caller
  <1>t. /\ op \in [Attempt -> Operation] /\ call \in [Caller -> Call] /\ status \in Status /\ prefs \in Nat
    BY DEF Inv, TypeOK
  <1>1. CASE StartUndone("window")
    <2>. DEFINE a == W.attempt
    <2>1. /\ W.at = "select" /\ op[a].worker = "sent" /\ (~Current(a) \/ op[a].failed)
          /\ status' = IF Current(a) THEN Failed ELSE status
          /\ gate' = [gate EXCEPT ![a].at = IF @ = "admit" THEN "deny" ELSE @]
          /\ op' = [op EXCEPT ![a].worker = "taken"]
          /\ Moves("window", "discard")
          /\ UNCHANGED <<prefs, presence, endpoint, ingress, start, pendingStart, cleanup, stop, reconfigure,
                         disk, stored, tunnel, monitor, quitting>>
      BY <1>1 DEF StartUndone, Responds, W
    <2>2. a \in Attempt /\ a = pendingStart /\ op[a].disposer = "none"
      BY <2>1 DEF Inv, Pending, TypeOK
    <2>. HIDE DEF a
    <2>3. /\ op' \in [Attempt -> Operation] /\ \A h \in Attempt \ {a} : op'[h] = op[h]
          /\ op'[a].worker = "taken" /\ op'[a].disposer = "none"
          /\ op'[a].settled = op[a].settled /\ op'[a].failed = op[a].failed
      BY <1>t, <2>1, <2>2, TakenSteps
    <2>4. /\ call' \in [Caller -> Call] /\ call'["quit"] = call["quit"] /\ call'["window"].at = "discard"
          /\ call'["window"].attempt = W.attempt /\ call'["window"].kind = W.kind
          /\ call'["window"].endpoint = W.endpoint /\ call'["window"].ingress = W.ingress
          /\ call'["window"].pending = W.pending
      BY <1>w, <1>t, <2>1, MovesSteps DEF Place, W
    <2>5. Failed \in Status /\ Failed.state = "failed" /\ Failed.generation = status.generation
      BY <1>t DEF Failed, Status, LifecycleState
    <2>6. status.state = "starting" => Current(a)
      BY DEF Inv, StartingIsOurs, Current, a
    <2>7. Places'
      BY <2>1, <2>4 DEF Inv, Places, W, Q, WindowPlaces, Changing
    <2>. QED  BY <1>t, <2>1, <2>2, <2>3, <2>4, <2>5, <2>6, <2>7, Taking DEF a
  <1>2. ASSUME NEW g \in Attempt, LateStart(g)
        PROVE  Inv'
    <2>1. /\ op[g].disposer = "waiting" /\ op[g].worker = "sent"
          /\ op' = [op EXCEPT ![g].disposer = "closing", ![g].worker = "taken"]
          /\ gate' = [gate EXCEPT ![g].at = IF @ = "admit" THEN "deny" ELSE @]
          /\ UNCHANGED <<manager, disk, stored, tunnel, monitor, call, quitting>>
      BY <1>2 DEF LateStart
    <2>2. g = pendingStart /\ start = 0 /\ W.at \notin {"select", "discard"}
      BY <2>1 DEF Inv, Pending
    <2>3. /\ op' \in [Attempt -> Operation] /\ \A h \in Attempt \ {g} : op'[h] = op[h]
          /\ op'[g].worker = "taken" /\ op'[g].disposer = "closing"
          /\ op'[g].settled = op[g].settled /\ op'[g].failed = op[g].failed
      BY <1>t, <2>1, TakenSteps
    <2>4. status.state # "starting"
      BY <2>2 DEF Inv, StartingIsOurs
    <2>5. Places'
      BY <2>1 DEF Inv, Places, W, Q, manager
    <2>. QED  BY <1>t, <2>1, <2>2, <2>3, <2>4, <2>5, Taking DEF manager, W
  <1>. QED  BY <1>1, <1>2

(* What was taken is closed, or kept for the next to close, and the start  *)
(* has settled.                                                            *)
LEMMA Settling ==
  ASSUME Inv, Places', NEW g \in Attempt, g = pendingStart, op[g].worker = "taken",
         NEW ok \in BOOLEAN, CloseRuntime(g, g, ok),
         IF ok THEN UNCHANGED <<endpoint, ingress>> ELSE Retain(g),
         Settle(g), start' = 0,
         UNCHANGED <<prefs, presence, status, cleanup, stop, disk, stored, monitor, quitting>>,
         call' \in [Caller -> Call], call'["quit"] = call["quit"], reconfigure' \in Nat,
         \/ call'["window"] = W /\ W.at \notin {"select", "discard"}
         \/ /\ W.at = "discard" /\ call'["window"].at = "idle"
            /\ call'["window"].endpoint = 0 /\ call'["window"].ingress = 0 /\ call'["window"].pending = 0
  PROVE  Inv'
  <1>w. Caller = {"window", "quit"}
    BY DEF Caller
  <1>g. g # 0 /\ ~op[g].settled /\ endpoint = 0 /\ ingress = 0 /\ start \in {0, g}
    BY DEF Inv, Pending, Attempt
  <1>1. /\ op' \in [Attempt -> Operation] /\ \A h \in Attempt \ {g} : op'[h] = op[h]
        /\ op'[g].settled /\ op'[g].disposer = "none" /\ op'[g].worker = "taken"
        /\ pendingStart' = 0
    BY SettleSteps DEF Inv, TypeOK
  <1>2. /\ tunnel' \in [Attempt -> {"none", "open", "dead", "closed"}]
        /\ gate' \in [Attempt -> Gate]
        /\ \A h \in Attempt \ {g} : tunnel'[h] = tunnel[h] /\ gate'[h].at = gate[h].at
                                    /\ gate'[h].password = gate[h].password
        /\ tunnel'[g] \in {tunnel[g], "closed"} /\ (tunnel[g] = "none" => tunnel'[g] = "none")
        /\ gate'[g].at \notin {"deny", "admit"}
        /\ ok => tunnel'[g] \in {"none", "closed"}
        /\ gate[g].at = "none" => gate'[g].at = "none"
    BY CloseRuntimeLemma DEF Inv, TypeOK
  <1>3. /\ endpoint' \in {0, g} /\ ingress' \in {0, g}
        /\ tunnel'[g] \in {"open", "dead"} => endpoint' = g
        /\ tunnel[g] = "none" => endpoint' = 0
        /\ gate[g].at = "none" => ingress' = 0
    BY <1>2, <1>g DEF Retain
  <1>5. \A h \in Attempt \ {g} : ~Running(h) /\ ~Running(h)' /\ gate'[h].at \notin {"deny", "admit"}
    <2>1. ASSUME NEW h \in Attempt \ {g}
          PROVE  ~Running(h) /\ gate[h].at \notin {"deny", "admit"}
      BY <1>g DEF Inv, Owned, Attempt
    <2>. QED  BY <1>2, <2>1 DEF Running
  <1>f. \A p \in Caller : /\ call[p].pending \in Attempt \cup {0} /\ call[p].endpoint \in Attempt \cup {0}
                          /\ call[p].ingress \in Attempt \cup {0}
                          /\ call'[p].endpoint \in {0, call[p].endpoint}
                          /\ call'[p].ingress \in {0, call[p].ingress}
                          /\ call'[p].pending \in {0, call[p].pending}
    BY <1>w, CallFields DEF Inv, TypeOK, W
  <1>6. TypeOK'
    BY <1>1, <1>2, <1>3 DEF Inv, TypeOK
  <1>7. Pending'
    <2>1. ASSUME NEW h \in Attempt
          PROVE  /\ (op'[h].worker # "none" /\ ~op'[h].settled) <=> h = 0
                 /\ op'[h].settled => op'[h].worker \in {"sent", "taken"}
                 /\ op'[h].disposer = "none"
                 /\ Made(h)'
      <3>1. CASE h = g
        BY <1>g, <1>1, <1>2, <3>1 DEF Made
      <3>2. CASE h # g
        BY <1>1, <1>2, <1>5, <3>2 DEF Inv, Pending, Made, Running, Attempt
      <3>. QED  BY <3>1, <3>2
    <2>. QED  BY <1>1, <2>1 DEF Pending, W
  <1>8. Owned'
    <2>1. \A p \in Caller :
            /\ call'[p].endpoint # 0 => op'[call'[p].endpoint].settled
            /\ call'[p].ingress # 0 => op'[call'[p].ingress].settled
            /\ call'[p].pending # 0 => op'[call'[p].pending].worker # "none"
      BY <1>f, <1>1 DEF Inv, Owned
    <2>2. \A h \in Attempt : /\ Running(h)' => endpoint' = h
                             /\ gate'[h].at \notin {"deny", "admit"}
                             /\ monitor'[h] # "none" => op'[h].settled
      BY <1>1, <1>2, <1>3, <1>5 DEF Running, Inv, Owned
    <2>. QED  BY <1>1, <1>3, <2>1, <2>2 DEF Owned
  <1>9. ASSUME NEW p \in Caller
        PROVE  Taken(p)'
    <2>1. CASE call'[p] = call[p]
      <3>1. Taken(p) /\ Quiet'
        BY <1>1 DEF Inv, Quiet
      <3>2. Quiet => endpoint' = 0 /\ ingress' = 0
        BY <1>3, <1>g DEF Quiet, Dud
      <3>3. \A h \in Attempt : /\ ~Running(h) /\ Quiet => ~Running(h)'
                               /\ gate'[h].at \notin {"deny", "admit"}
        BY <1>2, <1>5 DEF Running, Quiet, Dud
      <3>4. p = "window" => call[p].at \notin {"select", "discard"}
        BY <1>1, <2>1 DEF W
      <3>5. call[p].at \in Open => Quiet \/ g = call[p].pending
        BY <3>1 DEF Taken
      <3>6. call[p].at = "settling" /\ g = call[p].pending => call[p].endpoint = 0 /\ call[p].ingress = 0
        BY <1>g, <3>1 DEF Taken
      <3>. QED  BY <1>f, <1>g, <2>1, <3>1, <3>2, <3>3, <3>5, <3>6 DEF Taken, Holds, Open, Changing
    <2>2. CASE p = "window" /\ call'[p].at = "idle"
      BY <2>2 DEF Taken, Open, Changing
    <2>. QED  BY <1>w, <2>1, <2>2 DEF W
  <1>10. StartingIsOurs'
    BY DEF Inv, StartingIsOurs, W
  <1>11. ReadyIsHeld'
    BY <1>g DEF Inv, ReadyIsHeld
  <1>12. DisabledIsQuiet'
    <2>1. status.state = "disabled" => \A h \in Attempt : ~Live(h)'
      BY <1>2, <1>5 DEF Inv, DisabledIsQuiet, Live, Running
    <2>. QED  BY <1>1, <2>1 DEF DisabledIsQuiet, Quiet
  <1>13. PresenceIsRead'
    BY DEF Inv, PresenceIsRead, Readings, W, Changing
  <1>14. CommitIsCurrent'
    BY DEF Inv, CommitIsCurrent, W, Q, Changing
  <1>. QED  BY <1>6, <1>7, <1>8, <1>9, <1>10, <1>11, <1>12, <1>13, <1>14 DEF Inv

LEMMA SettlingKeeps ==
  ASSUME Inv, NEW ok \in BOOLEAN,
         StartDiscarded("window", ok) \/ \E g \in Attempt : LateStartDisposed(g, ok)
  PROVE  Inv'
  <1>w. Caller = {"window", "quit"}
    BY DEF Caller
  <1>t. call \in [Caller -> Call] /\ reconfigure \in Nat
    BY DEF Inv, TypeOK
  <1>1. CASE StartDiscarded("window", ok)
    <2>. DEFINE a == W.attempt
    <2>1. /\ W.at = "discard" /\ CloseRuntime(a, a, ok)
          /\ IF ok THEN UNCHANGED <<endpoint, ingress>> ELSE Retain(a)
          /\ Complete(a) /\ Settle(a) /\ Answer("window", FALSE)
          /\ UNCHANGED <<prefs, presence, status, cleanup, stop, disk, stored, monitor, quitting>>
      BY <1>1 DEF StartDiscarded, W
    <2>2. a \in Attempt /\ a = pendingStart /\ op[a].worker = "taken" /\ start \in {0, a}
      BY <2>1 DEF Inv, Pending, TypeOK
    <2>. HIDE DEF a
    <2>3. /\ call' \in [Caller -> Call] /\ call'["quit"] = call["quit"]
          /\ call'["window"].at = "idle" /\ call'["window"].kind = "none"
          /\ call'["window"].endpoint = 0 /\ call'["window"].ingress = 0 /\ call'["window"].pending = 0
          /\ reconfigure' \in {0, reconfigure}
      BY <1>w, <1>t, <2>1, AnswerSteps
    <2>4. start' = 0 /\ reconfigure' \in Nat
      BY <1>t, <2>1, <2>2, <2>3 DEF Complete
    <2>5. Places'
      BY <2>1, <2>3 DEF Inv, Places, W, Q, WindowPlaces, Changing
    <2>. QED  BY <2>1, <2>2, <2>3, <2>4, <2>5, Settling
  <1>2. ASSUME NEW g \in Attempt, LateStartDisposed(g, ok)
        PROVE  Inv'
    <2>1. /\ op[g].disposer = "closing" /\ CloseRuntime(g, g, ok)
          /\ IF ok THEN UNCHANGED <<endpoint, ingress>> ELSE Retain(g)
          /\ Settle(g)
          /\ UNCHANGED <<prefs, presence, status, start, cleanup, stop, reconfigure,
                         disk, stored, monitor, call, quitting>>
      BY <1>2 DEF LateStartDisposed
    <2>2. g = pendingStart /\ op[g].worker = "taken" /\ start = 0 /\ W.at \notin {"select", "discard"}
      BY <2>1 DEF Inv, Pending
    <2>3. Places'
      BY <2>1 DEF Inv, Places, W, Q
    <2>. QED  BY <1>t, <2>1, <2>2, <2>3, Settling DEF W
  <1>. QED  BY <1>1, <1>2

-----------------------------------------------------------------------------
(* The caller gives up, and the response is left to the disposer.          *)
LEMMA StartExpiresKeeps ==
  ASSUME Inv, StartExpires("window")
  PROVE  Inv'
  <1>w. Caller = {"window", "quit"}
    BY DEF Caller
  <1>t. /\ op \in [Attempt -> Operation] /\ call \in [Caller -> Call] /\ status \in Status
        /\ prefs \in Nat /\ reconfigure \in Nat
    BY DEF Inv, TypeOK
  <1>. DEFINE g == W.attempt
  <1>1. /\ W.at = "select"
        /\ status' = IF start = g /\ status.state = "starting" /\ status.generation = op[g].generation
                     THEN Failed ELSE status
        /\ Complete(g) /\ op' = [op EXCEPT ![g].cancelled = TRUE, ![g].disposer = "waiting"]
        /\ Answer("window", FALSE)
        /\ UNCHANGED <<prefs, presence, endpoint, ingress, pendingStart, cleanup, stop, outside, monitor, quitting>>
    BY DEF StartExpires, W
  <1>g. /\ g \in Attempt /\ g = pendingStart /\ op[g].worker # "taken" /\ start \in {0, g}
        /\ g # 0 /\ endpoint = 0 /\ ingress = 0 /\ ~op[g].settled /\ op[g].worker # "none"
    BY <1>1 DEF Inv, Pending, TypeOK, Attempt
  <1>s. status.state = "starting" => start = g /\ status.generation = op[g].generation
    BY DEF Inv, StartingIsOurs, g
  <1>. HIDE DEF g
  <1>2. /\ op' \in [Attempt -> Operation] /\ \A h \in Attempt \ {g} : op'[h] = op[h]
        /\ op'[g].disposer = "waiting" /\ op'[g].worker = op[g].worker
        /\ op'[g].settled = op[g].settled /\ op'[g].failed = op[g].failed
    BY <1>1, <1>g, <1>t, ExpiredSteps
  <1>3. /\ status' \in Status /\ status'.state # "starting" /\ status'.generation = status.generation
        /\ status' = status \/ status'.state = "failed"
    <2>1. Failed \in Status /\ Failed.state = "failed" /\ Failed.generation = status.generation
      BY <1>t DEF Failed, Status, LifecycleState
    <2>. QED  BY <1>1, <1>s, <1>t, <2>1
  <1>4. /\ call' \in [Caller -> Call] /\ call'["quit"] = call["quit"]
        /\ call'["window"].at = "idle" /\ call'["window"].kind = "none"
        /\ call'["window"].endpoint = 0 /\ call'["window"].ingress = 0 /\ call'["window"].pending = 0
        /\ reconfigure' \in {0, reconfigure}
    BY <1>1, <1>w, <1>t, AnswerSteps
  <1>5. start' = 0
    BY <1>1, <1>g DEF Complete
  <1>6. /\ \A h \in Attempt : /\ Running(h)' = Running(h) /\ Live(h)' = Live(h) /\ Made(h)' = Made(h)
                              /\ op'[h].settled = op[h].settled /\ op'[h].worker = op[h].worker
        /\ Quiet => Quiet'
    <2>1. \A h \in Attempt : op'[h].settled = op[h].settled /\ op'[h].worker = op[h].worker /\ op'[h].failed = op[h].failed
      BY <1>2
    <2>. QED  BY <1>1, <1>g, <2>1 DEF Running, Live, Made, Quiet, Dud, outside
  <1>7. TypeOK'
    <2>1. reconfigure' \in Nat
      BY <1>t, <1>4
    <2>. QED  BY <1>1, <1>2, <1>3, <1>4, <1>5, <2>1 DEF Inv, TypeOK, outside
  <1>8. Places'
    BY <1>1, <1>4 DEF Inv, Places, W, Q, WindowPlaces, Changing
  <1>9. Pending'
    <2>1. ASSUME NEW h \in Attempt
          PROVE  /\ (op'[h].worker # "none" /\ ~op'[h].settled) <=> h = g
                 /\ op'[h].settled => op'[h].worker \in {"sent", "taken"}
                 /\ op'[h].disposer # "none" => h = g
                 /\ op'[h].disposer = "waiting" => op'[h].worker # "taken"
                 /\ op'[h].disposer = "closing" => op'[h].worker = "taken"
                 /\ Made(h)'
      BY <1>2, <1>6, <1>g DEF Inv, Pending
    <2>. QED  BY <1>1, <1>4, <1>5, <1>g, <2>1 DEF Pending, W
  <1>10. Owned'
    <2>1. \A p \in Caller : call[p].pending \in Attempt \cup {0} /\ call[p].endpoint \in Attempt \cup {0}
                            /\ call[p].ingress \in Attempt \cup {0}
      BY <1>t, CallFields
    <2>2. \A p \in Caller :
            /\ call'[p].endpoint # 0 => op'[call'[p].endpoint].settled
            /\ call'[p].ingress # 0 => op'[call'[p].ingress].settled
            /\ call'[p].pending # 0 => op'[call'[p].pending].worker # "none"
      BY <1>w, <1>4, <1>6, <2>1 DEF Inv, Owned
    <2>. QED  BY <1>1, <1>6, <1>g, <2>2 DEF Inv, Owned, outside
  <1>11. ASSUME NEW p \in Caller
         PROVE  Taken(p)'
    <2>1. CASE p = "quit"
      <3>1. Taken(p)
        BY DEF Inv
      <3>2. call'[p] = call[p]
        BY <1>4, <2>1
      <3>3. call[p].endpoint \in Attempt \cup {0} /\ call[p].ingress \in Attempt \cup {0}
        BY <1>t, CallFields
      <3>. QED  BY <1>1, <1>3, <1>6, <3>1, <3>2, <3>3 DEF Taken, Holds, outside
    <2>2. CASE p = "window"
      BY <1>4, <2>2 DEF Taken, Open, Changing
    <2>. QED  BY <1>w, <2>1, <2>2
  <1>12. StartingIsOurs'
    BY <1>3 DEF StartingIsOurs
  <1>13. ReadyIsHeld'
    BY <1>3, <1>g DEF Inv, ReadyIsHeld
  <1>14. DisabledIsQuiet'
    BY <1>3, <1>6 DEF Inv, DisabledIsQuiet
  <1>15. PresenceIsRead'
    BY <1>1, <1>4 DEF Inv, PresenceIsRead, Readings, W, Changing, outside
  <1>16. CommitIsCurrent'
    BY <1>4 DEF CommitIsCurrent, W, Changing
  <1>. QED  BY <1>7, <1>8, <1>9, <1>10, <1>11, <1>12, <1>13, <1>14, <1>15, <1>16 DEF Inv

-----------------------------------------------------------------------------
(* Somebody closes what has settled, and the manager may forget it.        *)
LEMMA ClosingRuntimes ==
  ASSUME Inv, NEW e \in Attempt \cup {0}, NEW i \in Attempt \cup {0}, NEW ok \in BOOLEAN,
         CloseRuntime(e, i, ok), e # 0 => op[e].settled, i # 0 => op[i].settled,
         endpoint' = endpoint \/ (ok /\ endpoint = e /\ endpoint' = 0),
         ingress' = ingress \/ (ok /\ ingress = i /\ ingress' = 0),
         UNCHANGED <<start, pendingStart, stored, op, quitting>>,
         monitor' \in [Attempt -> {"none", "watching", "closing", "ended"}],
         \A g \in Attempt : monitor'[g] # "none" => monitor[g] # "none",
         call'["window"].at \in {"select", "discard"} => call'["window"] = W,
         \A p \in Caller :
           /\ call'[p].endpoint \in {0, call[p].endpoint} /\ call'[p].ingress \in {0, call[p].ingress}
           /\ call'[p].pending \in {0, call[p].pending}
  PROVE  /\ tunnel' \in [Attempt -> {"none", "open", "dead", "closed"}]
         /\ gate' \in [Attempt -> Gate]
         /\ endpoint' \in Attempt \cup {0} /\ ingress' \in Attempt \cup {0}
         /\ \A g \in Attempt : /\ Running(g)' => Running(g) /\ ~(ok /\ g = e)
                               /\ gate'[g].at = gate[g].at \/ (g = i /\ gate'[g].at \in {"closed", "stuck"})
                               /\ g = i => gate'[g].at \notin {"deny", "admit"}
         /\ Quiet => Quiet'
         /\ Pending' /\ Owned'
  <1>1. /\ tunnel' \in [Attempt -> {"none", "open", "dead", "closed"}]
        /\ gate' \in [Attempt -> Gate]
        /\ \A g \in Attempt :
              /\ tunnel'[g] \in {tunnel[g], "closed"} /\ (tunnel[g] = "none" => tunnel'[g] = "none")
              /\ g # e => tunnel'[g] = tunnel[g]
              /\ gate'[g].password = gate[g].password
              /\ gate'[g].at = gate[g].at \/ (g = i /\ gate[g].at \in {"deny", "admit"} /\ gate'[g].at \in {"closed", "stuck"})
              /\ g = i => gate'[g].at \notin {"deny", "admit"}
              /\ ok /\ g = e => tunnel'[g] \in {"none", "closed"}
    <2>1. gate \in [Attempt -> Gate] /\ tunnel \in [Attempt -> {"none", "open", "dead", "closed"}]
      BY DEF Inv, TypeOK
    <2>. QED  BY <2>1, CloseRuntimeLemma
  <1>2. endpoint' \in Attempt \cup {0} /\ ingress' \in Attempt \cup {0}
    BY DEF Inv, TypeOK
  <1>3. \A g \in Attempt : /\ Running(g)' => Running(g) /\ ~(ok /\ g = e)
                           /\ ~op[g].settled => Running(g)' = Running(g) /\ gate'[g].at = gate[g].at
                                                /\ tunnel'[g] = tunnel[g]
    BY <1>1, 0 \notin Attempt DEF Running, Attempt
  <1>4. Quiet => Quiet'
    BY <1>1 DEF Quiet, Dud, Inv, TypeOK, Attempt
  <1>5. Pending'
    <2>1. ASSUME NEW g \in Attempt
          PROVE  Made(g)'
      <3>1. CASE op[g].settled
        BY <1>1, <3>1 DEF Inv, Pending, Made
      <3>2. CASE ~op[g].settled
        BY <1>1, <1>3, <3>2 DEF Inv, Pending, Made
      <3>. QED  BY <3>1, <3>2
    <2>. QED  BY <2>1 DEF Inv, Pending, W
  <1>6. Owned'
    <2>1. ASSUME NEW g \in Attempt
          PROVE  /\ Running(g)' => endpoint' = g \/ pendingStart = g
                 /\ gate'[g].at \in {"deny", "admit"} => ingress' = g \/ pendingStart = g
                 /\ gate'[g].at = "admit" => gate'[g].password = stored["password"]
                 /\ monitor'[g] # "none" => op[g].settled
      BY <1>1, <1>3, 0 \notin Attempt DEF Inv, Owned, Attempt
    <2>2. \A p \in Caller :
            /\ call'[p].endpoint # 0 => op[call'[p].endpoint].settled
            /\ call'[p].ingress # 0 => op[call'[p].ingress].settled
            /\ call'[p].pending # 0 => op[call'[p].pending].worker # "none"
      BY DEF Inv, Owned
    <2>. QED  BY <2>1, <2>2 DEF Inv, Owned
  <1>. QED  BY <1>1, <1>2, <1>3, <1>4, <1>5, <1>6

LEMMA Closing ==
  ASSUME Inv, Places', NEW e \in Attempt \cup {0}, NEW i \in Attempt \cup {0}, NEW ok \in BOOLEAN,
         CloseRuntime(e, i, ok), e # 0 => op[e].settled, i # 0 => op[i].settled,
         endpoint' = endpoint \/ (ok /\ endpoint = e /\ endpoint' = 0),
         ingress' = ingress \/ (ok /\ ingress = i /\ ingress' = 0),
         UNCHANGED <<prefs, presence, start, pendingStart, stop, disk, stored, op, quitting>>,
         cleanup' \in Attempt \cup {0}, reconfigure' \in Nat, call' \in [Caller -> Call],
         monitor' \in [Attempt -> {"none", "watching", "closing", "ended"}],
         \A g \in Attempt : monitor'[g] # "none" => monitor[g] # "none",
         status' = status \/ (status' \in Status /\ status'.state = "failed"),
         status.state = "starting" => call'["window"] = W,
         status.state = "ready" => /\ UNCHANGED call /\ endpoint \notin {e, i}
                                   /\ monitor'[endpoint] = monitor[endpoint],
         call'["window"] = W \/ call'["window"].at \notin {"select", "discard"} \cup (Changing \ {"provider"}),
         W.at \in Changing \ {"provider"} => call'["window"] = W,
         \A p \in Caller :
           /\ call'[p].endpoint \in {0, call[p].endpoint} /\ call'[p].ingress \in {0, call[p].ingress}
           /\ call'[p].pending \in {0, call[p].pending}
           /\ call'[p] = call[p] \/ Taken(p)',
         CommitIsCurrent'
  PROVE  Inv'
  <1>1. /\ tunnel' \in [Attempt -> {"none", "open", "dead", "closed"}]
        /\ gate' \in [Attempt -> Gate]
        /\ endpoint' \in Attempt \cup {0} /\ ingress' \in Attempt \cup {0}
        /\ \A g \in Attempt : /\ Running(g)' => Running(g) /\ ~(ok /\ g = e)
                              /\ gate'[g].at = gate[g].at \/ (g = i /\ gate'[g].at \in {"closed", "stuck"})
                              /\ g = i => gate'[g].at \notin {"deny", "admit"}
        /\ Quiet => Quiet'
        /\ Pending' /\ Owned'
    BY ClosingRuntimes, ZenonT(60)
  <1>2. TypeOK'
    BY <1>1 DEF Inv, TypeOK
  <1>3. ASSUME NEW p \in Caller
        PROVE  Taken(p)'
    <2>1. CASE call'[p] = call[p]
      <3>1. Taken(p)
        BY DEF Inv
      <3>2. call[p].endpoint \in Attempt \cup {0} /\ call[p].ingress \in Attempt \cup {0}
        BY CallFields DEF Inv, TypeOK
      <3>3. Holds(p) => Holds(p)'
        BY <2>1 DEF Holds
      <3>4. status.state # "starting" => status'.state # "starting"
        OBVIOUS
      <3>5. Quiet => Quiet'
        BY <1>1
      <3>6. call[p].endpoint # 0 /\ ~Running(call[p].endpoint) => ~Running(call[p].endpoint)'
        BY <1>1, <2>1, <3>2 DEF Running
      <3>7. call[p].ingress # 0 /\ gate[call[p].ingress].at \notin {"deny", "admit"} =>
              gate'[call[p].ingress].at \notin {"deny", "admit"}
        BY <1>1, <3>2
      <3>8. endpoint = 0 /\ ingress = 0 => endpoint' = 0 /\ ingress' = 0
        OBVIOUS
      <3>. HIDE DEF Quiet, Holds, Running
      <3>. QED  BY <2>1, <3>1, <3>3, <3>4, <3>5, <3>6, <3>7, <3>8 DEF Taken, Running
    <2>. QED  BY <2>1
  <1>4. StartingIsOurs'
    BY DEF Inv, StartingIsOurs, W
  <1>5. ReadyIsHeld'
    <2>1. CASE status'.state # "ready"
      BY <2>1 DEF ReadyIsHeld, ReadyIsServed
    <2>2. CASE status'.state = "ready"
      <3>1. /\ status' = status /\ status.state = "ready" /\ UNCHANGED call /\ endpoint \notin {e, i}
            /\ monitor'[endpoint] = monitor[endpoint]
        BY <2>2
      <3>2. /\ ReadyIsServed /\ pendingStart = 0 /\ endpoint # 0 /\ ingress = endpoint
            /\ endpoint \in Attempt
        BY <3>1 DEF Inv, TypeOK, ReadyIsHeld, ReadyIsServed
      <3>3. endpoint' = endpoint /\ ingress' = ingress
        BY <3>1, <3>2
      <3>4. tunnel'[endpoint] = tunnel[endpoint] /\ gate'[endpoint].at = gate[endpoint].at
        BY <3>1, <3>2, CloseRuntimeLemma DEF Inv, TypeOK
      <3>. QED
        BY <3>1, <3>2, <3>3, <3>4 DEF Inv, ReadyIsHeld, ReadyIsServed, W, Q
    <2>. QED  BY <2>1, <2>2
  <1>6. DisabledIsQuiet'
    <2>1. \A g \in Attempt : ~Live(g) => ~Live(g)'
      BY <1>1 DEF Live, Running
    <2>. QED  BY <1>1, <2>1 DEF Inv, DisabledIsQuiet
  <1>7. PresenceIsRead'
    BY DEF Inv, PresenceIsRead, Readings, W, Changing
  <1>. QED  BY <1>1, <1>2, <1>3, <1>4, <1>5, <1>6, <1>7 DEF Inv

LEMMA ClosingKeeps ==
  ASSUME Inv, NEW p \in Caller, NEW ok \in BOOLEAN,
         \/ RetainedClosed("window", ok) \/ StopCloses(p, ok)
         \/ ReconfigureCloses("window", ok) \/ \E g \in Attempt : MonitorCloses(g, ok)
  PROVE  Inv'
  <1>w. Caller = {"window", "quit"}
    BY DEF Caller
  <1>t. /\ call \in [Caller -> Call] /\ status \in Status /\ reconfigure \in Nat /\ prefs \in Nat
        /\ cleanup \in Attempt \cup {0} /\ monitor \in [Attempt -> {"none", "watching", "closing", "ended"}]
    BY DEF Inv, TypeOK
  <1>f. \A q \in Caller : /\ call[q].endpoint \in Attempt \cup {0} /\ call[q].ingress \in Attempt \cup {0}
                          /\ call[q].endpoint # 0 => op[call[q].endpoint].settled
                          /\ call[q].ingress # 0 => op[call[q].ingress].settled
                          /\ call[q].generation \in Nat
    BY <1>t, CallFields DEF Inv, Owned
  <1>1. CASE RetainedClosed("window", ok)
    <2>. DEFINE e == W.endpoint
                i == W.ingress
    <2>1. /\ W.at = "retained" /\ CloseRuntime(e, i, ok)
          /\ UNCHANGED <<prefs, presence, start, pendingStart, cleanup, stop, disk, stored, op, monitor, quitting>>
          /\ \/ ok /\ Forget(e, i) /\ Moves("window", "start") /\ UNCHANGED <<status, reconfigure>>
             \/ status' = Failed /\ Answer("window", FALSE) /\ UNCHANGED <<endpoint, ingress>>
      BY <1>1 DEF RetainedClosed, W
    <2>2. /\ call' \in [Caller -> Call] /\ call'["quit"] = call["quit"]
          /\ call'["window"].at \in {"start", "idle"} /\ call'["window"].kind \in {W.kind, "none"}
          /\ call'["window"].at = "idle" => call'["window"].kind = "none"
          /\ call'["window"].endpoint \in {0, e} /\ call'["window"].ingress \in {0, i}
          /\ call'["window"].pending \in {0, W.pending} /\ reconfigure' \in {0, reconfigure}
          /\ call'["window"].kind # "none" => reconfigure' = reconfigure
      <3>1. CASE Moves("window", "start") /\ UNCHANGED reconfigure
        BY <1>w, <1>t, <3>1, MovesSteps DEF Place, W
      <3>2. CASE Answer("window", FALSE)
        BY <1>w, <1>t, <3>2, AnswerSteps DEF W
      <3>. QED  BY <2>1, <3>1, <3>2
    <2>3. status' = status \/ (status' \in Status /\ status'.state = "failed")
      BY <1>t, <2>1 DEF Failed, Status, LifecycleState
    <2>4. Places'
      BY <2>1, <2>2 DEF Inv, Places, W, Q, WindowPlaces, Changing
    <2>5. status.state \notin {"starting", "ready"}
      BY <2>1 DEF Inv, StartingIsOurs, ReadyIsHeld
    <2>6. \A q \in Caller : call'[q] = call[q] \/ Taken(q)'
      BY <1>w, <2>2 DEF Taken, Open, Changing
    <2>7. CommitIsCurrent'
      BY <2>2 DEF CommitIsCurrent, W, Changing
    <2>8. /\ endpoint' = endpoint \/ (ok /\ endpoint = e /\ endpoint' = 0)
          /\ ingress' = ingress \/ (ok /\ ingress = i /\ ingress' = 0)
      BY <2>1 DEF Forget
    <2>9. reconfigure' \in Nat /\ W.at \notin Changing /\ call'["window"].at \notin {"select", "discard"} \cup Changing
      BY <1>t, <2>1, <2>2 DEF Changing
    <2>10. /\ e \in Attempt \cup {0} /\ i \in Attempt \cup {0}
           /\ (e # 0 => op[e].settled) /\ (i # 0 => op[i].settled)
           /\ \A q \in Caller : /\ call'[q].endpoint \in {0, call[q].endpoint}
                                /\ call'[q].ingress \in {0, call[q].ingress}
                                /\ call'[q].pending \in {0, call[q].pending}
      BY <1>w, <1>f, <2>2 DEF W
    <2>11. /\ UNCHANGED <<prefs, presence, start, pendingStart, stop, disk, stored, op, quitting>>
           /\ cleanup' \in Attempt \cup {0}
           /\ monitor' \in [Attempt -> {"none", "watching", "closing", "ended"}]
           /\ \A h \in Attempt : monitor'[h] # "none" => monitor[h] # "none"
      BY <1>t, <2>1
    <2>12. CloseRuntime(e, i, ok)
      BY <2>1
    <2>. HIDE DEF e, i
    <2>13. /\ status.state = "starting" => call'["window"] = W
           /\ status.state = "ready" => /\ UNCHANGED call /\ endpoint \notin {e, i}
                                   /\ monitor'[endpoint] = monitor[endpoint]
           /\ call'["window"] = W \/ call'["window"].at \notin {"select", "discard"} \cup (Changing \ {"provider"})
           /\ W.at \in Changing \ {"provider"} => call'["window"] = W
      BY <2>5, <2>9
    <2>14. \A q \in Caller :
           /\ call'[q].endpoint \in {0, call[q].endpoint} /\ call'[q].ingress \in {0, call[q].ingress}
           /\ call'[q].pending \in {0, call[q].pending}
           /\ call'[q] = call[q] \/ Taken(q)'
      BY <2>6, <2>10
    <2>15. call' \in [Caller -> Call] /\ reconfigure' \in Nat
      BY <2>2, <2>9
    <2>16. e \in Attempt \cup {0} /\ i \in Attempt \cup {0} /\ (e # 0 => op[e].settled) /\ (i # 0 => op[i].settled)
      BY <2>10
    <2>. QED  BY <2>3, <2>4, <2>7, <2>8, <2>11, <2>12, <2>13, <2>14, <2>15, <2>16, Closing
  <1>2. CASE StopCloses(p, ok)
    <2>. DEFINE e == call[p].endpoint
                i == call[p].ingress
    <2>1. /\ call[p].at = "closing" /\ call[p].kind = "stop" /\ CloseRuntime(e, i, ok)
          /\ UNCHANGED <<manager, disk, stored, op, monitor, quitting>>
      BY <1>2 DEF StopCloses
    <2>2. /\ call' \in [Caller -> Call] /\ \A q \in Caller \ {p} : call'[q] = call[q]
          /\ call'[p].at = "stopped" /\ call'[p].kind = "stop" /\ call'[p].failed = ~ok
          /\ call'[p].endpoint = e /\ call'[p].ingress = i /\ call'[p].pending = call[p].pending
      <3>1. call' = [call EXCEPT ![p] = [call[p] EXCEPT !.at = "stopped", !.failed = ~ok]]
        BY <1>2 DEF StopCloses
      <3>2. ASSUME NEW c \in Call
            PROVE  LET d == [c EXCEPT !.at = "stopped", !.failed = ~ok] IN
                   /\ d \in Call /\ d.at = "stopped" /\ d.kind = c.kind /\ d.failed = ~ok
                   /\ d.endpoint = c.endpoint /\ d.ingress = c.ingress /\ d.pending = c.pending
        BY DEF Call, Place
      <3>. QED  BY <1>t, <2>1, <3>1, <3>2
    <2>3. e \in Attempt \cup {0} /\ i \in Attempt \cup {0} /\ (e # 0 => op[e].settled) /\ (i # 0 => op[i].settled)
      BY <1>f
    <2>4. Places'
      <3>1. CASE p = "window"
        BY <3>1, <1>w, <2>1, <2>2 DEF Inv, Places, W, Q, WindowPlaces, Changing, manager
      <3>2. CASE p = "quit"
        BY <3>2, <1>w, <2>1, <2>2 DEF Inv, Places, W, Q, QuitPlaces, Changing, manager
      <3>. QED  BY <1>w, <3>1, <3>2
    <2>5. status.state # "ready" /\ (status.state = "starting" => p # "window")
      BY <1>w, <2>1 DEF Inv, StartingIsOurs, ReadyIsHeld, W, Q, Open
    <2>6. Taken(p)'
      <3>1. Quiet /\ Holds(p)
        BY <2>1 DEF Inv, Taken
      <3>2. /\ Quiet'
            /\ \A h \in Attempt : /\ Running(h)' => Running(h) /\ ~(ok /\ h = e)
                                  /\ h = i => gate'[h].at \notin {"deny", "admit"}
        <4>1. /\ call'["window"].at \in {"select", "discard"} => call'["window"] = W
              /\ \A q \in Caller :
                   /\ call'[q].endpoint \in {0, call[q].endpoint} /\ call'[q].ingress \in {0, call[q].ingress}
                   /\ call'[q].pending \in {0, call[q].pending}
          BY <1>w, <2>2 DEF W
        <4>2. /\ UNCHANGED <<endpoint, ingress, start, pendingStart, stored, op, quitting>>
              /\ monitor' \in [Attempt -> {"none", "watching", "closing", "ended"}]
              /\ \A h \in Attempt : monitor'[h] # "none" => monitor[h] # "none"
              /\ CloseRuntime(e, i, ok)
          BY <1>t, <2>1 DEF manager
        <4>. HIDE DEF e, i
        <4>. QED  BY <2>3, <3>1, <4>1, <4>2, ClosingRuntimes
      <3>3. Holds(p)'
        BY <2>1, <2>2, <3>1 DEF Holds, manager
      <3>4. /\ ok /\ e # 0 => tunnel'[e] \notin {"open", "dead"}
            /\ i # 0 => gate'[i].at \notin {"deny", "admit"}
        BY <2>3, <3>2 DEF Running
      <3>. QED  BY <2>2, <3>2, <3>3, <3>4 DEF Taken, Open, Changing, Running
    <2>7. CommitIsCurrent'
      BY <1>w, <2>1, <2>2 DEF Inv, CommitIsCurrent, W, Q, Open, Changing, manager
    <2>8. call'["window"] = W \/ (p = "window" /\ call'["window"].at = "stopped" /\ W.at = "closing")
      BY <1>w, <2>1, <2>2 DEF W
    <2>9. \A q \in Caller : /\ call'[q].endpoint \in {0, call[q].endpoint}
                            /\ call'[q].ingress \in {0, call[q].ingress}
                            /\ call'[q].pending \in {0, call[q].pending}
                            /\ call'[q] = call[q] \/ Taken(q)'
      BY <2>2, <2>6
    <2>. HIDE DEF e, i
    <2>. QED  BY <1>t, <2>1, <2>2, <2>3, <2>4, <2>5, <2>7, <2>8, <2>9, Closing DEF Changing, manager
  <1>3. CASE ReconfigureCloses("window", ok)
    <2>. DEFINE e == W.endpoint
                i == W.ingress
    <2>1. /\ W.at = "closing" /\ W.kind = "reconfigure" /\ CloseRuntime(e, i, ok)
          /\ UNCHANGED <<prefs, presence, start, pendingStart, cleanup, stop, disk, stored, op, monitor, quitting>>
          /\ \/ ok /\ Forget(e, i) /\ Moves("window", "provider") /\ UNCHANGED <<status, reconfigure>>
             \/ /\ status' = [state |-> "failed", generation |-> W.generation, revision |-> prefs]
                /\ Answer("window", FALSE) /\ UNCHANGED <<endpoint, ingress>>
      BY <1>3 DEF ReconfigureCloses, FailsReconfigure, W
    <2>2. /\ call' \in [Caller -> Call] /\ call'["quit"] = call["quit"]
          /\ \/ /\ call'["window"].at = "provider" /\ call'["window"].kind = W.kind
                /\ call'["window"].generation = W.generation /\ reconfigure' = reconfigure
                /\ ok /\ Forget(e, i) /\ UNCHANGED status
             \/ call'["window"].at = "idle" /\ call'["window"].kind = "none" /\ reconfigure' = 0
          /\ call'["window"].endpoint \in {0, e} /\ call'["window"].ingress \in {0, i}
          /\ call'["window"].pending \in {0, W.pending}
      <3>1. CASE ok /\ Forget(e, i) /\ Moves("window", "provider") /\ UNCHANGED <<status, reconfigure>>
        BY <1>w, <1>t, <3>1, MovesSteps DEF Place, W
      <3>2. CASE Answer("window", FALSE)
        BY <1>w, <1>t, <2>1, <3>2, AnswerSteps DEF W
      <3>. QED  BY <2>1, <3>1, <3>2
    <2>3. status' = status \/ (status' \in Status /\ status'.state = "failed")
      <3>1. W.generation \in Nat
        BY <1>w, <1>f DEF W
      <3>2. [state |-> "failed", generation |-> W.generation, revision |-> prefs] \in Status
        BY <1>t, <3>1 DEF Status, LifecycleState
      <3>3. status' = status \/ status' = [state |-> "failed", generation |-> W.generation, revision |-> prefs]
        BY <2>1
      <3>. QED  BY <3>2, <3>3
    <2>4. Places'
      BY <2>1, <2>2 DEF Inv, Places, W, Q, WindowPlaces, Changing
    <2>5. status.state \notin {"starting", "ready"}
      BY <2>1 DEF Inv, StartingIsOurs, ReadyIsHeld, Open
    <2>6. e \in Attempt \cup {0} /\ i \in Attempt \cup {0} /\ (e # 0 => op[e].settled) /\ (i # 0 => op[i].settled)
      BY <1>w, <1>f DEF W
    <2>7. /\ endpoint' = endpoint \/ (ok /\ endpoint = e /\ endpoint' = 0)
          /\ ingress' = ingress \/ (ok /\ ingress = i /\ ingress' = 0)
      BY <2>1 DEF Forget
    <2>8. \A q \in Caller : /\ call'[q].endpoint \in {0, call[q].endpoint}
                            /\ call'[q].ingress \in {0, call[q].ingress}
                            /\ call'[q].pending \in {0, call[q].pending}
      BY <1>w, <2>2 DEF W
    <2>9. /\ reconfigure' \in Nat /\ W.at \notin Changing
          /\ call'["window"].at \notin {"select", "discard"} \cup (Changing \ {"provider"})
      BY <1>t, <2>1, <2>2 DEF Changing
    <2>10. Taken("window")'
      <3>1. Quiet /\ Holds("window")
        BY <1>w, <2>1 DEF Inv, Taken, W
      <3>2. Quiet'
        <4>1. call'["window"].at \in {"select", "discard"} => call'["window"] = W
          BY <2>9
        <4>. HIDE DEF e, i
        <4>. QED  BY <1>t, <2>1, <2>6, <2>7, <2>8, <3>1, <4>1, ClosingRuntimes
      <3>. QED  BY <2>2, <3>1, <3>2 DEF Taken, Holds, Forget, Open, Changing, W
    <2>11. CommitIsCurrent'
      BY <2>1, <2>2 DEF Inv, CommitIsCurrent, W, Q, Changing
    <2>12. \A q \in Caller : call'[q] = call[q] \/ Taken(q)'
      BY <1>w, <2>2, <2>10
    <2>13. /\ UNCHANGED <<prefs, presence, start, pendingStart, stop, disk, stored, op, quitting>>
           /\ cleanup' \in Attempt \cup {0}
           /\ monitor' \in [Attempt -> {"none", "watching", "closing", "ended"}]
           /\ \A h \in Attempt : monitor'[h] # "none" => monitor[h] # "none"
           /\ call' \in [Caller -> Call] /\ CloseRuntime(e, i, ok)
      BY <1>t, <2>1, <2>2
    <2>. HIDE DEF e, i
    <2>14. /\ call'["window"] = W \/ call'["window"].at \notin {"select", "discard"} \cup (Changing \ {"provider"})
           /\ W.at \in Changing \ {"provider"} => call'["window"] = W
      BY <2>9
    <2>15. \A q \in Caller : /\ call'[q].endpoint \in {0, call[q].endpoint}
                             /\ call'[q].ingress \in {0, call[q].ingress}
                             /\ call'[q].pending \in {0, call[q].pending}
                             /\ call'[q] = call[q] \/ Taken(q)'
      BY <2>8, <2>12
    <2>16. reconfigure' \in Nat
      BY <2>9
    <2>17. /\ status.state = "starting" => call'["window"] = W
           /\ status.state = "ready" => /\ UNCHANGED call /\ endpoint \notin {e, i}
                                        /\ monitor'[endpoint] = monitor[endpoint]
      BY <2>5
    <2>. QED  BY <2>3, <2>4, <2>6, <2>7, <2>11, <2>13, <2>14, <2>15, <2>16, <2>17, Closing
  <1>4. ASSUME NEW g \in Attempt, MonitorCloses(g, ok)
        PROVE  Inv'
    <2>1. /\ monitor[g] = "closing" /\ CloseRuntime(g, g, ok)
          /\ IF ok THEN Forget(g, g) ELSE UNCHANGED <<endpoint, ingress>>
          /\ cleanup' = IF cleanup = g THEN 0 ELSE cleanup
          /\ monitor' = [monitor EXCEPT ![g] = "ended"]
          /\ UNCHANGED <<prefs, presence, status, start, pendingStart, stop, reconfigure,
                         disk, stored, op, call, quitting>>
      BY <1>4 DEF MonitorCloses
    <2>2. op[g].settled
      BY <2>1 DEF Inv, Owned
    <2>3. Places'
      BY <2>1 DEF Inv, Places, W, Q
    <2>4. status.state = "ready" => endpoint # g /\ monitor'[endpoint] = monitor[endpoint]
      BY <1>t, <2>1 DEF Inv, ReadyIsHeld
    <2>5. /\ endpoint' = endpoint \/ (ok /\ endpoint = g /\ endpoint' = 0)
          /\ ingress' = ingress \/ (ok /\ ingress = g /\ ingress' = 0)
      BY <2>1 DEF Forget
    <2>6. CommitIsCurrent'
      BY <2>1 DEF Inv, CommitIsCurrent, W, Q
    <2>7. /\ cleanup' \in Attempt \cup {0}
          /\ monitor' \in [Attempt -> {"none", "watching", "closing", "ended"}]
          /\ \A h \in Attempt : monitor'[h] # "none" => monitor[h] # "none"
      BY <1>t, <2>1
    <2>. QED  BY <1>t, <2>1, <2>2, <2>3, <2>4, <2>5, <2>6, <2>7, Closing DEF W
  <1>. QED  BY <1>1, <1>2, <1>3, <1>4

-----------------------------------------------------------------------------
(* The manager denies what it holds, cancels the start in progress or      *)
(* states a new intent, and a caller captures what there is.               *)
LEMMA CancelSteps ==
  ASSUME op \in [Attempt -> Operation], start \in Attempt \cup {0}
  PROVE  /\ Cancel \in [Attempt -> Operation]
         /\ \A g \in Attempt :
              /\ Cancel[g].worker = op[g].worker /\ Cancel[g].settled = op[g].settled
              /\ Cancel[g].failed = op[g].failed /\ Cancel[g].disposer = op[g].disposer
              /\ Cancel[g].generation = op[g].generation /\ Cancel[g].revision = op[g].revision
  <1>1. ASSUME NEW o \in Operation
        PROVE  LET d == [o EXCEPT !.cancelled = TRUE] IN
               /\ d \in Operation /\ d.worker = o.worker /\ d.settled = o.settled
               /\ d.failed = o.failed /\ d.disposer = o.disposer
               /\ d.generation = o.generation /\ d.revision = o.revision
    BY DEF Operation
  <1>2. Cancel = IF start # 0 THEN [op EXCEPT ![start] = [op[start] EXCEPT !.cancelled = TRUE]] ELSE op
    BY DEF Cancel
  <1>. QED  BY <1>1, <1>2

LEMMA Denying ==
  ASSUME Inv, Places', op' \in [Attempt -> Operation], gate' \in [Attempt -> Gate],
         \A g \in Attempt :
           /\ op'[g].worker = op[g].worker /\ op'[g].settled = op[g].settled
           /\ op'[g].failed = op[g].failed /\ op'[g].disposer = op[g].disposer
           /\ gate'[g].password = gate[g].password
           /\ gate'[g].at = gate[g].at \/ (g = ingress /\ gate[g].at = "admit" /\ gate'[g].at = "deny"),
         UNCHANGED <<prefs, presence, endpoint, ingress, start, pendingStart, disk, stored, tunnel, quitting>>,
         cleanup' \in Attempt \cup {0}, stop' \in Caller \cup {None}, reconfigure' \in Nat,
         monitor' \in [Attempt -> {"none", "watching", "closing", "ended"}],
         \A g \in Attempt : monitor'[g] # "none" => monitor[g] # "none",
         \/ status' \in Status /\ status'.state \in {"stopping", "failed"}
         \/ /\ status' = status /\ op' = op /\ status.state # "ready"
            /\ status.state = "starting" => call'["window"] = W,
         call' \in [Caller -> Call],
         call'["window"] = W \/ call'["window"].at \notin {"select", "discard"} \cup (Changing \ {"provider"}),
         W.at \in Changing \ {"provider"} => call'["window"] = W,
         \A p \in Caller :
           /\ call'[p].endpoint \in {0, endpoint, call[p].endpoint}
           /\ call'[p].ingress \in {0, ingress, call[p].ingress}
           /\ call'[p].pending \in {0, pendingStart, call[p].pending},
         \A p \in Caller : call'[p] = call[p] \/ (Quiet' = Quiet => Taken(p)'),
         CommitIsCurrent'
  PROVE  Inv'
  <1>t. /\ ingress \in Attempt \cup {0} /\ pendingStart \in Attempt \cup {0} /\ endpoint \in Attempt \cup {0}
        /\ \A p \in Caller : /\ call[p].endpoint \in Attempt \cup {0} /\ call[p].ingress \in Attempt \cup {0}
                             /\ call[p].pending \in Attempt \cup {0}
    BY CallFields DEF Inv, TypeOK
  <1>1. \A g \in Attempt : /\ Running(g)' = Running(g) /\ Live(g)' = Live(g)
                           /\ gate'[g].at \in {"deny", "admit"} <=> gate[g].at \in {"deny", "admit"}
                           /\ gate'[g].at = "admit" => gate[g].at = "admit"
    BY DEF Running, Live
  <1>2. \A g \in Attempt : ~op[g].settled => gate'[g].at = gate[g].at
    BY <1>t, 0 \notin Attempt DEF Inv, Owned, Attempt
  <1>3. pendingStart # 0 => ingress = 0 /\ gate'[pendingStart].at = gate[pendingStart].at
    BY <1>t DEF Inv, Pending, Attempt
  <1>q. Quiet' = Quiet
    BY <1>t, <1>3 DEF Quiet, Dud
  <1>4. TypeOK'
    BY DEF Inv, TypeOK
  <1>5. Pending'
    <2>1. ASSUME NEW g \in Attempt
          PROVE  Made(g)'
      <3>1. CASE op[g].settled
        BY <1>1, <3>1 DEF Inv, Pending, Made
      <3>2. CASE ~op[g].settled
        BY <1>1, <1>2, <3>2 DEF Inv, Pending, Made
      <3>. QED  BY <3>1, <3>2
    <2>2. ASSUME NEW g \in Attempt
          PROVE  /\ (op'[g].worker # "none" /\ ~op'[g].settled) <=> g = pendingStart
                 /\ op'[g].settled => op'[g].worker \in {"sent", "taken"}
                 /\ op'[g].disposer # "none" => g = pendingStart /\ start = 0
                 /\ op'[g].disposer = "waiting" => op'[g].worker # "taken"
                 /\ op'[g].disposer = "closing" => op'[g].worker = "taken"
      BY DEF Inv, Pending
    <2>3. call'["window"].at \in {"select", "discard"} => call'["window"] = W
      OBVIOUS
    <2>4. W.attempt \in Attempt \cup {0}
      BY CallFields DEF Inv, TypeOK, W, Caller
    <2>. QED  BY <2>1, <2>2, <2>3, <2>4 DEF Inv, Pending, W
  <1>6. Owned'
    <2>1. ASSUME NEW g \in Attempt
          PROVE  /\ Running(g)' => endpoint = g \/ pendingStart = g
                 /\ gate'[g].at \in {"deny", "admit"} => ingress = g \/ pendingStart = g
                 /\ gate'[g].at = "admit" => gate'[g].password = stored["password"]
                 /\ monitor'[g] # "none" => op'[g].settled
      BY <1>1 DEF Inv, Owned
    <2>2. pendingStart # 0 => op[pendingStart].worker # "none"
      BY <1>t DEF Inv, Pending
    <2>3. \A p \in Caller :
            /\ call'[p].endpoint # 0 => op'[call'[p].endpoint].settled
            /\ call'[p].ingress # 0 => op'[call'[p].ingress].settled
            /\ call'[p].pending # 0 => op'[call'[p].pending].worker # "none"
      BY <1>t, <2>2 DEF Inv, Owned
    <2>. QED  BY <1>t, <2>1, <2>3 DEF Inv, Owned
  <1>7. ASSUME NEW p \in Caller
        PROVE  Taken(p)'
    <2>1. CASE call'[p] = call[p]
      <3>1. Taken(p)
        BY DEF Inv
      <3>2. status.state # "starting" => status'.state # "starting"
        OBVIOUS
      <3>3. Holds(p)' = Holds(p)
        BY <2>1 DEF Holds
      <3>4. /\ call[p].endpoint # 0 /\ ~Running(call[p].endpoint) => tunnel'[call[p].endpoint] \notin {"open", "dead"}
            /\ call[p].ingress # 0 /\ gate[call[p].ingress].at \notin {"deny", "admit"} =>
                 gate'[call[p].ingress].at \notin {"deny", "admit"}
        BY <1>t, <1>1 DEF Running
      <3>. HIDE DEF Quiet, Holds
      <3>. QED  BY <1>q, <2>1, <3>1, <3>2, <3>3, <3>4 DEF Taken, Running
    <2>. QED  BY <1>q, <2>1
  <1>8. StartingIsOurs'
    BY DEF Inv, StartingIsOurs, W
  <1>9. ReadyIsHeld'
    BY DEF ReadyIsHeld, ReadyIsServed
  <1>10. DisabledIsQuiet'
    BY <1>1, <1>q DEF Inv, DisabledIsQuiet
  <1>11. PresenceIsRead'
    BY DEF Inv, PresenceIsRead, Readings, W, Changing
  <1>. QED  BY <1>4, <1>5, <1>6, <1>7, <1>8, <1>9, <1>10, <1>11 DEF Inv

LEMMA CapturingKeeps ==
  ASSUME Inv, NEW p \in Caller,
         StartOverRetained("window") \/ StopSettled(p) \/ ReconfigureSettled("window")
  PROVE  Inv'
  <1>w. Caller = {"window", "quit"}
    BY DEF Caller
  <1>t. /\ call \in [Caller -> Call] /\ op \in [Attempt -> Operation] /\ gate \in [Attempt -> Gate]
        /\ endpoint \in Attempt \cup {0} /\ ingress \in Attempt \cup {0}
        /\ cleanup \in Attempt \cup {0} /\ stop \in Caller \cup {None} /\ reconfigure \in Nat
        /\ monitor \in [Attempt -> {"none", "watching", "closing", "ended"}]
    BY DEF Inv, TypeOK
  <1>d. \A g \in Attempt :
          /\ DenyHeld[g].password = gate[g].password
          /\ DenyHeld[g].at = gate[g].at \/ (g = ingress /\ gate[g].at = "admit" /\ DenyHeld[g].at = "deny")
    BY <1>t, DenyHeldLemma
  <1>1. CASE StartOverRetained("window")
    <2>1. /\ W.at = "start" /\ status.state # "ready"
          /\ gate' = DenyHeld
          /\ UNCHANGED <<manager, disk, stored, tunnel, op, monitor, quitting>>
      BY <1>1 DEF StartOverRetained, Starting, W
    <2>2. /\ call' \in [Caller -> Call] /\ call'["quit"] = call["quit"]
          /\ call'["window"].at = "retained" /\ call'["window"].kind = W.kind
          /\ call'["window"].endpoint = endpoint /\ call'["window"].ingress = ingress
          /\ call'["window"].pending = W.pending
      <3>1. call' = [call EXCEPT !["window"] =
                       [call["window"] EXCEPT !.at = "retained", !.endpoint = endpoint, !.ingress = ingress]]
        BY <1>1 DEF StartOverRetained
      <3>2. ASSUME NEW c \in Call
            PROVE  LET d == [c EXCEPT !.at = "retained", !.endpoint = endpoint, !.ingress = ingress] IN
                   /\ d \in Call /\ d.at = "retained" /\ d.endpoint = endpoint /\ d.ingress = ingress
                   /\ d.kind = c.kind /\ d.pending = c.pending
        BY <1>t DEF Call, Place
      <3>. QED  BY <1>w, <1>t, <3>1, <3>2 DEF W
    <2>3. Places'
      BY <2>1, <2>2 DEF Inv, Places, W, Q, WindowPlaces, Changing, manager
    <2>4. CommitIsCurrent'
      BY <2>2 DEF CommitIsCurrent, W, Changing
    <2>5. \A q \in Caller : call'[q] = call[q] \/ Taken(q)'
      BY <1>w, <2>2 DEF Taken, Open, Changing
    <2>6. /\ gate' \in [Attempt -> Gate] /\ status.state # "starting"
          /\ \A q \in Caller :
               /\ call'[q].endpoint \in {0, endpoint, call[q].endpoint}
               /\ call'[q].ingress \in {0, ingress, call[q].ingress}
               /\ call'[q].pending \in {0, pendingStart, call[q].pending}
      BY <1>w, <1>t, <2>1, <2>2, DenyHeldLemma DEF Inv, StartingIsOurs, W
    <2>7. W.at \notin Changing /\ call'["window"].at \notin {"select", "discard"} \cup Changing
      BY <2>1, <2>2 DEF Changing
    <2>. QED
      BY <1>d, <1>t, <2>1, <2>2, <2>3, <2>4, <2>5, <2>6, <2>7, Denying DEF manager
  <1>2. ASSUME NEW r \in Caller, NEW next \in {"stopped", "provider"},
               \/ StopSettled(r) /\ next = "stopped"
               \/ ReconfigureSettled("window") /\ r = "window" /\ next = "provider"
        PROVE  Inv'
    <2>. DEFINE e == RuntimeOf(r)[1]
                i == RuntimeOf(r)[2]
                x == IF RuntimeOf(r) = <<0, 0>> THEN next ELSE "closing"
    <2>1. /\ call[r].at = "settling" /\ Settled(r) /\ RuntimeTaken(r, next, "closing")
          /\ call[r].kind = IF next = "stopped" THEN "stop" ELSE "reconfigure"
          /\ UNCHANGED <<manager, disk, stored, tunnel, op, monitor, quitting>>
      BY <1>2 DEF StopSettled, ReconfigureSettled
    <2>2. /\ call[r].endpoint \in Attempt \cup {0} /\ call[r].ingress \in Attempt \cup {0}
          /\ call[r].pending \in Attempt \cup {0}
      BY <1>t, CallFields
    <2>3. /\ e \in Attempt \cup {0} /\ i \in Attempt \cup {0}
          /\ e \in {endpoint, call[r].endpoint} /\ i \in {ingress, call[r].ingress}
          /\ x \in {"closing", next} /\ (x = next => e = 0 /\ i = 0)
          /\ call[r].endpoint = 0 /\ call[r].ingress = 0 => e = endpoint /\ i = ingress
          /\ ~(call[r].endpoint = 0 /\ call[r].ingress = 0) => e = call[r].endpoint /\ i = call[r].ingress
      BY <1>t, <2>2 DEF RuntimeOf, Reread
    <2>4. /\ call' \in [Caller -> Call] /\ \A q \in Caller \ {r} : call'[q] = call[q]
          /\ call'[r].at = x /\ call'[r].kind = call[r].kind /\ call'[r].generation = call[r].generation
          /\ call'[r].endpoint = e /\ call'[r].ingress = i /\ call'[r].pending = call[r].pending
      <3>1. call' = [call EXCEPT ![r] = [call[r] EXCEPT !.endpoint = e, !.ingress = i, !.at = x]]
        BY <2>1 DEF RuntimeTaken
      <3>2. x \in Place
        BY <2>3 DEF Place
      <3>. HIDE DEF e, i, x
      <3>3. ASSUME NEW c \in Call
            PROVE  LET d == [c EXCEPT !.endpoint = e, !.ingress = i, !.at = x] IN
                   /\ d \in Call /\ d.at = x /\ d.endpoint = e /\ d.ingress = i
                   /\ d.kind = c.kind /\ d.pending = c.pending /\ d.generation = c.generation
        BY <2>3, <3>2 DEF Call
      <3>. QED  BY <1>t, <3>1, <3>3
    <2>. HIDE DEF e, i, x
    <2>5. /\ gate' \in [Attempt -> Gate]
          /\ \A g \in Attempt :
               /\ gate'[g].password = gate[g].password
               /\ gate'[g].at = gate[g].at \/ (g = ingress /\ gate[g].at = "admit" /\ gate'[g].at = "deny")
      BY <1>t, <1>d, <2>1, DenyHeldLemma DEF RuntimeTaken
    <2>6. Places'
      <3>1. CASE r = "window"
        BY <3>1, <1>w, <2>1, <2>3, <2>4 DEF Inv, Places, W, Q, WindowPlaces, Changing, manager
      <3>2. CASE r = "quit"
        BY <3>2, <1>w, <2>1, <2>3, <2>4, <1>2 DEF Inv, Places, W, Q, QuitPlaces, Changing, manager
      <3>. QED  BY <1>w, <3>1, <3>2
    <2>7. /\ status.state # "ready" /\ (status.state = "starting" => r # "window")
      BY <1>w, <2>1 DEF Inv, StartingIsOurs, ReadyIsHeld, W, Q, Open
    <2>8. Quiet /\ endpoint \in {0, e} /\ ingress \in {0, i}
      <3>1. Taken(r)
        BY DEF Inv
      <3>2. Quiet
        BY <2>1, <2>2, <3>1 DEF Inv, TypeOK, Pending, Settled, Taken, Open, Quiet
      <3>3. endpoint \in {0, e} /\ ingress \in {0, i}
        BY <2>1, <2>3, <3>1 DEF Taken, Holds
      <3>. QED  BY <3>2, <3>3
    <2>9. Quiet' = Quiet => Taken(r)'
      BY <2>1, <2>3, <2>4, <2>8 DEF Taken, Holds, Open, Changing, manager
    <2>10. CommitIsCurrent'
      <3>1. CASE r = "window"
        BY <1>w, <2>1, <2>3, <2>4, <3>1 DEF Inv, CommitIsCurrent, W, Q, Changing, manager
      <3>2. CASE r = "quit"
        BY <1>2, <1>w, <2>1, <2>3, <2>4, <3>2 DEF Inv, CommitIsCurrent, W, Q, Open, Changing, manager
      <3>. QED  BY <1>w, <3>1, <3>2
    <2>11. /\ call'["window"] = W \/ call'["window"].at \notin {"select", "discard"} \cup (Changing \ {"provider"})
           /\ W.at \in Changing \ {"provider"} => call'["window"] = W
           /\ status.state = "starting" => call'["window"] = W
      BY <1>w, <2>1, <2>3, <2>4, <2>7 DEF W, Changing
    <2>12. \A q \in Caller :
             /\ call'[q].endpoint \in {0, endpoint, call[q].endpoint}
             /\ call'[q].ingress \in {0, ingress, call[q].ingress}
             /\ call'[q].pending \in {0, pendingStart, call[q].pending}
      BY <2>3, <2>4
    <2>13. \A q \in Caller : call'[q] = call[q] \/ (Quiet' = Quiet => Taken(q)')
      BY <2>4, <2>9
    <2>14. /\ UNCHANGED <<prefs, presence, endpoint, ingress, start, pendingStart, disk, stored, tunnel, quitting>>
           /\ op' = op /\ status' = status
           /\ cleanup' \in Attempt \cup {0} /\ stop' \in Caller \cup {None} /\ reconfigure' \in Nat
           /\ monitor' \in [Attempt -> {"none", "watching", "closing", "ended"}]
           /\ \A g \in Attempt : monitor'[g] # "none" => monitor[g] # "none"
      BY <1>t, <2>1 DEF manager
    <2>15. op' \in [Attempt -> Operation] /\ call' \in [Caller -> Call]
      BY <1>t, <2>4, <2>14
    <2>. QED  BY <2>5, <2>6, <2>7, <2>10, <2>11, <2>12, <2>13, <2>14, <2>15, Denying
  <1>. QED  BY <1>w, <1>1, <1>2

\* A new intent: a Stop or a Reconfigure begins, or the monitor sees the endpoint die.
LEMMA IntentKeeps ==
  ASSUME Inv, NEW p \in Caller, StopBegins(p) \/ ReconfigureBegins("window")
  PROVE  Inv'
  <1>w. Caller = {"window", "quit"}
    BY DEF Caller
  <1>t. /\ call \in [Caller -> Call] /\ op \in [Attempt -> Operation] /\ gate \in [Attempt -> Gate]
        /\ endpoint \in Attempt \cup {0} /\ ingress \in Attempt \cup {0} /\ start \in Attempt \cup {0}
        /\ pendingStart \in Attempt \cup {0} /\ status \in Status /\ prefs \in Nat
        /\ cleanup \in Attempt \cup {0} /\ stop \in Caller \cup {None} /\ reconfigure \in Nat
        /\ monitor \in [Attempt -> {"none", "watching", "closing", "ended"}]
    BY DEF Inv, TypeOK
  <1>s. /\ Intent("stopping") \in Status /\ Intent("stopping").state = "stopping"
        /\ Intent("stopping").generation = status.generation + 1
        /\ status.generation + 1 \in Nat /\ status.generation + 1 # 0
    BY <1>t, StatusSteps DEF Intent, LifecycleState, Status
  <1>1. PICK r \in Caller : StopBegins(r) \/ (ReconfigureBegins("window") /\ r = "window")
    BY <1>w
  <1>2. /\ call[r].at \in {"stop", "reconfigure"}
        /\ call[r].at = "stop" => StopBegins(r)
        /\ call[r].at = "reconfigure" => r = "window" /\ reconfigure' = status.generation + 1
        /\ StopBegins(r) => stop' = r /\ reconfigure' = 0 /\ reconfigure = 0
        /\ stop' \in {stop, r}
        /\ status' = Intent("stopping") /\ op' = Cancel /\ gate' = DenyHeld
        /\ UNCHANGED <<prefs, presence, endpoint, ingress, start, pendingStart, cleanup,
                       disk, stored, tunnel, monitor, quitting>>
    BY <1>1 DEF StopBegins, ReconfigureBegins, Stopping, StopWaits
  <1>. DEFINE n == status.generation + 1
  <1>3. /\ call' \in [Caller -> Call] /\ \A q \in Caller \ {r} : call'[q] = call[q]
        /\ call'[r].at = "settling" /\ call'[r].kind = call[r].kind /\ call'[r].generation = n
        /\ call'[r].pending = pendingStart /\ call'[r].endpoint = endpoint /\ call'[r].ingress = ingress
    <2>. HIDE DEF n
    <2>1. PICK active \in BOOLEAN :
            \/ call' = [call EXCEPT ![r] = [call[r] EXCEPT !.at = "settling", !.generation = n,
                          !.pending = pendingStart, !.endpoint = endpoint, !.ingress = ingress]]
            \/ call' = [call EXCEPT ![r] = [call[r] EXCEPT !.at = "settling", !.generation = n, !.active = active,
                          !.pending = pendingStart, !.endpoint = endpoint, !.ingress = ingress]]
      <3>1. CASE StopBegins(r)
        BY <3>1 DEF StopBegins, n
      <3>2. CASE ReconfigureBegins("window") /\ r = "window"
        <4>. DEFINE active == \/ status.state \in {"starting", "ready"}
                              \/ endpoint # 0 \/ ingress # 0 \/ pendingStart # 0
        <4>1. /\ active \in BOOLEAN
              /\ call' = [call EXCEPT ![r].at = "settling", ![r].generation = n, ![r].active = active,
                          ![r].pending = pendingStart, ![r].endpoint = endpoint, ![r].ingress = ingress]
          BY <3>2 DEF ReconfigureBegins, n
        <4>. HIDE DEF active
        <4>. QED  BY <4>1
      <3>. QED  BY <1>1, <3>1, <3>2
    <2>2. ASSUME NEW c \in Call
          PROVE  LET d == [c EXCEPT !.at = "settling", !.generation = n,
                             !.pending = pendingStart, !.endpoint = endpoint, !.ingress = ingress] IN
                 /\ d \in Call /\ d.at = "settling" /\ d.kind = c.kind /\ d.generation = n
                 /\ d.pending = pendingStart /\ d.endpoint = endpoint /\ d.ingress = ingress
      BY <1>s, <1>t DEF Call, Place, n
    <2>3. ASSUME NEW c \in Call
          PROVE  LET d == [c EXCEPT !.at = "settling", !.generation = n, !.active = active,
                             !.pending = pendingStart, !.endpoint = endpoint, !.ingress = ingress] IN
                 /\ d \in Call /\ d.at = "settling" /\ d.kind = c.kind /\ d.generation = n
                 /\ d.pending = pendingStart /\ d.endpoint = endpoint /\ d.ingress = ingress
      BY <1>s, <1>t DEF Call, Place, n
    <2>4. call[r] \in Call
      BY <1>t
    <2>5. PICK d \in Call :
            /\ call' = [call EXCEPT ![r] = d]
            /\ d.at = "settling" /\ d.kind = call[r].kind /\ d.generation = n
            /\ d.pending = pendingStart /\ d.endpoint = endpoint /\ d.ingress = ingress
      BY <2>1, <2>2, <2>3, <2>4
    <2>. QED  BY <1>t, <2>5
  <1>4. /\ op' \in [Attempt -> Operation] /\ gate' \in [Attempt -> Gate]
        /\ \A g \in Attempt :
             /\ op'[g].worker = op[g].worker /\ op'[g].settled = op[g].settled
             /\ op'[g].failed = op[g].failed /\ op'[g].disposer = op[g].disposer
             /\ gate'[g].password = gate[g].password
             /\ gate'[g].at = gate[g].at \/ (g = ingress /\ gate[g].at = "admit" /\ gate'[g].at = "deny")
    BY <1>t, <1>2, CancelSteps, DenyHeldLemma
  <1>5. /\ status' \in Status /\ status'.state = "stopping" /\ status'.generation = n
        /\ reconfigure' \in Nat /\ (call[r].at = "reconfigure" => reconfigure' # 0)
        /\ (call[r].at = "stop" => reconfigure' = 0)
    BY <1>s, <1>t, <1>2
  <1>. HIDE DEF n
  <1>6. Places'
    <2>1. CASE r = "window"
      <3>1. CASE W.at = "stop"
        BY <1>w, <1>2, <1>3, <1>5, <2>1, <3>1 DEF Inv, Places, W, Q, WindowPlaces, Changing
      <3>2. CASE W.at = "reconfigure"
        BY <1>w, <1>2, <1>3, <1>5, <2>1, <3>2 DEF Inv, Places, W, Q, WindowPlaces, Changing
      <3>. QED  BY <1>2, <2>1, <3>1, <3>2 DEF W
    <2>2. CASE r = "quit"
      BY <1>w, <1>2, <1>3, <1>5, <2>2 DEF Inv, Places, W, Q, QuitPlaces, Changing
    <2>. QED  BY <1>w, <2>1, <2>2
  <1>7. Quiet' = Quiet => Taken(r)'
    BY <1>2, <1>3, <1>5 DEF Inv, Pending, Taken, Quiet, Holds, Open, Changing
  <1>8. CommitIsCurrent'
    <2>1. CASE r = "window"
      BY <1>w, <1>3, <1>5, <2>1 DEF CommitIsCurrent, W, Q, Changing
    <2>2. CASE r = "quit"
      <3>1. reconfigure = 0 /\ call'["window"] = W
        BY <1>w, <1>1, <1>2, <1>3, <2>2 DEF W
      <3>2. W.kind # "reconfigure" \/ W.at = "reconfigure"
        BY <3>1 DEF Inv, Places
      <3>. QED  BY <3>1, <3>2 DEF Inv, Places, CommitIsCurrent, W, Changing
    <2>. QED  BY <1>w, <2>1, <2>2
  <1>9. /\ call'["window"] = W \/ call'["window"].at \notin {"select", "discard"} \cup (Changing \ {"provider"})
        /\ W.at \in Changing \ {"provider"} => call'["window"] = W
    BY <1>w, <1>2, <1>3 DEF W, Changing
  <1>10. \A q \in Caller :
           /\ call'[q].endpoint \in {0, endpoint, call[q].endpoint}
           /\ call'[q].ingress \in {0, ingress, call[q].ingress}
           /\ call'[q].pending \in {0, pendingStart, call[q].pending}
           /\ call'[q] = call[q] \/ (Quiet' = Quiet => Taken(q)')
    BY <1>3, <1>7
  <1>11. /\ UNCHANGED <<prefs, presence, endpoint, ingress, start, pendingStart, disk, stored, tunnel, quitting>>
         /\ cleanup' \in Attempt \cup {0} /\ stop' \in Caller \cup {None}
         /\ monitor' \in [Attempt -> {"none", "watching", "closing", "ended"}]
         /\ \A g \in Attempt : monitor'[g] # "none" => monitor[g] # "none"
         /\ call' \in [Caller -> Call] /\ reconfigure' \in Nat
    BY <1>t, <1>2, <1>3, <1>5
  <1>12. status' \in Status /\ status'.state \in {"stopping", "failed"}
    BY <1>5
  <1>. QED  BY <1>4, <1>6, <1>8, <1>9, <1>10, <1>11, <1>12, Denying


-----------------------------------------------------------------------------
(* The monitors, the provider and the end of a Stop.                       *)
LEMMA MonitorsKeep ==
  ASSUME Inv, NEW g \in Attempt, MonitorFires(g) \/ TunnelDies(g)
  PROVE  Inv'
  <1>t. /\ call \in [Caller -> Call] /\ op \in [Attempt -> Operation] /\ gate \in [Attempt -> Gate]
        /\ endpoint \in Attempt \cup {0} /\ ingress \in Attempt \cup {0}
        /\ pendingStart \in Attempt \cup {0} /\ status \in Status /\ prefs \in Nat
        /\ cleanup \in Attempt \cup {0} /\ stop \in Caller \cup {None} /\ reconfigure \in Nat
        /\ monitor \in [Attempt -> {"none", "watching", "closing", "ended"}]
        /\ tunnel \in [Attempt -> {"none", "open", "dead", "closed"}]
    BY DEF Inv, TypeOK
  <1>1. CASE /\ MonitorFires(g) /\ status.state = "ready"
             /\ endpoint = g /\ ingress = g /\ status.generation = op[g].generation
    <2>1. /\ gate' = DenyHeld /\ cleanup' = g /\ status' = Intent("failed")
          /\ monitor' = [monitor EXCEPT ![g] = "closing"] /\ monitor[g] = "watching"
          /\ UNCHANGED <<prefs, presence, endpoint, ingress, start, pendingStart, stop, reconfigure,
                         disk, stored, tunnel, op, call, quitting>>
      BY <1>1 DEF MonitorFires
    <2>2. /\ gate' \in [Attempt -> Gate]
          /\ \A h \in Attempt :
               /\ gate'[h].password = gate[h].password
               /\ gate'[h].at = gate[h].at \/ (h = ingress /\ gate[h].at = "admit" /\ gate'[h].at = "deny")
      BY <1>t, <2>1, DenyHeldLemma
    <2>3. status' \in Status /\ status'.state \in {"stopping", "failed"}
      BY <1>t, <2>1, StatusSteps DEF Intent, LifecycleState
    <2>4. Places'
      BY <2>1 DEF Inv, Places, W, Q
    <2>5. CommitIsCurrent'
      BY <1>1, <2>1 DEF Inv, ReadyIsHeld, CommitIsCurrent, W, Q, Open
    <2>6. /\ monitor' \in [Attempt -> {"none", "watching", "closing", "ended"}]
          /\ \A h \in Attempt : monitor'[h] # "none" => monitor[h] # "none"
          /\ cleanup' \in Attempt \cup {0} /\ stop' \in Caller \cup {None} /\ reconfigure' \in Nat
          /\ call' \in [Caller -> Call] /\ op' \in [Attempt -> Operation]
      BY <1>t, <2>1
    <2>. QED  BY <2>1, <2>2, <2>3, <2>4, <2>5, <2>6, Denying DEF W
  <1>2. CASE \/ TunnelDies(g)
             \/ MonitorFires(g) /\ ~(/\ endpoint = g /\ ingress = g /\ status.state = "ready"
                                     /\ status.generation = op[g].generation)
    <2>1. /\ tunnel' = [tunnel EXCEPT ![g] = IF tunnel[g] = "open" THEN "dead" ELSE tunnel[g]] \/ tunnel' = tunnel
          /\ monitor' = monitor \/ (monitor' = [monitor EXCEPT ![g] = "ended"] /\ monitor[g] = "watching")
          /\ status.state = "ready" => monitor'[endpoint] = monitor[endpoint]
          /\ UNCHANGED <<manager, disk, stored, gate, op, call, quitting>>
      BY <1>2, <1>t DEF TunnelDies, MonitorFires, manager, Inv, ReadyIsHeld, ReadyIsServed
    <2>2. /\ tunnel' \in [Attempt -> {"none", "open", "dead", "closed"}]
          /\ \A h \in Attempt : /\ Running(h)' = Running(h) /\ (tunnel'[h] = "none" <=> tunnel[h] = "none")
                                /\ monitor'[h] # "none" => monitor[h] # "none"
          /\ monitor' \in [Attempt -> {"none", "watching", "closing", "ended"}]
      BY <1>t, <2>1 DEF Running
    <2>3. \A h \in Attempt : Made(h)' = Made(h) /\ Live(h)' = Live(h)
      BY <2>1, <2>2 DEF Made, Live, Running
    <2>4. TypeOK' /\ Places'
      BY <2>1, <2>2 DEF Inv, TypeOK, Places, W, Q, manager
    <2>5. Pending' /\ Owned'
      BY <2>1, <2>2, <2>3 DEF Inv, Pending, Owned, W, manager
    <2>6. Quiet' = Quiet
      BY <1>t, <2>1, <2>2 DEF Quiet, Dud, manager
    <2>7. ASSUME NEW p \in Caller
          PROVE  Taken(p)'
      <3>1. Taken(p)
        BY DEF Inv
      <3>2. call[p].endpoint \in Attempt \cup {0}
        BY <1>t, CallFields
      <3>3. call[p].endpoint # 0 /\ ~Running(call[p].endpoint) => tunnel'[call[p].endpoint] \notin {"open", "dead"}
        BY <2>2, <3>2 DEF Running
      <3>. HIDE DEF Quiet
      <3>. QED  BY <2>1, <2>6, <3>1, <3>3 DEF Taken, Running, Holds, manager
    <2>8. StartingIsOurs' /\ PresenceIsRead' /\ CommitIsCurrent'
      BY <2>1 DEF Inv, StartingIsOurs, PresenceIsRead, Readings, CommitIsCurrent, W, Q, manager
    <2>9. ReadyIsHeld'
      BY <1>t, <2>1, <2>2 DEF Inv, ReadyIsHeld, ReadyIsServed, Running, W, Q, manager
    <2>10. DisabledIsQuiet'
      BY <2>1, <2>3, <2>6 DEF Inv, DisabledIsQuiet, manager
    <2>. QED  BY <2>4, <2>5, <2>7, <2>8, <2>9, <2>10 DEF Inv
  <1>. QED  BY <1>1, <1>2

LEMMA StopExpiresKeeps ==
  ASSUME Inv, NEW p \in Caller, StopExpires(p)
  PROVE  Inv'
  <1>w. Caller = {"window", "quit"}
    BY DEF Caller
  <1>t. /\ call \in [Caller -> Call] /\ op \in [Attempt -> Operation] /\ gate \in [Attempt -> Gate]
        /\ cleanup \in Attempt \cup {0} /\ stop \in Caller \cup {None} /\ reconfigure \in Nat
        /\ monitor \in [Attempt -> {"none", "watching", "closing", "ended"}]
    BY DEF Inv, TypeOK
  <1>1. /\ call[p].at = "settling" /\ call[p].kind = "stop"
        /\ UNCHANGED <<manager, outside, op, monitor, quitting>>
    BY DEF StopExpires
  <1>2. /\ call' \in [Caller -> Call] /\ \A q \in Caller \ {p} : call'[q] = call[q]
        /\ call'[p].at = "stopped" /\ call'[p].kind = call[p].kind /\ call'[p].failed
        /\ call'[p].endpoint = call[p].endpoint /\ call'[p].ingress = call[p].ingress
        /\ call'[p].pending = call[p].pending
    <2>1. call' = [call EXCEPT ![p] = [call[p] EXCEPT !.at = "stopped", !.failed = TRUE]]
      BY DEF StopExpires
    <2>2. ASSUME NEW c \in Call
          PROVE  LET d == [c EXCEPT !.at = "stopped", !.failed = TRUE] IN
                 /\ d \in Call /\ d.at = "stopped" /\ d.kind = c.kind /\ d.failed
                 /\ d.endpoint = c.endpoint /\ d.ingress = c.ingress /\ d.pending = c.pending
      BY DEF Call, Place
    <2>. QED  BY <1>t, <2>1, <2>2
  <1>3. Places'
    <2>1. CASE p = "window"
      BY <1>w, <1>1, <1>2, <2>1 DEF Inv, Places, W, Q, WindowPlaces, Changing, manager
    <2>2. CASE p = "quit"
      BY <1>w, <1>1, <1>2, <2>2 DEF Inv, Places, W, Q, QuitPlaces, Changing, manager
    <2>. QED  BY <1>w, <2>1, <2>2
  <1>4. status.state # "ready" /\ (status.state = "starting" => p # "window")
    BY <1>w, <1>1 DEF Inv, StartingIsOurs, ReadyIsHeld, W, Q, Open
  <1>5. Quiet' = Quiet => Taken(p)'
    BY <1>1, <1>2 DEF Inv, Taken, Open, Changing, manager
  <1>6. CommitIsCurrent'
    BY <1>w, <1>1, <1>2 DEF Inv, CommitIsCurrent, W, Q, Open, Changing, manager
  <1>7. /\ call'["window"] = W \/ call'["window"].at \notin {"select", "discard"} \cup (Changing \ {"provider"})
        /\ W.at \in Changing \ {"provider"} => call'["window"] = W
        /\ status.state = "starting" => call'["window"] = W
    BY <1>w, <1>1, <1>2, <1>4 DEF W, Changing
  <1>8. \A q \in Caller :
           /\ call'[q].endpoint \in {0, endpoint, call[q].endpoint}
           /\ call'[q].ingress \in {0, ingress, call[q].ingress}
           /\ call'[q].pending \in {0, pendingStart, call[q].pending}
           /\ call'[q] = call[q] \/ (Quiet' = Quiet => Taken(q)')
    BY <1>2, <1>5
  <1>9. /\ UNCHANGED <<prefs, presence, endpoint, ingress, start, pendingStart, disk, stored, tunnel, quitting>>
        /\ gate' = gate /\ op' = op /\ status' = status
        /\ cleanup' \in Attempt \cup {0} /\ stop' \in Caller \cup {None} /\ reconfigure' \in Nat
        /\ monitor' \in [Attempt -> {"none", "watching", "closing", "ended"}]
        /\ \A g \in Attempt : monitor'[g] # "none" => monitor[g] # "none"
    BY <1>t, <1>1 DEF manager, outside
  <1>10. op' \in [Attempt -> Operation] /\ gate' \in [Attempt -> Gate]
    BY <1>t, <1>9
  <1>. QED  BY <1>2, <1>3, <1>4, <1>6, <1>7, <1>8, <1>9, <1>10, Denying

LEMMA StopEndsKeeps ==
  ASSUME Inv, NEW p \in Caller, StopEnds(p)
  PROVE  Inv'
  <1>w. Caller = {"window", "quit"}
    BY DEF Caller
  <1>t. /\ call \in [Caller -> Call] /\ status \in Status /\ prefs \in Nat
        /\ endpoint \in Attempt \cup {0} /\ ingress \in Attempt \cup {0} /\ pendingStart \in Attempt \cup {0}
    BY DEF Inv, TypeOK
  <1>c. call[p] \in Call /\ call[p].endpoint \in Attempt \cup {0} /\ call[p].ingress \in Attempt \cup {0}
        /\ call[p].generation \in Nat /\ call[p].failed \in BOOLEAN
    BY <1>t, CallFields
  <1>1. /\ call[p].at = "stopped" /\ stop' = None
        /\ \/ call[p].failed /\ status' = Failed /\ UNCHANGED <<endpoint, ingress>>
           \/ /\ ~call[p].failed /\ Forget(call[p].endpoint, call[p].ingress)
              /\ status' = [state |-> "disabled", generation |-> call[p].generation, revision |-> prefs]
        /\ UNCHANGED <<prefs, presence, start, pendingStart, cleanup, reconfigure, outside, op, monitor, quitting>>
    BY DEF StopEnds
  <1>2. /\ call' \in [Caller -> Call]
        /\ \A q \in Caller :
             \/ call'[q] = call[q] /\ q # p /\ call[q].at # "joined"
             \/ /\ call'[q].at \in {"idle", "over"} /\ (q = "window" => call'[q].at = "idle")
                /\ call'[q].kind = "none"
                /\ call'[q].endpoint = 0 /\ call'[q].ingress = 0 /\ call'[q].pending = 0
                /\ call[q].at \in {"stopped", "joined"}
    <2>1. call' = [q \in Caller |-> IF q = p \/ call[q].at = "joined" THEN Answered(q, ~call[p].failed) ELSE call[q]]
      BY DEF StopEnds
    <2>2. \A q \in Caller : LET a == Answered(q, ~call[p].failed) IN
            /\ a \in Call /\ a.at \in {"idle", "over"} /\ (q = "window" => a.at = "idle") /\ a.kind = "none"
            /\ a.endpoint = 0 /\ a.ingress = 0 /\ a.pending = 0
      <3>1. \A q \in Caller : Answered(q, ~call[p].failed) \in Call
        BY <1>c, Answers
      <3>2. \A q \in Caller : LET a == Answered(q, ~call[p].failed) IN
            /\ a.at \in {"idle", "over"} /\ (q = "window" => a.at = "idle") /\ a.kind = "none"
            /\ a.endpoint = 0 /\ a.ingress = 0 /\ a.pending = 0
        BY DEF Answered, Idle
      <3>. QED  BY <3>1, <3>2
    <2>. QED  BY <1>t, <1>1, <2>1, <2>2
  <1>3. /\ status' \in Status /\ status'.state \in {"failed", "disabled"}
        /\ status'.state = "failed" => call[p].failed
        /\ status'.generation = IF status'.state = "failed" THEN status.generation ELSE call[p].generation
    BY <1>1, <1>c, <1>t DEF Failed, Status, LifecycleState
  <1>4. /\ endpoint' \in {0, endpoint} /\ ingress' \in {0, ingress}
        /\ endpoint' # endpoint => endpoint = call[p].endpoint
        /\ ingress' # ingress => ingress = call[p].ingress
        /\ ~call[p].failed => /\ endpoint' = IF endpoint = call[p].endpoint THEN 0 ELSE endpoint
                              /\ ingress' = IF ingress = call[p].ingress THEN 0 ELSE ingress
        /\ call[p].failed => UNCHANGED <<endpoint, ingress>>
    BY <1>1 DEF Forget
  <1>5. ~call[p].failed =>
          /\ Quiet /\ endpoint' = 0 /\ ingress' = 0
          /\ call[p].endpoint # 0 => ~Running(call[p].endpoint)
          /\ call[p].ingress # 0 => gate[call[p].ingress].at \notin {"deny", "admit"}
          /\ endpoint \in {0, call[p].endpoint} /\ ingress \in {0, call[p].ingress}
    BY <1>1, <1>4 DEF Inv, Taken, Holds
  <1>6. \A g \in Attempt : /\ Running(g)' = Running(g) /\ Live(g)' = Live(g) /\ Made(g)' = Made(g)
    BY <1>1 DEF Running, Live, Made, outside
  <1>7. Quiet' = Quiet
    BY <1>1 DEF Quiet, Dud, outside
  <1>8. TypeOK'
    BY <1>1, <1>2, <1>3, <1>4 DEF Inv, TypeOK, outside
  <1>9. Places'
    <2>1. \/ call'["window"] = W /\ p # "window"
          \/ call'["window"].at = "idle" /\ call'["window"].kind = "none"
      BY <1>w, <1>2 DEF W
    <2>2. \/ call'["quit"] = Q
          \/ call'["quit"].at \in {"idle", "over"} /\ call'["quit"].kind = "none" /\ Q.at # "idle"
      BY <1>w, <1>2 DEF Q
    <2>. QED  BY <1>1, <2>1, <2>2 DEF Inv, Places, W, Q, WindowPlaces, QuitPlaces, Changing
  <1>10. Pending'
    BY <1>w, <1>1, <1>2, <1>4, <1>6 DEF Inv, Pending, W
  <1>11. Owned'
    <2>1. ASSUME NEW g \in Attempt
          PROVE  /\ Running(g)' => endpoint' = g \/ pendingStart = g
                 /\ gate[g].at \in {"deny", "admit"} => ingress' = g \/ pendingStart = g
      <3>1. Running(g) => endpoint = g \/ pendingStart = g
        BY DEF Inv, Owned
      <3>2. gate[g].at \in {"deny", "admit"} => ingress = g \/ pendingStart = g
        BY DEF Inv, Owned
      <3>3. g # 0
        BY DEF Attempt
      <3>. QED  BY <1>4, <1>5, <1>6, <3>1, <3>2, <3>3
    <2>2. \A q \in Caller :
            /\ call'[q].endpoint # 0 => op[call'[q].endpoint].settled
            /\ call'[q].ingress # 0 => op[call'[q].ingress].settled
            /\ call'[q].pending # 0 => op[call'[q].pending].worker # "none"
      BY <1>2 DEF Inv, Owned
    <2>. QED  BY <1>1, <1>4, <2>1, <2>2 DEF Inv, Owned, outside
  <1>12. ASSUME NEW q \in Caller
         PROVE  Taken(q)'
    <2>1. CASE call'[q] = call[q]
      <3>1. Taken(q)
        BY DEF Inv
      <3>2. call[q].endpoint \in Attempt \cup {0}
        BY <1>t, CallFields
      <3>3. Holds(q) => Holds(q)'
        BY <1>4, <2>1 DEF Holds
      <3>. HIDE DEF Quiet, Holds
      <3>. QED  BY <1>1, <1>3, <1>4, <1>7, <2>1, <3>1, <3>3 DEF Taken, Running, outside
    <2>2. CASE call'[q].at \in {"idle", "over"}
      BY <2>2 DEF Taken, Open, Changing
    <2>. QED  BY <1>2, <2>1, <2>2
  <1>13. StartingIsOurs' /\ ReadyIsHeld'
    BY <1>3 DEF StartingIsOurs, ReadyIsHeld, ReadyIsServed
  <1>14. DisabledIsQuiet'
    <2>1. ASSUME ~call[p].failed, NEW g \in Attempt
          PROVE  ~Live(g)
      <3>1. pendingStart = g => tunnel[g] = "none" /\ gate[g].at = "none"
        BY <1>5, <2>1 DEF Quiet, Dud, Attempt
      <3>2. Running(g) => endpoint = g \/ pendingStart = g
        BY DEF Inv, Owned
      <3>3. gate[g].at \in {"deny", "admit"} => ingress = g \/ pendingStart = g
        BY DEF Inv, Owned
      <3>4. g # 0
        BY DEF Attempt
      <3>. QED  BY <1>5, <2>1, <3>1, <3>2, <3>3, <3>4 DEF Live, Running
    <2>2. status'.state = "disabled" => ~call[p].failed
      BY <1>1 DEF Failed, Status, Inv, TypeOK
    <2>. QED  BY <1>5, <1>6, <1>7, <2>1, <2>2 DEF DisabledIsQuiet
  <1>15. PresenceIsRead'
    BY <1>w, <1>1, <1>2 DEF Inv, PresenceIsRead, Readings, W, Changing, outside
  <1>16. CommitIsCurrent'
    <2>1. CASE call'["window"].at = "idle"
      BY <2>1 DEF CommitIsCurrent, W, Changing
    <2>2. CASE call'["window"] = W /\ p = "quit"
      <3>1. Q.at \in Open /\ Q.at # "idle"
        BY <1>1, <2>2 DEF Q, Open
      <3>2. quitting /\ W.at \notin {"save", "commit"}
        BY <3>1 DEF Inv, CommitIsCurrent, Places
      <3>. QED  BY <1>1, <2>2, <3>2 DEF CommitIsCurrent, W
    <2>. QED  BY <1>w, <1>2, <2>1, <2>2 DEF W
  <1>. QED  BY <1>8, <1>9, <1>10, <1>11, <1>12, <1>13, <1>14, <1>15, <1>16 DEF Inv

-----------------------------------------------------------------------------
(* The secrets, the file and the commit, when everything is closed.        *)
LEMMA NothingOpen ==
  ASSUME Inv, W.at \in Changing
  PROVE  /\ Quiet /\ endpoint = 0 /\ ingress = 0 /\ status.state \notin {"starting", "ready"}
         /\ \A g \in Attempt : ~Live(g)
         /\ \A g \in Attempt : op[g].worker \notin {"check", "activate"}
         /\ \A g \in Attempt : op[g].worker = "sent" /\ ~op[g].settled => op[g].failed
  <1>1. Quiet /\ endpoint = 0 /\ ingress = 0
    BY DEF Inv, Taken, W, Caller
  <1>2. status.state \notin {"starting", "ready"}
    BY DEF Inv, StartingIsOurs, ReadyIsHeld, Open, Changing
  <1>3. ASSUME NEW g \in Attempt
        PROVE  /\ ~Live(g) /\ op[g].worker \notin {"check", "activate"}
               /\ op[g].worker = "sent" /\ ~op[g].settled => op[g].failed
    <2>1. g # 0
      BY DEF Attempt
    <2>2. g = pendingStart => Dud(g)
      BY <1>1, <2>1 DEF Quiet
    <2>3. g # pendingStart => ~Live(g)
      BY <1>1, <2>1 DEF Inv, Owned, Live, Running
    <2>4. ~op[g].settled /\ op[g].worker # "none" => g = pendingStart
      BY DEF Inv, Pending
    <2>5. op[g].settled => op[g].worker \in {"sent", "taken"}
      BY DEF Inv, Pending
    <2>. QED  BY <2>2, <2>3, <2>4, <2>5 DEF Dud, Live
  <1>. QED  BY <1>1, <1>2, <1>3

LEMMA Changes ==
  ASSUME Inv, W.at \in Changing, Places',
         call' \in [Caller -> Call], call'["quit"] = call["quit"],
         call'["window"].at \in (Changing \ {"provider"}) \cup {"start", "idle"},
         call'["window"].endpoint \in {0, W.endpoint}, call'["window"].ingress \in {0, W.ingress},
         call'["window"].pending \in {0, W.pending},
         UNCHANGED <<endpoint, ingress, start, pendingStart, cleanup, stop, op, gate, tunnel, monitor, quitting>>,
         prefs' \in Nat, disk' \in Nat, reconfigure' \in Nat, stored' \in [Secret -> Nat],
         presence' \in [Secret -> {"absent", "present", "unknown"}],
         status' = status \/ (status' \in Status /\ status'.state = "disabled"),
         PresenceIsRead', CommitIsCurrent'
  PROVE  Inv'
  <1>w. Caller = {"window", "quit"}
    BY DEF Caller
  <1>1. /\ Quiet /\ endpoint = 0 /\ ingress = 0 /\ status.state \notin {"starting", "ready"}
        /\ \A g \in Attempt : ~Live(g)
        /\ \A g \in Attempt : op[g].worker \notin {"check", "activate"}
        /\ \A g \in Attempt : op[g].worker = "sent" /\ ~op[g].settled => op[g].failed
    BY NothingOpen
  <1>2. /\ \A g \in Attempt : Running(g)' = Running(g) /\ Live(g)' = Live(g)
        /\ Quiet' = Quiet
    BY DEF Running, Live, Quiet, Dud
  <1>3. TypeOK'
    BY DEF Inv, TypeOK
  <1>4. Pending'
    <2>1. ASSUME NEW g \in Attempt
          PROVE  Made(g)'
      BY <1>1 DEF Inv, Pending, Made
    <2>2. call'["window"].at \notin {"select", "discard"}
      BY DEF Changing
    <2>. QED  BY <2>1, <2>2 DEF Inv, Pending, W
  <1>5. Owned'
    <2>1. \A p \in Caller :
            /\ call'[p].endpoint # 0 => op[call'[p].endpoint].settled
            /\ call'[p].ingress # 0 => op[call'[p].ingress].settled
            /\ call'[p].pending # 0 => op[call'[p].pending].worker # "none"
      BY <1>w DEF Inv, Owned, W
    <2>2. \A g \in Attempt : gate[g].at # "admit"
      BY <1>1 DEF Live
    <2>. QED  BY <1>2, <2>1, <2>2 DEF Inv, Owned
  <1>6. ASSUME NEW p \in Caller
        PROVE  Taken(p)'
    <2>1. CASE p = "window"
      BY <1>1, <1>2, <2>1 DEF Taken, Open, Changing
    <2>2. CASE p = "quit"
      <3>1. Taken(p) /\ call'[p] = call[p]
        BY <2>2 DEF Inv
      <3>2. Holds(p)' = Holds(p) /\ status'.state # "starting"
        BY <1>1, <3>1 DEF Holds
      <3>. HIDE DEF Quiet, Holds
      <3>. QED  BY <1>2, <3>1, <3>2 DEF Taken, Running
    <2>. QED  BY <1>w, <2>1, <2>2
  <1>7. StartingIsOurs' /\ ReadyIsHeld'
    BY <1>1 DEF StartingIsOurs, ReadyIsHeld, ReadyIsServed
  <1>8. DisabledIsQuiet'
    BY <1>1, <1>2 DEF DisabledIsQuiet
  <1>. QED  BY <1>3, <1>4, <1>5, <1>6, <1>7, <1>8 DEF Inv

LEMMA ChangesKeep ==
  ASSUME Inv,
         \/ ReconfigureSecret("window", "provider", "password")
         \/ ReconfigureSecret("window", "password", "presence")
         \/ PresenceRead("window") \/ SettingsSaved("window") \/ ReconfigureCommits("window")
  PROVE  Inv'
  <1>w. Caller = {"window", "quit"}
    BY DEF Caller
  <1>t. /\ call \in [Caller -> Call] /\ status \in Status /\ prefs \in Nat /\ disk \in Nat /\ reconfigure \in Nat
        /\ stored \in [Secret -> Nat] /\ presence \in [Secret -> {"absent", "present", "unknown"}]
    BY DEF Inv, TypeOK
  <1>c. /\ W.generation \in Nat /\ W.change \in [Secret -> Change]
        /\ W.seen \in [Secret -> {"absent", "present", "unknown"}]
    BY <1>t, CallFields DEF W, Caller
  <1>m. ASSUME NEW place \in {"password", "presence", "commit"}, Moves("window", place), W.at \in Changing
        PROVE  /\ call' \in [Caller -> Call] /\ call'["quit"] = call["quit"]
               /\ call'["window"].at = place /\ call'["window"].kind = W.kind
               /\ call'["window"].generation = W.generation
               /\ call'["window"].endpoint = W.endpoint /\ call'["window"].ingress = W.ingress
               /\ call'["window"].pending = W.pending /\ call'["window"].seen = W.seen
    BY <1>w, <1>t, <1>m, MovesSteps DEF Place, W
  <1>1. ASSUME NEW s \in Secret, NEW next \in {"password", "presence"},
               W.at = s, ReconfigureSecret("window", s, next)
        PROVE  Inv'
    <2>1. W.at \in Changing
      BY <1>1 DEF Secret, Changing
    <2>2. /\ stored' = [stored EXCEPT ![s] = Changed(s, W.change[s])]
          /\ Moves("window", next) /\ UNCHANGED <<manager, disk, gate, tunnel, op, monitor, quitting>>
      BY <1>1 DEF ReconfigureSecret, W
    <2>3. stored' \in [Secret -> Nat]
      <3>1. Changed(s, W.change[s]) \in Nat
        BY <1>t, <1>c DEF Changed, Change
      <3>. QED  BY <1>t, <2>2, <3>1
    <2>4. /\ call' \in [Caller -> Call] /\ call'["quit"] = call["quit"]
          /\ call'["window"].at = next /\ call'["window"].kind = W.kind
          /\ call'["window"].generation = W.generation
          /\ call'["window"].endpoint = W.endpoint /\ call'["window"].ingress = W.ingress
          /\ call'["window"].pending = W.pending /\ call'["window"].seen = W.seen
      BY <1>m, <2>1, <2>2
    <2>5. Places'
      BY <2>1, <2>2, <2>4 DEF Inv, Places, W, Q, WindowPlaces, Changing, manager
    <2>6. PresenceIsRead'
      BY <2>4 DEF PresenceIsRead, W, Changing
    <2>7. CommitIsCurrent'
      BY <1>1, <2>1, <2>2, <2>4 DEF Inv, CommitIsCurrent, W, Q, Secret, Changing, manager
    <2>8. call'["window"].at \in (Changing \ {"provider"}) \cup {"start", "idle"}
      BY <2>4 DEF Changing
    <2>. QED  BY <1>t, <2>1, <2>2, <2>3, <2>4, <2>5, <2>6, <2>7, <2>8, Changes DEF manager
  <1>2. CASE PresenceRead("window")
    <2>1. W.at = "presence" /\ W.at \in Changing
      BY <1>2 DEF PresenceRead, W, Changing
    <2>2. PICK r \in IF ContextDone("window") THEN {Unseen} ELSE Readings :
            /\ IF \E s \in Secret : r[s] = "unknown"
               THEN FailsReconfigure("window") /\ presence' = r
               ELSE /\ call' = [call EXCEPT !["window"].at = "save", !["window"].seen = r]
                    /\ UNCHANGED <<status, presence, reconfigure>>
            /\ UNCHANGED <<prefs, endpoint, ingress, start, pendingStart, cleanup, stop, outside, op, monitor, quitting>>
      BY <1>2 DEF PresenceRead
    <2>3. r \in Readings /\ r \in [Secret -> {"absent", "present", "unknown"}]
      BY <2>2 DEF Readings, Unseen
    <2>4. CASE \E s \in Secret : r[s] = "unknown"
      <3>1. /\ Answer("window", FALSE) /\ presence' = r
            /\ status' = [state |-> "failed", generation |-> W.generation, revision |-> prefs]
            /\ UNCHANGED <<prefs, endpoint, ingress, start, pendingStart, cleanup, stop, outside, op, monitor, quitting>>
        BY <2>2, <2>4 DEF FailsReconfigure, W
      <3>2. status' \in Status /\ status'.state = "failed"
        BY <1>t, <1>c, <3>1 DEF Status, LifecycleState
      <3>3. presence' \in Readings'
        BY <2>3, <3>1 DEF Readings, outside
      <3>. QED  BY <1>w, <1>t, <2>1, <2>3, <3>1, <3>2, Answering DEF W, outside
    <2>5. CASE ~\E s \in Secret : r[s] = "unknown"
      <3>1. /\ call' = [call EXCEPT !["window"] = [W EXCEPT !.at = "save", !.seen = r]]
            /\ UNCHANGED <<status, presence, reconfigure>>
            /\ UNCHANGED <<prefs, endpoint, ingress, start, pendingStart, cleanup, stop, outside, op, monitor, quitting>>
        BY <2>2, <2>5 DEF W
      <3>2. ~quitting
        <4>1. r # Unseen
          BY <2>5 DEF Unseen, Secret
        <4>. QED  BY <2>2, <4>1 DEF ContextDone
      <3>3. /\ call' \in [Caller -> Call] /\ call'["quit"] = call["quit"]
            /\ call'["window"].at = "save" /\ call'["window"].kind = W.kind
            /\ call'["window"].generation = W.generation
            /\ call'["window"].endpoint = W.endpoint /\ call'["window"].ingress = W.ingress
            /\ call'["window"].pending = W.pending /\ call'["window"].seen = r
        <4>1. ASSUME NEW c \in Call
              PROVE  LET d == [c EXCEPT !.at = "save", !.seen = r] IN
                     /\ d \in Call /\ d.at = "save" /\ d.kind = c.kind /\ d.generation = c.generation
                     /\ d.endpoint = c.endpoint /\ d.ingress = c.ingress /\ d.pending = c.pending /\ d.seen = r
          BY <2>3 DEF Call, Place
        <4>. QED  BY <1>w, <1>t, <3>1, <4>1 DEF W
      <3>4. Places'
        BY <2>1, <3>1, <3>3 DEF Inv, Places, W, Q, WindowPlaces, Changing
      <3>5. PresenceIsRead'
        BY <2>3, <3>1, <3>3 DEF PresenceIsRead, Readings, W, Changing, outside
      <3>6. CommitIsCurrent'
        BY <2>1, <3>1, <3>2, <3>3 DEF Inv, Places, CommitIsCurrent, W, Q, Open, Changing
      <3>7. call'["window"].at \in (Changing \ {"provider"}) \cup {"start", "idle"}
        BY <3>3 DEF Changing
      <3>. QED  BY <1>t, <2>1, <3>1, <3>3, <3>4, <3>5, <3>6, <3>7, Changes DEF outside
    <2>. QED  BY <2>4, <2>5
  <1>3. CASE SettingsSaved("window")
    <2>1. /\ W.at = "save" /\ W.at \in Changing /\ disk' = prefs + 1 /\ Moves("window", "commit")
          /\ UNCHANGED <<manager, stored, gate, tunnel, op, monitor, quitting>>
      BY <1>3 DEF SettingsSaved, W, Changing
    <2>2. /\ call' \in [Caller -> Call] /\ call'["quit"] = call["quit"]
          /\ call'["window"].at = "commit" /\ call'["window"].kind = W.kind
          /\ call'["window"].generation = W.generation
          /\ call'["window"].endpoint = W.endpoint /\ call'["window"].ingress = W.ingress
          /\ call'["window"].pending = W.pending /\ call'["window"].seen = W.seen
      BY <1>m, <2>1
    <2>3. Places'
      BY <2>1, <2>2 DEF Inv, Places, W, Q, WindowPlaces, Changing, manager
    <2>4. PresenceIsRead'
      BY <2>1, <2>2 DEF Inv, PresenceIsRead, Readings, W, Changing, manager
    <2>5. CommitIsCurrent'
      BY <2>1, <2>2 DEF Inv, CommitIsCurrent, W, Q, Changing, manager
    <2>6. call'["window"].at \in (Changing \ {"provider"}) \cup {"start", "idle"}
      BY <2>2 DEF Changing
    <2>. QED  BY <1>t, <2>1, <2>2, <2>3, <2>4, <2>5, <2>6, Changes DEF manager
  <1>4. CASE ReconfigureCommits("window")
    <2>1. /\ W.at = "commit" /\ W.at \in Changing /\ prefs' = prefs + 1 /\ presence' = W.seen
          /\ status' = [state |-> "disabled", generation |-> status.generation, revision |-> prefs + 1]
          /\ UNCHANGED <<endpoint, ingress, start, pendingStart, cleanup, stop, outside, op, monitor, quitting>>
          /\ \/ /\ call' = [call EXCEPT !["window"] = [W EXCEPT !.at = "start", !.revision = prefs + 1]]
                /\ UNCHANGED reconfigure
             \/ Answer("window", TRUE)
      BY <1>4 DEF ReconfigureCommits, W, Changing
    <2>2. status' \in Status /\ status'.state = "disabled"
      BY <1>t, <2>1 DEF Status, LifecycleState
    <2>3. /\ call' \in [Caller -> Call] /\ call'["quit"] = call["quit"]
          /\ \/ call'["window"].at = "start" /\ call'["window"].kind = W.kind /\ reconfigure' = reconfigure
             \/ call'["window"].at = "idle" /\ call'["window"].kind = "none" /\ reconfigure' \in {0, reconfigure}
          /\ call'["window"].endpoint \in {0, W.endpoint} /\ call'["window"].ingress \in {0, W.ingress}
          /\ call'["window"].pending \in {0, W.pending}
      <3>1. CASE Answer("window", TRUE)
        BY <1>w, <1>t, <3>1, AnswerSteps DEF W
      <3>2. CASE /\ call' = [call EXCEPT !["window"] = [W EXCEPT !.at = "start", !.revision = prefs + 1]]
                 /\ UNCHANGED reconfigure
        <4>1. ASSUME NEW c \in Call, NEW n \in Nat
              PROVE  LET d == [c EXCEPT !.at = "start", !.revision = n] IN
                     /\ d \in Call /\ d.at = "start" /\ d.kind = c.kind
                     /\ d.endpoint = c.endpoint /\ d.ingress = c.ingress /\ d.pending = c.pending
          BY DEF Call, Place
        <4>2. PICK n \in Nat : n = prefs + 1
          BY <1>t
        <4>3. call' = [call EXCEPT !["window"] = [W EXCEPT !.at = "start", !.revision = n]]
          BY <3>2, <4>2
        <4>4. W \in Call
          BY <1>w, <1>t DEF W
        <4>5. PICK d \in Call : /\ d = [W EXCEPT !.at = "start", !.revision = n]
                                /\ d.at = "start" /\ d.kind = W.kind
                                /\ d.endpoint = W.endpoint /\ d.ingress = W.ingress /\ d.pending = W.pending
          BY <4>1, <4>4
        <4>. QED  BY <1>w, <1>t, <3>2, <4>3, <4>5
      <3>. QED  BY <2>1, <3>1, <3>2
    <2>4. Places'
      BY <2>1, <2>3 DEF Inv, Places, W, Q, WindowPlaces, Changing
    <2>5. PresenceIsRead'
      BY <2>1, <2>3 DEF Inv, PresenceIsRead, Readings, W, Changing, outside
    <2>6. CommitIsCurrent'
      BY <2>3 DEF CommitIsCurrent, W, Changing
    <2>7. reconfigure' \in Nat /\ disk' \in Nat /\ stored' \in [Secret -> Nat] /\ prefs' \in Nat
          /\ presence' \in [Secret -> {"absent", "present", "unknown"}]
      BY <1>t, <1>c, <2>1, <2>3 DEF outside
    <2>. QED  BY <2>1, <2>2, <2>3, <2>4, <2>5, <2>6, <2>7, Changes DEF outside
  <1>5. ASSUME NEW s \in Secret, NEW next \in {"password", "presence"}, ReconfigureSecret("window", s, next)
        PROVE  Inv'
    <2>1. W.at = s
      BY <1>5 DEF ReconfigureSecret, W
    <2>. QED  BY <1>1, <1>5, <2>1
  <1>. QED  BY <1>2, <1>3, <1>4, <1>5 DEF Secret

-----------------------------------------------------------------------------
(* All together.                                                           *)
LEMMA InitIsInv ==
  ASSUME Init
  PROVE  Inv
  <1>w. Caller = {"window", "quit"}
    BY DEF Caller
  <1>i. /\ Idle \in Call /\ Idle.at = "idle" /\ Idle.kind = "none"
        /\ Idle.endpoint = 0 /\ Idle.ingress = 0 /\ Idle.pending = 0
    BY Answers DEF Idle
  <1>n. /\ NoOperation \in Operation /\ NoOperation.worker = "none" /\ ~NoOperation.settled
        /\ NoOperation.disposer = "none"
    BY DEF NoOperation, Operation
  <1>1. /\ W = Idle /\ Q = Idle /\ call = [p \in Caller |-> Idle]
        /\ \A g \in Attempt : op[g] = NoOperation /\ tunnel[g] = "none" /\ gate[g].at = "none" /\ monitor[g] = "none"
        /\ status.state \in {"failed", "disabled"} /\ presence \in Readings
        /\ pendingStart = 0 /\ start = 0 /\ endpoint = 0 /\ ingress = 0 /\ reconfigure = 0
    BY <1>w DEF Init, W, Q
  <1>2. TypeOK
    <2>1. presence \in [Secret -> {"absent", "present", "unknown"}]
      BY <1>1 DEF Readings
    <2>2. stored \in [Secret -> Nat] /\ status \in Status
      BY DEF Init, Status, LifecycleState
    <2>3. gate \in [Attempt -> Gate]
      BY DEF Init, Gate
    <2>. QED  BY <1>i, <1>n, <2>1, <2>2, <2>3 DEF Init, TypeOK
  <1>3. Places
    BY <1>1, <1>i DEF Places, WindowPlaces, QuitPlaces, Changing
  <1>4. Pending /\ Owned
    <2>1. \A g \in Attempt : g # 0 /\ Made(g) /\ ~Running(g)
      BY <1>1, <1>n DEF Made, Running, Attempt
    <2>. QED  BY <1>1, <1>i, <1>n, <2>1 DEF Pending, Owned
  <1>5. \A p \in Caller : Taken(p)
    BY <1>1, <1>i DEF Taken, Open, Changing
  <1>6. StartingIsOurs /\ ReadyIsHeld /\ PresenceIsRead /\ CommitIsCurrent
    BY <1>1, <1>i DEF StartingIsOurs, ReadyIsHeld, ReadyIsServed, PresenceIsRead, CommitIsCurrent, Changing
  <1>7. DisabledIsQuiet
    BY <1>1 DEF DisabledIsQuiet, Quiet, Live
  <1>. QED  BY <1>2, <1>3, <1>4, <1>5, <1>6, <1>7 DEF Inv

LEMMA StutterKeeps ==
  ASSUME Inv, UNCHANGED vars
  PROVE  Inv'
  <1>1. TypeOK' /\ Places'
    BY DEF Inv, TypeOK, Places, W, Q, vars, manager, outside
  <1>2. Pending' /\ Owned'
    BY DEF Inv, Pending, Owned, Made, Running, W, vars, manager, outside
  <1>3. \A p \in Caller : Taken(p)'
    BY DEF Inv, Taken, Quiet, Dud, Holds, Running, vars, manager, outside
  <1>4. StartingIsOurs' /\ ReadyIsHeld' /\ DisabledIsQuiet'
    BY DEF Inv, StartingIsOurs, ReadyIsHeld, ReadyIsServed, DisabledIsQuiet, Quiet, Dud, Live,
           W, Q, vars, manager, outside
  <1>5. PresenceIsRead' /\ CommitIsCurrent'
    BY DEF Inv, PresenceIsRead, Readings, CommitIsCurrent, W, Q, vars, manager, outside
  <1>. QED  BY <1>1, <1>2, <1>3, <1>4, <1>5 DEF Inv

LEMMA NextKeeps ==
  ASSUME Inv, [Next]_vars
  PROVE  Inv'
  <1>w. "window" \in Caller
    BY DEF Caller
  <1>1. CASE (\E kind \in {"start", "stop", "reconfigure"} : WindowCalls(kind)) \/ Quit \/ ShutdownReads
    BY <1>w, <1>1, CallsKeep
  <1>2. CASE StartStep("window")
    <2>1. CASE StartGivesUp("window") \/ StartAnswers("window") \/ StartWithoutSecrets("window")
      BY <1>w, <2>1, AnswersKeep
    <2>2. CASE StartOverRetained("window")
      BY <1>w, <2>2, CapturingKeeps
    <2>3. CASE StartBegins("window") \/ StartReady("window") \/ StartExpires("window")
      BY <2>3, StartBeginsKeeps, StartReadyKeeps, StartExpiresKeeps
    <2>4. CASE StartUndone("window")
      BY <2>4, TakingKeeps
    <2>5. CASE \E ok \in BOOLEAN : StartDiscarded("window", ok)
      BY <2>5, SettlingKeeps
    <2>6. CASE \E ok \in BOOLEAN : RetainedClosed("window", ok)
      BY <1>w, <2>6, ClosingKeeps
    <2>. QED  BY <1>2, <2>1, <2>2, <2>3, <2>4, <2>5, <2>6 DEF StartStep
  <1>3. ASSUME NEW p \in Caller, StopStep(p)
        PROVE  Inv'
    <2>1. CASE StopGivesUp(p) \/ StopFindsNothing(p)
      BY <2>1, AnswersKeep
    <2>2. CASE StopConflicts(p)
      BY <2>2, AnswersKeep, CallsKeep DEF Caller
    <2>3. CASE StopJoins(p)
      BY <2>3, CallsKeep
    <2>4. CASE StopBegins(p)
      BY <2>4, IntentKeeps
    <2>5. CASE StopSettled(p)
      BY <2>5, CapturingKeeps
    <2>6. CASE \E ok \in BOOLEAN : StopCloses(p, ok)
      BY <2>6, ClosingKeeps
    <2>7. CASE StopExpires(p) \/ StopEnds(p)
      BY <2>7, StopExpiresKeeps, StopEndsKeeps
    <2>. QED  BY <1>3, <2>1, <2>2, <2>3, <2>4, <2>5, <2>6, <2>7 DEF StopStep
  <1>4. CASE ReconfigureStep("window")
    <2>1. CASE ReconfigureGivesUp("window") \/ ReconfigureConflicts("window")
      BY <1>w, <2>1, CallsKeep
    <2>2. CASE ReconfigureBegins("window")
      BY <1>w, <2>2, IntentKeeps
    <2>3. CASE ReconfigureSettled("window")
      BY <1>w, <2>3, CapturingKeeps
    <2>4. CASE ReconfigureExpires("window") \/ (\E s \in Secret : SecretFails("window", s)) \/ SaveFails("window")
      BY <1>w, <2>4, AnswersKeep
    <2>5. CASE \E ok \in BOOLEAN : ReconfigureCloses("window", ok)
      BY <1>w, <2>5, ClosingKeeps
    <2>6. CASE \/ ReconfigureSecret("window", "provider", "password")
               \/ ReconfigureSecret("window", "password", "presence")
               \/ PresenceRead("window") \/ SettingsSaved("window") \/ ReconfigureCommits("window")
      BY <2>6, ChangesKeep
    <2>. QED  BY <1>4, <2>1, <2>2, <2>3, <2>4, <2>5, <2>6 DEF ReconfigureStep
  <1>5. ASSUME NEW g \in Attempt, WorkerStep(g) \/ DisposerStep(g) \/ MonitorStep(g) \/ TunnelDies(g)
        PROVE  Inv'
    <2>1. CASE WorkerStep(g)
      BY <2>1, WorkersKeep
    <2>2. CASE LateStart(g)
      BY <2>2, TakingKeeps
    <2>3. CASE \E ok \in BOOLEAN : LateStartDisposed(g, ok)
      BY <2>3, SettlingKeeps
    <2>4. CASE MonitorFires(g) \/ TunnelDies(g)
      BY <2>4, MonitorsKeep
    <2>5. CASE \E ok \in BOOLEAN : MonitorCloses(g, ok)
      BY <1>w, <2>5, ClosingKeeps
    <2>. QED  BY <1>5, <2>1, <2>2, <2>3, <2>4, <2>5 DEF DisposerStep, MonitorStep
  <1>6. CASE UNCHANGED vars
    BY <1>6, StutterKeeps
  <1>. QED  BY <1>1, <1>2, <1>3, <1>4, <1>5, <1>6 DEF Next

LEMMA InvAlways == Spec => []Inv
  <1>1. Init => Inv
    BY InitIsInv
  <1>2. Inv /\ [Next]_vars => Inv'
    BY NextKeeps
  <1>. QED  BY <1>1, <1>2, PTL DEF Spec

(* The variables keep their types.                                         *)
THEOREM TypeAlwaysOK == Spec => []TypeOK
  <1>1. Inv => TypeOK
    BY DEF Inv
  <1>. QED  BY <1>1, InvAlways, PTL

(* What the Overseer is told is so, for any number of starts, stops, ends  *)
(* and reconfigurations: ready is served by the runtime the manager holds, *)
(* disabled is closed, and the secrets are there as shown (manager.go).    *)
THEOREM StatusAlwaysTrue == Spec => []StatusIsTrue
  <1>1. Inv => StatusIsTrue
    <2>. SUFFICES ASSUME Inv
                  PROVE  StatusIsTrue
      OBVIOUS
    <2>1. ReadyIsServed
      BY DEF Inv, ReadyIsHeld, ReadyIsServed
    <2>2. DisabledIsClosed
      BY DEF Inv, DisabledIsQuiet, DisabledIsClosed
    <2>3. PresenceIsHonest
      BY DEF Inv, PresenceIsRead, PresenceIsHonest, Places, Changing
    <2>. QED  BY <2>1, <2>2, <2>3 DEF StatusIsTrue
  <1>. QED  BY <1>1, InvAlways, PTL

(* No runtime is lost, there is one at most, and it lets in those who know *)
(* the stored password (closePublicAccessRuntime, retainRuntimeAfterFailed-*)
(* Cleanup and disposeLateStart between them).                             *)
THEOREM RuntimesAlwaysOwned == Spec => []RuntimesAreOwned
  <1>1. Inv => RuntimesAreOwned
    <2>. SUFFICES ASSUME Inv
                  PROVE  RuntimesAreOwned
      OBVIOUS
    <2>1. EveryRuntimeIsOwned
      BY DEF Inv, Owned, Running, EveryRuntimeIsOwned
    <2>2. ASSUME NEW g \in Attempt, Live(g)
          PROVE  IF pendingStart # 0 THEN g = pendingStart ELSE g \in {endpoint, ingress}
      <3>1. g # 0
        BY DEF Attempt
      <3>2. endpoint = g \/ ingress = g \/ pendingStart = g
        BY <2>1, <2>2 DEF EveryRuntimeIsOwned, Live
      <3>3. pendingStart # 0 => endpoint = 0 /\ ingress = 0
        BY DEF Inv, Pending
      <3>. QED  BY <3>1, <3>2, <3>3
    <2>3. OneRuntimeAtATime
      <3>1. endpoint # 0 /\ ingress # 0 => endpoint = ingress
        BY DEF Inv, Owned
      <3>2. \A g \in Attempt : g # 0
        BY DEF Attempt
      <3>. QED  BY <2>2, <3>1, <3>2 DEF OneRuntimeAtATime
    <2>4. AdmissionUsesStoredPassword
      BY DEF Inv, Owned, AdmissionUsesStoredPassword
    <2>. QED  BY <2>1, <2>3, <2>4 DEF RuntimesAreOwned
  <1>. QED  BY <1>1, InvAlways, PTL

\* Every other step leaves the status alone, or states an intent, an end or a failure.
LEMMA OthersAreNotReady ==
  ASSUME TypeOK, [Next]_vars, ~StartReady("window")
  PROVE  status' = status \/ status'.state # "ready"
  <1>t. status \in Status
    BY DEF TypeOK
  <1>f. /\ Failed.state = "failed" /\ [Failed EXCEPT !.generation = @ + 1].state = "failed"
        /\ Intent("starting").state = "starting" /\ Intent("stopping").state = "stopping"
        /\ Intent("failed").state = "failed"
    BY <1>t DEF Failed, Intent, Status
  <1>1. CASE (\E kind \in {"start", "stop", "reconfigure"} : WindowCalls(kind)) \/ Quit \/ ShutdownReads
    BY <1>1 DEF WindowCalls, Quit, ShutdownReads, manager
  <1>2. CASE StartStep("window")
    BY <1>f, <1>2 DEF StartStep, StartGivesUp, StartAnswers, StartWithoutSecrets, StartOverRetained,
         RetainedClosed, StartBegins, StartUndone, StartDiscarded, StartExpires, manager
  <1>r. FailsReconfigure("window") => status'.state # "ready"
    BY DEF FailsReconfigure
  <1>3. ASSUME NEW p \in Caller, StopStep(p)
        PROVE  status' = status \/ status'.state # "ready"
    <2>1. CASE StopEnds(p)
      BY <1>f, <2>1 DEF StopEnds
    <2>2. CASE StopBegins(p)
      BY <1>f, <2>2 DEF StopBegins
    <2>3. CASE \/ StopGivesUp(p) \/ StopConflicts(p) \/ StopJoins(p) \/ StopFindsNothing(p)
               \/ StopSettled(p) \/ StopExpires(p) \/ \E ok \in BOOLEAN : StopCloses(p, ok)
      BY <2>3 DEF StopGivesUp, StopConflicts, StopJoins, StopFindsNothing, StopSettled, StopExpires,
           StopCloses, manager
    <2>. QED  BY <1>3, <2>1, <2>2, <2>3 DEF StopStep
  <1>4. CASE ReconfigureStep("window")
    <2>1. CASE \/ ReconfigureGivesUp("window") \/ ReconfigureConflicts("window") \/ ReconfigureBegins("window")
               \/ ReconfigureSettled("window") \/ ReconfigureExpires("window")
               \/ \E ok \in BOOLEAN : ReconfigureCloses("window", ok)
      BY <1>f, <1>r, <2>1 DEF ReconfigureGivesUp, ReconfigureConflicts, ReconfigureBegins, ReconfigureSettled,
           ReconfigureExpires, ReconfigureCloses, manager
    <2>2. CASE \/ ReconfigureSecret("window", "provider", "password")
               \/ ReconfigureSecret("window", "password", "presence")
               \/ (\E s \in Secret : SecretFails("window", s)) \/ PresenceRead("window")
      BY <1>r, <2>2 DEF ReconfigureSecret, SecretFails, PresenceRead, manager
    <2>3. CASE SettingsSaved("window") \/ SaveFails("window")
      BY <1>r, <2>3 DEF SettingsSaved, SaveFails, manager
    <2>4. CASE ReconfigureCommits("window")
      <3>1. status' = [state |-> "disabled", generation |-> status.generation, revision |-> prefs + 1]
        BY <2>4 DEF ReconfigureCommits
      <3>. QED  BY <3>1
    <2>. QED  BY <1>4, <2>1, <2>2, <2>3, <2>4 DEF ReconfigureStep
  <1>5. ASSUME NEW g \in Attempt, WorkerStep(g) \/ DisposerStep(g) \/ MonitorStep(g) \/ TunnelDies(g)
        PROVE  status' = status \/ status'.state # "ready"
    BY <1>f, <1>5 DEF WorkerStep, WorkerIngress, WorkerTunnel, WorkerChecks, WorkerActivates,
         DisposerStep, LateStart, LateStartDisposed, MonitorStep, MonitorFires, MonitorCloses, TunnelDies, manager
  <1>6. CASE UNCHANGED vars
    BY <1>6 DEF vars, manager
  <1>. QED  BY <1>1, <1>2, <1>3, <1>4, <1>5, <1>6 DEF Next

(* A start that Stop, Reconfigure or its own deadline cancelled never      *)
(* becomes ready, however late its runtime answers (finishStart).          *)
THEOREM CancelledStartsStayDown == Spec => CancelledStartStaysDown
  <1>1. Inv /\ [Next]_vars => [status'.state = "ready" /\ status.state # "ready" => ~op[endpoint'].cancelled]_vars
    <2>. SUFFICES ASSUME Inv, [Next]_vars, status'.state = "ready", status.state # "ready"
                  PROVE  ~op[endpoint'].cancelled
      OBVIOUS
    <2>1. StartReady("window")
      BY OthersAreNotReady DEF Inv
    <2>2. endpoint' = W.attempt /\ start = W.attempt /\ status.state = "starting"
      BY <2>1 DEF StartReady, Current, W
    <2>. QED  BY <2>2 DEF Inv, StartingIsOurs
  <1>. QED  BY <1>1, InvAlways, PTL DEF CancelledStartStaysDown, Spec

(* When the new settings are installed the reconfiguration is still the    *)
(* current operation: the manager's check for a newer one never refuses a  *)
(* commit whose file is written.                                           *)
THEOREM CommitsAreCurrent == Spec => [](W.at = "commit" => status.generation = W.generation)
  <1>1. Inv => (W.at = "commit" => status.generation = W.generation)
    BY DEF Inv, CommitIsCurrent, Changing
  <1>. QED  BY <1>1, InvAlways, PTL
=============================================================================
