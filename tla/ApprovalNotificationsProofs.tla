---------------------- MODULE ApprovalNotificationsProofs ----------------------
(***************************************************************************)
(* A stopped service stays silent, and a request is announced at most once *)
(* for any number of requests, commands and clicks.                        *)
(*                                                                         *)
(* That a request is announced once rests on who may announce it: the      *)
(* goroutine that claimed its delivery, of which there is one, and only as *)
(* long as nothing was sent.  The claim is made on a record that waits,    *)
(* and a record waits only for a request nobody has claimed yet, because a *)
(* new record is made only for the request the coordinator has just drawn: *)
(* whenever a state is observed, the record, if there is one, is that of   *)
(* the request the coordinator waits for.                                  *)
(***************************************************************************)
EXTENDS ApprovalNotifications, TLAPS

-----------------------------------------------------------------------------
(* Bags of goroutines.                                                      *)

IsBag(b) == b \in [DOMAIN b -> Nat \ {0}]

LEMMA AddOne ==
  ASSUME NEW b, IsBag(b), NEW t
  PROVE  LET c == b (+) SetToBag({t})
         IN  /\ IsBag(c) /\ DOMAIN c = DOMAIN b \cup {t}
             /\ \A e \in DOMAIN b : e # t => c[e] = b[e]
             /\ t \notin DOMAIN b => c[t] = 1
  <1> DEFINE c == b (+) SetToBag({t})
  <1>1. SetToBag({t}) = [e \in {t} |-> 1]
    BY DEF SetToBag
  <1>2. c = [e \in DOMAIN b \cup {t} |-> (IF e \in DOMAIN b THEN b[e] ELSE 0)
                                          + (IF e = t THEN 1 ELSE 0)]
    BY <1>1 DEF (+)
  <1> HIDE DEF c
  <1>3. DOMAIN c = DOMAIN b \cup {t}
    BY <1>2
  <1>4. \A u \in DOMAIN b : b[u] \in Nat \ {0}
    BY DEF IsBag
  <1>5. \A u \in DOMAIN b : u # t => c[u] = b[u]
    BY <1>2, <1>4
  <1>6. t \notin DOMAIN b => c[t] = 1
    BY <1>2
  <1>7. ASSUME NEW u \in DOMAIN c PROVE c[u] \in Nat \ {0}
    <2>1. c[u] = (IF u \in DOMAIN b THEN b[u] ELSE 0) + (IF u = t THEN 1 ELSE 0)
      BY <1>2, <1>3
    <2>2. CASE u \in DOMAIN b
      <3>1. b[u] \in Nat /\ b[u] > 0
        BY <2>2, <1>4
      <3>. QED  BY <2>1, <2>2, <3>1
    <2>3. CASE u \notin DOMAIN b
      BY <1>3, <2>1, <2>3
    <2>. QED  BY <2>2, <2>3
  <1>8. c = [e \in DOMAIN c |-> c[e]]
    BY <1>2, <1>3
  <1>9. IsBag(c)
    BY <1>7, <1>8 DEF IsBag
  <1>. QED  BY <1>3, <1>5, <1>6, <1>9 DEF c

LEMMA AddNone ==
  ASSUME NEW b, IsBag(b)
  PROVE  b (+) EmptyBag = b
  <1>1. DOMAIN EmptyBag = {}
    BY DEF EmptyBag, SetToBag
  <1>2. b (+) EmptyBag = [e \in DOMAIN b |-> b[e] + 0]
    BY <1>1 DEF (+)
  <1>3. \A u \in DOMAIN b : b[u] \in Nat
    BY DEF IsBag
  <1>4. b = [e \in DOMAIN b |-> b[e]]
    BY DEF IsBag
  <1>. QED  BY <1>2, <1>3, <1>4

LEMMA TakeOne ==
  ASSUME NEW b, IsBag(b), NEW t \in DOMAIN b, NEW c, c = b (-) SetToBag({t})
  PROVE  /\ IsBag(c) /\ DOMAIN c \subseteq DOMAIN b
         /\ \A u \in DOMAIN c : u # t => c[u] = b[u]
         /\ b[t] = 1 => t \notin DOMAIN c
  <1> DEFINE left == [e \in DOMAIN b |-> IF e = t THEN b[e] - 1 ELSE b[e]]
  <1>1. SetToBag({t}) = [e \in {t} |-> 1]
    BY DEF SetToBag
  <1>2. c = [e \in {d \in DOMAIN left : left[d] > 0} |-> left[e]]
    BY <1>1 DEF (-)
  <1>3. \A u \in DOMAIN b : b[u] \in Nat \ {0}
    BY DEF IsBag
  <1>4. /\ DOMAIN left = DOMAIN b
        /\ \A u \in DOMAIN b : left[u] = IF u = t THEN b[u] - 1 ELSE b[u]
    OBVIOUS
  <1> HIDE DEF left
  <1>5. DOMAIN c = {d \in DOMAIN b : left[d] > 0}
    BY <1>2, <1>4
  <1>6. \A u \in DOMAIN c : c[u] = left[u] /\ left[u] > 0 /\ u \in DOMAIN b
    BY <1>2, <1>5
  <1>7. \A u \in DOMAIN c : c[u] \in Nat \ {0}
    BY <1>3, <1>4, <1>6
  <1>8. c = [e \in DOMAIN c |-> c[e]]
    BY <1>2, <1>5
  <1>9. IsBag(c)
    BY <1>7, <1>8 DEF IsBag
  <1>10. \A u \in DOMAIN c : u # t => c[u] = b[u]
    BY <1>4, <1>6
  <1>11. b[t] = 1 => t \notin DOMAIN c
    BY <1>4, <1>6
  <1>. QED  BY <1>5, <1>9, <1>10, <1>11

LEMMA BecomesBag ==
  ASSUME IsBag(tasks), NEW t \in DOMAIN tasks, NEW u, Becomes(t, u)
  PROVE  /\ IsBag(tasks')
         /\ \A v \in DOMAIN tasks' : v \in DOMAIN tasks \/ (u # None /\ v = u)
         /\ \A v \in DOMAIN tasks' : v # t /\ (u = None \/ v # u) => tasks'[v] = tasks[v]
         /\ tasks[t] = 1 /\ u # t => t \notin DOMAIN tasks'
         /\ u # None /\ u # t /\ u \notin DOMAIN tasks => tasks'[u] = 1
  <1> DEFINE left == tasks (-) SetToBag({t})
  <1>1. /\ IsBag(left) /\ DOMAIN left \subseteq DOMAIN tasks
        /\ \A v \in DOMAIN left : v # t => left[v] = tasks[v]
        /\ tasks[t] = 1 => t \notin DOMAIN left
    BY TakeOne
  <1> HIDE DEF left
  <1>2. CASE u = None
    <2>1. tasks' = left (+) EmptyBag
      BY <1>2 DEF Becomes, left
    <2>2. tasks' = left
      BY <1>1, <2>1, AddNone
    <2>. QED  BY <1>1, <1>2, <2>2
  <1>3. CASE u # None
    <2>1. tasks' = left (+) SetToBag({u})
      BY <1>3 DEF Becomes, left
    <2>2. /\ IsBag(tasks') /\ DOMAIN tasks' = DOMAIN left \cup {u}
          /\ \A v \in DOMAIN left : v # u => tasks'[v] = left[v]
          /\ u \notin DOMAIN left => tasks'[u] = 1
      <3> DEFINE more == left (+) SetToBag({u})
      <3>1. IsBag(more) /\ DOMAIN more = DOMAIN left \cup {u}
        BY <1>1, AddOne
      <3>2. \A e \in DOMAIN left : e # u => more[e] = left[e]
        BY <1>1, AddOne
      <3>3. u \notin DOMAIN left => more[u] = 1
        BY <1>1, AddOne
      <3>. QED  BY <2>1, <3>1, <3>2, <3>3
    <2>. QED  BY <1>1, <1>3, <2>2
  <1>. QED  BY <1>2, <1>3

(* Who may still announce a request: the goroutine that claimed it.         *)
Before == {"clean", "removing", "send", "sending"}
Sender(t, r) == t.request = r /\ t.pc \in Before
NoSender(b, r) == \A t \in DOMAIN b : ~Sender(t, r)
OneSender(b, r) == \A t \in DOMAIN b :
  Sender(t, r) => b[t] = 1 /\ \A u \in DOMAIN b : Sender(u, r) => u = t

(* A goroutine that goes on keeps its claim or gives it up.                 *)
LEMMA SendersGoOn ==
  ASSUME IsBag(tasks), NEW t \in DOMAIN tasks, NEW u, u # t, Becomes(t, u), NEW r,
         u # None /\ Sender(u, r) => Sender(t, r),
         OneSender(tasks, r)
  PROVE  /\ OneSender(tasks', r)
         /\ NoSender(tasks, r) => NoSender(tasks', r)
         /\ Sender(t, r) /\ ~(u # None /\ Sender(u, r)) => NoSender(tasks', r)
  <1>1. /\ \A v \in DOMAIN tasks' : v \in DOMAIN tasks \/ (u # None /\ v = u)
        /\ \A v \in DOMAIN tasks' : v # t /\ (u = None \/ v # u) => tasks'[v] = tasks[v]
        /\ tasks[t] = 1 => t \notin DOMAIN tasks'
        /\ u # None /\ u \notin DOMAIN tasks => tasks'[u] = 1
    BY BecomesBag
  <1>2. CASE ~Sender(t, r)
    <2>1. \A v \in DOMAIN tasks' : Sender(v, r) => v \in DOMAIN tasks /\ tasks'[v] = tasks[v]
      BY <1>1, <1>2
    <2>. QED  BY <1>2, <2>1 DEF OneSender, NoSender
  <1>3. CASE Sender(t, r)
    <2>1. tasks[t] = 1 /\ \A v \in DOMAIN tasks : Sender(v, r) => v = t
      BY <1>3 DEF OneSender
    <2>2. \A v \in DOMAIN tasks' : Sender(v, r) => u # None /\ v = u /\ u \notin DOMAIN tasks
      BY <1>1, <2>1
    <2>. QED  BY <1>1, <1>3, <2>2 DEF OneSender, NoSender
  <1>. QED  BY <1>2, <1>3

-----------------------------------------------------------------------------
(* The invariant.                                                           *)

Clicks == [request : Request, generation : Nat, answer : {"none", "ok", "failed"}]

Types ==
  /\ revision \in Nat /\ pending \in Request \cup {None} /\ requests \in 0 .. MaxRequests
  /\ echo \in Echoes \cup {None}
  /\ availability \in {"starting", "authorizing", "ready", "unavailable", "stopped"}
  /\ generation \in Nat
  /\ authorization \in {"none", "queued", "asking", "granted", "refused"}
  /\ current \in Deliveries \cup {None}
  /\ IsBag(tasks) /\ DOMAIN tasks \subseteq Goroutines
  /\ IsBag(clicks) /\ DOMAIN clicks \subseteq Clicks
  /\ shown \subseteq Request \cup {None} /\ sent \in [Request -> Nat]
  /\ closed \in BOOLEAN /\ overtaken \in BOOLEAN

(* The goroutine of the shutdown runs alone to the end.                     *)
Silent ==
  /\ availability = "stopped" => current = None
  /\ \A t \in DOMAIN tasks : t.last \/ t.pc = "close" => availability = "stopped"
  /\ closed => availability = "stopped"
  /\ closed => \A t \in DOMAIN tasks : t.pc # "sending"

(* The record is that of the request the coordinator waits for.             *)
Latest ==
  /\ current # None => current.request = pending
  /\ availability # "stopped" /\ current = None => pending = None
  /\ pending # None => pending <= requests
  /\ \A c \in DOMAIN clicks : c.request <= requests /\ (c.answer = "ok" => c.request # pending)

Untold(r) == NoSender(tasks, r) /\ sent[r] = 0

(* One goroutine may announce a request, and only the first time.           *)
Claimed ==
  \A r \in Request :
    /\ OneSender(tasks, r)
    /\ NoSender(tasks, r) \/ sent[r] = 0
    /\ sent[r] <= 1
    /\ r > requests => Untold(r)
    /\ current # None /\ current.request = r /\ current.delivery = "waiting" => Untold(r)

Inv == Types /\ Silent /\ (overtaken \/ (Latest /\ Claimed))

-----------------------------------------------------------------------------
(* What the building blocks do.                                             *)

LEMMA AddTask ==
  ASSUME Types, NEW t \in Goroutines, tasks' = tasks (+) SetToBag({t})
  PROVE  /\ IsBag(tasks') /\ DOMAIN tasks' = DOMAIN tasks \cup {t}
         /\ \A r \in Request :
              /\ ~Sender(t, r) /\ OneSender(tasks, r) => OneSender(tasks', r)
              /\ ~Sender(t, r) /\ NoSender(tasks, r) => NoSender(tasks', r)
              /\ NoSender(tasks, r) => OneSender(tasks', r)
  <1> DEFINE more == tasks (+) SetToBag({t})
  <1>0. IsBag(tasks)
    BY DEF Types
  <1>1. IsBag(more) /\ DOMAIN more = DOMAIN tasks \cup {t}
    BY <1>0, AddOne
  <1>2. \A e \in DOMAIN tasks : e # t => more[e] = tasks[e]
    BY <1>0, AddOne
  <1>3. t \notin DOMAIN tasks => more[t] = 1
    BY <1>0, AddOne
  <1>4. more = tasks'
    OBVIOUS
  <1> HIDE DEF more
  <1>5. ASSUME NEW r \in Request, ~Sender(t, r), OneSender(tasks, r) PROVE OneSender(tasks', r)
    <2>1. \A v \in DOMAIN tasks' : Sender(v, r) => v \in DOMAIN tasks /\ tasks'[v] = tasks[v]
      BY <1>1, <1>2, <1>4, <1>5
    <2>. QED  BY <1>5, <2>1 DEF OneSender
  <1>6. ASSUME NEW r \in Request, ~Sender(t, r), NoSender(tasks, r) PROVE NoSender(tasks', r)
    BY <1>1, <1>4, <1>6 DEF NoSender
  <1>7. ASSUME NEW r \in Request, NoSender(tasks, r) PROVE OneSender(tasks', r)
    <2>1. \A v \in DOMAIN tasks' : Sender(v, r) => v = t /\ t \notin DOMAIN tasks
      BY <1>1, <1>4, <1>7 DEF NoSender
    <2>. QED  BY <1>3, <1>4, <2>1 DEF OneSender
  <1>. QED  BY <1>1, <1>4, <1>5, <1>6, <1>7

(* A new goroutine may announce the request it was made for and no other.   *)
LEMMA Spawning ==
  ASSUME Types, NEW old \in Request \cup {None}, NEW request \in Request \cup {None},
         tasks' = tasks (+) Spawned(old, request)
  PROVE  /\ IsBag(tasks') /\ DOMAIN tasks' \subseteq Goroutines
         /\ \A t \in DOMAIN tasks' : t \in DOMAIN tasks \/ (~t.last /\ t.pc \in {"clean", "send"})
         /\ \A r \in Request :
              /\ r # request /\ OneSender(tasks, r) => OneSender(tasks', r)
              /\ r # request /\ NoSender(tasks, r) => NoSender(tasks', r)
              /\ NoSender(tasks, r) => OneSender(tasks', r)
  <1>1. CASE old = None /\ request = None
    <2>1. tasks' = tasks
      BY <1>1, AddNone DEF Spawned, Types
    <2>2. \A r \in Request : NoSender(tasks, r) => OneSender(tasks, r)
      BY DEF NoSender, OneSender
    <2>. QED  BY <2>1, <2>2 DEF Types
  <1>2. CASE ~(old = None /\ request = None)
    <2> DEFINE pc == IF old = None THEN "send" ELSE "clean"
               t == Task(pc, old, request, FALSE)
    <2>1. /\ t \in Goroutines /\ t.request = request /\ ~t.last /\ t.pc \in {"clean", "send"}
      BY DEF Task, Goroutines, Types
    <2>2. tasks' = tasks (+) SetToBag({t})
      BY <1>2 DEF Spawned
    <2> HIDE DEF t
    <2>3. \A r \in Request : r # request => ~Sender(t, r)
      BY <2>1 DEF Sender
    <2>4. /\ IsBag(tasks') /\ DOMAIN tasks' = DOMAIN tasks \cup {t}
          /\ \A r \in Request :
              /\ ~Sender(t, r) /\ OneSender(tasks, r) => OneSender(tasks', r)
              /\ ~Sender(t, r) /\ NoSender(tasks, r) => NoSender(tasks', r)
              /\ NoSender(tasks, r) => OneSender(tasks', r)
      BY <2>1, <2>2, AddTask
    <2>. QED  BY <2>1, <2>3, <2>4 DEF Types
  <1>. QED  BY <1>1, <1>2

LEMMA Waits ==
  ASSUME NEW r \in Request
  PROVE  /\ Waiting(r) \in Deliveries /\ Waiting(r).request = r
         /\ Waiting(r).delivery = "waiting" /\ Waiting(r) # None
  <1>1. Waiting(r) \in Deliveries
    BY DEF Waiting, Deliveries
  <1>2. Waiting(r) # None
    BY <1>1, NoneAssumption
  <1>. QED  BY <1>1, <1>2 DEF Waiting

(* A claim is made on a record that waits, which then waits no longer.      *)
LEMMA Claiming ==
  ASSUME NEW available, NEW record \in Deliveries \cup {None}
  PROVE  /\ Claim(available, record) \in Deliveries \cup {None}
         /\ record = None => Claim(available, record) = None /\ ~Claims(available, record)
         /\ record # None => /\ Claim(available, record) # None
                             /\ Claim(available, record).request = record.request
                             /\ record.request \in Request
         /\ Claims(available, record) => record.delivery = "waiting"
         /\ record # None /\ Claim(available, record).delivery = "waiting"
              => ~Claims(available, record) /\ record.delivery = "waiting"
  <1>1. record # None => [record EXCEPT !.delivery = "attempting"] \in Deliveries
    BY DEF Deliveries
  <1>2. record # None => [record EXCEPT !.delivery = "attempting"] # None
    BY <1>1, NoneAssumption
  <1>3. record # None => /\ [record EXCEPT !.delivery = "attempting"].request = record.request
                         /\ [record EXCEPT !.delivery = "attempting"].delivery = "attempting"
                         /\ record.request \in Request
    BY DEF Deliveries
  <1>. QED  BY <1>1, <1>2, <1>3 DEF Claim, Claims

LEMMA Invalidating ==
  ASSUME Types
  PROVE  /\ Invalidated \in Request \cup {None}
         /\ current = None => Invalidated = None
         /\ current # None => Invalidated = current.request /\ current.request \in Request
  BY DEF Types, Invalidated, Deliveries

(* A state is observed: either it shows the request the service holds, or   *)
(* the record is made anew.                                                 *)
LEMMA Observing ==
  ASSUME Types, NEW request \in Request \cup {None}, Observe(request)
  PROVE  /\ current' \in Deliveries \cup {None}
         /\ IsBag(tasks') /\ DOMAIN tasks' \subseteq Goroutines
         /\ \A t \in DOMAIN tasks' : t \in DOMAIN tasks \/ (~t.last /\ t.pc \in {"clean", "send"})
         /\ \/ UNCHANGED <<current, tasks>>
               /\ (availability = "stopped" \/ SameRequest(request))
            \/ /\ availability # "stopped" /\ ~SameRequest(request)
               /\ request = None => current' = None
               /\ request # None => current' # None /\ current'.request = request
               /\ \A r \in Request :
                    /\ r # request /\ OneSender(tasks, r) => OneSender(tasks', r)
                    /\ r # request /\ NoSender(tasks, r) => NoSender(tasks', r)
                    /\ NoSender(tasks, r) => OneSender(tasks', r)
               /\ current' # None /\ current'.delivery = "waiting"
                    => \A r \in Request : NoSender(tasks, r) => NoSender(tasks', r)
  <1>1. CASE availability = "stopped" \/ SameRequest(request)
    BY <1>1 DEF Observe, Types
  <1>2. CASE ~(availability = "stopped" \/ SameRequest(request))
    <2> DEFINE record == IF request = None THEN None ELSE Waiting(request)
               mine == IF Claims(availability, record) THEN request ELSE None
    <2>1. /\ current' = Claim(availability, record)
          /\ tasks' = tasks (+) Spawned(Leftover, mine)
      BY <1>2 DEF Observe
    <2>2. /\ record \in Deliveries \cup {None} /\ (request = None => record = None)
          /\ request # None => record # None /\ record.request = request
      BY Waits
    <2>3. mine \in Request \cup {None} /\ (mine = None \/ mine = request)
      OBVIOUS
    <2>4. Claims(availability, record) \/ mine = None
      OBVIOUS
    <2> HIDE DEF record, mine
    <2>5. Leftover \in Request \cup {None}
      BY Invalidating DEF Leftover
    <2>6. /\ IsBag(tasks') /\ DOMAIN tasks' \subseteq Goroutines
          /\ \A t \in DOMAIN tasks' : t \in DOMAIN tasks \/ (~t.last /\ t.pc \in {"clean", "send"})
          /\ \A r \in Request :
               /\ r # mine /\ OneSender(tasks, r) => OneSender(tasks', r)
               /\ r # mine /\ NoSender(tasks, r) => NoSender(tasks', r)
               /\ NoSender(tasks, r) => OneSender(tasks', r)
      BY <2>1, <2>3, <2>5, Spawning
    <2>7. /\ current' \in Deliveries \cup {None}
          /\ record = None => current' = None
          /\ record # None => current' # None /\ current'.request = record.request
          /\ record # None /\ current'.delivery = "waiting" => ~Claims(availability, record)
      BY <2>1, <2>2, Claiming
    <2>8. \A r \in Request : r # None
      BY BoundsAssumption DEF Request
    <2>9. current' # None /\ current'.delivery = "waiting" => mine = None
      BY <2>4, <2>7
    <2>. QED  BY <1>2, <2>2, <2>3, <2>6, <2>7, <2>8, <2>9
  <1>. QED  BY <1>1, <1>2

-----------------------------------------------------------------------------
(* A goroutine's step: it becomes u, or ends, and nothing but the delivery  *)
(* of its request and the availability follow from it.                      *)

Follows(t, u) ==
  /\ u \in Goroutines \cup {None} /\ Becomes(t, u) /\ u # t
  /\ u # None => /\ u.request = t.request
                 /\ u.last => t.last
                 /\ u.pc = "close" => t.last
                 /\ u.pc \in Before => t.pc \in Before
                 /\ u.pc = "sending" => availability = "ready"

Leaves(t, u) ==
  /\ UNCHANGED <<revision, pending, requests, commands, echo, overtaken, generation,
                 authorization, clicks>>
  /\ availability' = availability \/ (availability' = "unavailable" /\ availability # "stopped")
  /\ current = None => current' = None
  /\ current # None => /\ current' \in Deliveries /\ current' # None
                       /\ current'.request = current.request
                       /\ current'.delivery = "waiting" => current.delivery = "waiting"
  /\ \/ shown' \subseteq shown /\ UNCHANGED sent
     \/ /\ t.pc = "sending" /\ (u # None => u.pc \notin Before)
        /\ shown' = shown \cup {t.request} /\ sent' = [sent EXCEPT ![t.request] = @ + 1]
  /\ UNCHANGED closed \/ (closed' = TRUE /\ t.pc = "close" /\ NativeFree /\ u = None)

Points == {"clean", "removing", "send", "sending", "rechecking", "record", "close"}

LEMMA FollowsAt ==
  ASSUME NEW t \in Goroutines, NEW pc \in Points, Becomes(t, [t EXCEPT !.pc = pc]),
         pc # t.pc, pc = "close" => t.last, pc \in Before => t.pc \in Before,
         pc = "sending" => availability = "ready"
  PROVE  Follows(t, [t EXCEPT !.pc = pc]) /\ [t EXCEPT !.pc = pc].pc = pc
  <1> DEFINE u == [t EXCEPT !.pc = pc]
  <1>1. u \in Goroutines /\ u.request = t.request /\ u.last = t.last /\ u.pc = pc
    BY DEF Goroutines, Points
  <1>2. u # t /\ u # None
    BY <1>1, NoneAssumption
  <1>3. Becomes(t, u)
    OBVIOUS
  <1> HIDE DEF u
  <1>4. Follows(t, u)
    BY <1>1, <1>2, <1>3 DEF Follows
  <1>. QED  BY <1>1, <1>4 DEF u

LEMMA Ends ==
  ASSUME NEW t \in Goroutines, Becomes(t, None)
  PROVE  Follows(t, None)
  BY NoneAssumption DEF Follows

LEMMA CleanupEnds ==
  ASSUME Types, NEW t \in DOMAIN tasks, t.pc \in {"clean", "removing"},
         Becomes(t, AfterCleanup(t))
  PROVE  \E u : Follows(t, u)
  <1>1. t \in Goroutines /\ t.last \in BOOLEAN
    BY DEF Types, Goroutines
  <1>2. CASE t.last
    <2>1. Becomes(t, [t EXCEPT !.pc = "close"])
      BY <1>1, <1>2 DEF AfterCleanup
    <2>. QED  BY <1>1, <1>2, <2>1, FollowsAt DEF Before, Points
  <1>3. CASE ~t.last /\ t.request # None
    <2>1. Becomes(t, [t EXCEPT !.pc = "send"])
      BY <1>3 DEF AfterCleanup
    <2>. QED  BY <1>1, <2>1, FollowsAt DEF Before, Points
  <1>4. CASE ~t.last /\ t.request = None
    <2>1. AfterCleanup(t) = None
      BY <1>4 DEF AfterCleanup
    <2>2. Becomes(t, None)
      BY <2>1
    <2>. QED  BY <1>1, <2>2, Ends
  <1>. QED  BY <1>2, <1>3, <1>4

(* Nothing happens to the record.                                           *)
LEMMA RecordStays ==
  ASSUME Types, UNCHANGED current
  PROVE  /\ current = None => current' = None
         /\ current # None => /\ current' \in Deliveries /\ current' # None
                              /\ current'.request = current.request
                              /\ current'.delivery = "waiting" => current.delivery = "waiting"
  BY DEF Types

LEMMA GoroutineSteps ==
  ASSUME Types, NEW t \in DOMAIN tasks,
         \/ Cleanup(t) \/ Removed(t) \/ Send(t) \/ Sent(t) \/ SendFails(t) \/ Record(t) \/ Close(t)
         \/ \E lost \in BOOLEAN : Rechecked(t, lost)
  PROVE  \E u : Follows(t, u) /\ Leaves(t, u)
  <1>1. t \in Goroutines
    BY DEF Types
  <1>2. CASE Cleanup(t)
    <2>1. t.pc = "clean"
      BY <1>2 DEF Cleanup
    <2>2. CASE CanRemove(t)
      <3> DEFINE u == [t EXCEPT !.pc = "removing"]
      <3>1. Becomes(t, u)
        BY <1>2, <2>2 DEF Cleanup
      <3>2. Follows(t, u)
        BY <1>1, <2>1, <3>1, FollowsAt DEF Before, Points
      <3>3. Leaves(t, u)
        BY <1>2, RecordStays DEF Cleanup, Leaves, coordinator, service, desktop
      <3>. QED  BY <3>2, <3>3
    <2>3. CASE ~CanRemove(t)
      <3>1. Becomes(t, AfterCleanup(t))
        BY <1>2, <2>3 DEF Cleanup
      <3>2. PICK u : Follows(t, u)
        BY <2>1, <3>1, CleanupEnds
      <3>3. Leaves(t, u)
        BY <1>2, RecordStays DEF Cleanup, Leaves, coordinator, service, desktop
      <3>. QED  BY <3>2, <3>3
    <2>. QED  BY <2>2, <2>3
  <1>3. CASE Removed(t)
    <2>1. t.pc = "removing" /\ Becomes(t, AfterCleanup(t))
      BY <1>3 DEF Removed
    <2>2. PICK u : Follows(t, u)
      BY <2>1, CleanupEnds
    <2>3. Leaves(t, u)
      BY <1>3, RecordStays DEF Removed, Leaves, coordinator, service
    <2>. QED  BY <2>2, <2>3
  <1>4. CASE Send(t)
    <2>1. t.pc = "send"
      BY <1>4 DEF Send
    <2>2. \A u : Leaves(t, u)
      BY <1>4, RecordStays DEF Send, Leaves, coordinator, service, desktop
    <2>3. CASE CanSend(t)
      <3> DEFINE u == [t EXCEPT !.pc = "sending"]
      <3>1. Becomes(t, u) /\ availability = "ready"
        BY <1>4, <2>3 DEF Send, CanSend
      <3>2. Follows(t, u)
        BY <1>1, <2>1, <3>1, FollowsAt DEF Before, Points
      <3>. QED  BY <2>2, <3>2
    <2>4. CASE ~CanSend(t)
      <3>1. Becomes(t, None)
        BY <1>4, <2>4 DEF Send
      <3>2. Follows(t, None)
        BY <1>1, <3>1, Ends
      <3>. QED  BY <2>2, <3>2
    <2>. QED  BY <2>3, <2>4
  <1>5. CASE Sent(t)
    <2> DEFINE u == [t EXCEPT !.pc = "record"]
    <2>1. t.pc = "sending" /\ Becomes(t, u)
      BY <1>5 DEF Sent
    <2>2. Follows(t, u)
      BY <1>1, <2>1, FollowsAt DEF Before, Points
    <2>3. u.pc \notin Before
      BY <1>1, <2>1, FollowsAt DEF Before, Points
    <2>4. Leaves(t, u)
      BY <1>5, <2>1, <2>3, RecordStays DEF Sent, Leaves, coordinator, service
    <2>. QED  BY <2>2, <2>4

  <1>6. CASE SendFails(t)
    <2> DEFINE pc == IF t.generation = generation /\ availability = "ready" THEN "rechecking"
                                                                          ELSE "record"
               u == [t EXCEPT !.error = TRUE, !.pc = pc]
    <2>1. t.pc = "sending" /\ Becomes(t, u)
      BY <1>6 DEF SendFails
    <2>2. /\ u \in Goroutines /\ u.request = t.request /\ u.last = t.last
          /\ u.pc \in {"rechecking", "record"}
      BY <1>1 DEF Goroutines
    <2>3. u # None /\ u # t
      BY <2>1, <2>2, NoneAssumption
    <2> HIDE DEF u
    <2>4. Follows(t, u)
      BY <2>1, <2>2, <2>3 DEF Follows, Before
    <2>5. Leaves(t, u)
      BY <1>6, RecordStays DEF SendFails, Leaves, coordinator, service, desktop
    <2>. QED  BY <2>4, <2>5
  <1>7. ASSUME NEW lost \in BOOLEAN, Rechecked(t, lost)
        PROVE  \E u : Follows(t, u) /\ Leaves(t, u)
    <2> DEFINE u == [t EXCEPT !.pc = "record", !.lost = lost]
    <2>1. t.pc = "rechecking" /\ Becomes(t, u)
      BY <1>7 DEF Rechecked
    <2>2. u \in Goroutines /\ u.request = t.request /\ u.last = t.last /\ u.pc = "record"
      BY <1>1, <1>7 DEF Goroutines
    <2>3. u # None /\ u # t
      BY <2>1, <2>2, NoneAssumption
    <2> HIDE DEF u
    <2>4. Follows(t, u)
      BY <2>1, <2>2, <2>3 DEF Follows, Before
    <2>5. Leaves(t, u)
      BY <1>7, RecordStays DEF Rechecked, Leaves, coordinator, service, desktop
    <2>. QED  BY <2>4, <2>5
  <1>8. CASE Record(t)
    <2>1. Becomes(t, None)
      BY <1>8 DEF Record
    <2>2. Follows(t, None)
      BY <1>1, <2>1, Ends
    <2>3. /\ current = None => current' = None
          /\ current # None => /\ current' \in Deliveries /\ current' # None
                               /\ current'.request = current.request
                               /\ current'.delivery = "waiting" => current.delivery = "waiting"
      <3>1. CASE UNCHANGED current
        BY <3>1, RecordStays
      <3>2. CASE current' # current
        <4>1. current # None /\ current \in Deliveries
          BY <1>8, <3>2 DEF Record, Types
        <4>2. \E d \in {"failed", "delivered"} : current' = [current EXCEPT !.delivery = d]
          BY <1>8, <3>2 DEF Record
        <4>3. PICK d \in {"failed", "delivered"} : current' = [current EXCEPT !.delivery = d]
          BY <4>2
        <4>4. /\ current' \in Deliveries /\ current'.request = current.request
              /\ current'.delivery = d
          BY <4>1, <4>3 DEF Deliveries
        <4>. QED  BY <4>1, <4>4, NoneAssumption
      <3>. QED  BY <3>1, <3>2
    <2>4. availability' = availability \/ (availability' = "unavailable" /\ availability # "stopped")
      BY <1>8 DEF Record
    <2>5. Leaves(t, None)
      BY <1>8, <2>3, <2>4 DEF Record, Leaves, coordinator, desktop
    <2>. QED  BY <2>2, <2>5
  <1>9. CASE Close(t)
    <2>1. Becomes(t, None)
      BY <1>9 DEF Close
    <2>2. Follows(t, None)
      BY <1>1, <2>1, Ends
    <2>3. Leaves(t, None)
      BY <1>9, RecordStays DEF Close, Leaves, coordinator, service
    <2>. QED  BY <2>2, <2>3
  <1>. QED  BY <1>2, <1>3, <1>4, <1>5, <1>6, <1>7, <1>8, <1>9

-----------------------------------------------------------------------------
(* The invariant holds at first.                                            *)
LEMMA InitiallyInv == Init => Inv
  <1> SUFFICES ASSUME Init PROVE Inv
    OBVIOUS
  <1>1. DOMAIN EmptyBag = {} /\ IsBag(EmptyBag)
    BY DEF EmptyBag, SetToBag, IsBag
  <1>2. DOMAIN tasks = {} /\ DOMAIN clicks = {} /\ IsBag(tasks) /\ IsBag(clicks)
    BY <1>1 DEF Init
  <1>3. sent = [r \in Request |-> 0]
    BY DEF Init
  <1>4. Types
    <2>1. 0 \in 0 .. MaxRequests
      BY BoundsAssumption
    <2>2. sent \in [Request -> Nat]
      BY <1>3
    <2>3. /\ revision \in Nat /\ pending \in Request \cup {None} /\ requests \in 0 .. MaxRequests
          /\ echo \in Echoes \cup {None} /\ current \in Deliveries \cup {None}
          /\ availability = "starting" /\ generation \in Nat /\ authorization = "none"
          /\ shown = {} /\ closed = FALSE /\ overtaken = FALSE
      BY <2>1 DEF Init
    <2>. QED  BY <1>2, <2>2, <2>3 DEF Types
  <1>5. Silent
    BY <1>2 DEF Init, Silent
  <1>6. Latest
    BY <1>2 DEF Init, Latest
  <1>7. Claimed
    BY <1>2, <1>3 DEF Init, Claimed, OneSender, NoSender, Untold
  <1>. QED  BY <1>4, <1>5, <1>6, <1>7 DEF Inv

-----------------------------------------------------------------------------
(* Every step keeps it.                                                     *)

LEMMA GoroutineKeeps ==
  ASSUME Inv, NEW t \in DOMAIN tasks, NEW u, Follows(t, u), Leaves(t, u)
  PROVE  Inv'
  <1>1. Types /\ t \in Goroutines
    BY DEF Inv, Types
  <1>2. Becomes(t, u) /\ u \in Goroutines \cup {None} /\ u # t
    BY DEF Follows
  <1>3. /\ IsBag(tasks')
        /\ \A v \in DOMAIN tasks' : v \in DOMAIN tasks \/ (u # None /\ v = u)
    BY <1>1, <1>2, BecomesBag DEF Types
  <1>4. DOMAIN tasks' \subseteq Goroutines
    BY <1>1, <1>2, <1>3 DEF Types
  <1>5. sent' \in [Request -> Nat] /\ shown' \subseteq Request \cup {None}
    <2>1. CASE UNCHANGED sent /\ shown' \subseteq shown
      BY <1>1, <2>1 DEF Types
    <2>2. CASE shown' = shown \cup {t.request} /\ sent' = [sent EXCEPT ![t.request] = @ + 1]
      <3>1. t.request \in Request \cup {None}
        BY <1>1 DEF Goroutines
      <3>2. sent \in [Request -> Nat] /\ shown \subseteq Request \cup {None}
        BY <1>1 DEF Types
      <3>3. sent' = [r \in Request |-> IF r = t.request THEN sent[r] + 1 ELSE sent[r]]
        BY <2>2, <3>2
      <3>4. \A r \in Request : sent[r] \in Nat /\ sent[r] + 1 \in Nat
        BY <3>2
      <3>5. sent' \in [Request -> Nat]
        BY <3>3, <3>4
      <3>. QED  BY <2>2, <3>1, <3>2, <3>5
    <2>. QED  BY <2>1, <2>2 DEF Leaves
  <1>6. Types'
    <2>1. current' \in Deliveries \cup {None} /\ closed' \in BOOLEAN
      BY <1>1 DEF Leaves, Types
    <2>2. availability' \in {"starting", "authorizing", "ready", "unavailable", "stopped"}
      BY <1>1 DEF Leaves, Types
    <2>. QED  BY <1>1, <1>3, <1>4, <1>5, <2>1, <2>2 DEF Types, Leaves
  <1>7. Silent'
    <2>1. availability = "stopped" <=> availability' = "stopped"
      BY DEF Leaves
    <2>2. Silent
      BY DEF Inv
    <2>3. availability' = "stopped" => current' = None
      BY <2>1, <2>2 DEF Silent, Leaves
    <2>4. \A v \in DOMAIN tasks' : v.last \/ v.pc = "close" => availability' = "stopped"
      BY <1>3, <2>1, <2>2 DEF Silent, Follows
    <2>5. CASE UNCHANGED closed
      BY <1>3, <2>1, <2>2, <2>3, <2>4, <2>5 DEF Silent, Follows
    <2>6. CASE closed' = TRUE /\ t.pc = "close" /\ NativeFree /\ u = None
      <3>1. \A v \in DOMAIN tasks' : v.pc # "sending"
        BY <1>3, <2>6 DEF NativeFree, BagToSet
      <3>2. availability' = "stopped"
        BY <2>1, <2>2, <2>6 DEF Silent
      <3>. QED  BY <2>3, <2>4, <3>1, <3>2 DEF Silent
    <2>. QED  BY <2>5, <2>6 DEF Leaves
  <1>8. ASSUME Latest PROVE Latest'
    BY <1>8 DEF Latest, Leaves
  <1>9. ASSUME Claimed, NEW r \in Request
        PROVE  /\ OneSender(tasks', r)
               /\ NoSender(tasks, r) => NoSender(tasks', r)
               /\ Sender(t, r) /\ ~(u # None /\ Sender(u, r)) => NoSender(tasks', r)
    <2>1. OneSender(tasks, r) /\ IsBag(tasks)
      BY <1>1, <1>9 DEF Claimed, Types
    <2>2. u # None /\ Sender(u, r) => Sender(t, r)
      BY DEF Follows, Sender
    <2>. QED  BY <1>2, <2>1, <2>2, SendersGoOn
  <1>10. ASSUME Claimed, NEW r \in Request
         PROVE  \/ sent'[r] = sent[r]
                \/ sent'[r] = sent[r] + 1 /\ Sender(t, r) /\ NoSender(tasks', r)
    <2>1. CASE UNCHANGED sent
      BY <2>1
    <2>2. CASE /\ t.pc = "sending" /\ (u # None => u.pc \notin Before)
               /\ sent' = [sent EXCEPT ![t.request] = @ + 1]
      <3>1. sent'[r] = IF r = t.request THEN sent[r] + 1 ELSE sent[r]
        BY <1>1, <2>2 DEF Types
      <3>2. r = t.request => Sender(t, r) /\ ~(u # None /\ Sender(u, r))
        BY <2>2 DEF Sender, Before
      <3>. QED  BY <1>9, <1>10, <3>1, <3>2
    <2>. QED  BY <2>1, <2>2 DEF Leaves
  <1>11. ASSUME Claimed PROVE Claimed'
    <2> SUFFICES ASSUME NEW r \in Request
                 PROVE  /\ OneSender(tasks', r)
                        /\ NoSender(tasks', r) \/ sent'[r] = 0
                        /\ sent'[r] <= 1
                        /\ r > requests' => Untold(r)'
                        /\ current' # None /\ current'.request = r /\ current'.delivery = "waiting"
                             => Untold(r)'
      BY DEF Claimed
    <2>1. /\ NoSender(tasks, r) \/ sent[r] = 0
          /\ sent[r] <= 1 /\ sent[r] \in Nat
          /\ r > requests => Untold(r)
          /\ current # None /\ current.request = r /\ current.delivery = "waiting" => Untold(r)
      BY <1>1, <1>11 DEF Claimed, Types
    <2>2. Sender(t, r) => ~NoSender(tasks, r)
      BY DEF NoSender
    <2>3. Untold(r) => Untold(r)'
      BY <1>9, <1>10, <1>11, <2>2 DEF Untold
    <2>4. NoSender(tasks', r) \/ sent'[r] = 0
      BY <1>9, <1>10, <1>11, <2>1
    <2>5. sent'[r] <= 1
      BY <1>10, <1>11, <2>1, <2>2
    <2>6. requests' = requests
      BY DEF Leaves
    <2>7. current' # None /\ current'.request = r /\ current'.delivery = "waiting"
            => current # None /\ current.request = r /\ current.delivery = "waiting"
      BY DEF Leaves
    <2>. QED  BY <1>9, <1>11, <2>1, <2>3, <2>4, <2>5, <2>6, <2>7
  <1>12. overtaken' = overtaken
    BY DEF Leaves
  <1>. QED  BY <1>6, <1>7, <1>8, <1>11, <1>12 DEF Inv

(* What an observation leaves of the order between claims and deliveries.   *)
LEMMA ObservedTypes ==
  ASSUME Types, Silent, NEW request \in Request \cup {None}, Observe(request),
         UNCHANGED <<availability, closed>>
  PROVE  /\ current' \in Deliveries \cup {None}
         /\ IsBag(tasks') /\ DOMAIN tasks' \subseteq Goroutines
         /\ Silent'
  <1>1. /\ current' \in Deliveries \cup {None}
        /\ IsBag(tasks') /\ DOMAIN tasks' \subseteq Goroutines
        /\ \A t \in DOMAIN tasks' : t \in DOMAIN tasks \/ (~t.last /\ t.pc \in {"clean", "send"})
    BY Observing
  <1>2. availability = "stopped" => UNCHANGED current
    BY DEF Observe
  <1>. QED  BY <1>1, <1>2 DEF Silent

LEMMA ObservedClaims ==
  ASSUME Types, Latest, Claimed, NEW request \in Request \cup {None}, Observe(request),
         UNCHANGED <<availability, sent>>, requests' \in Nat,
         \/ request = None /\ requests' = requests
         \/ request = pending /\ requests' = requests
         \/ request = requests + 1 /\ requests' = request
  PROVE  /\ Claimed'
         /\ current' # None => current'.request = request \/ availability = "stopped"
         /\ availability # "stopped" /\ current' = None => request = None
  <1>0. /\ requests \in Nat /\ requests <= requests' /\ (request # None => request <= requests')
        /\ \A r \in Request : r # None /\ r \in Nat
    BY BoundsAssumption DEF Types, Latest, Request
  <1>1. CASE /\ UNCHANGED <<current, tasks>>
             /\ availability = "stopped" \/ SameRequest(request)
    <2>1. Claimed'
      BY <1>0, <1>1 DEF Claimed, Untold, OneSender, NoSender
    <2>. QED  BY <1>1, <2>1 DEF SameRequest
  <1>2. CASE /\ availability # "stopped" /\ ~SameRequest(request)
             /\ request = None => current' = None
             /\ request # None => current' # None /\ current'.request = request
             /\ \A r \in Request :
                  /\ r # request /\ OneSender(tasks, r) => OneSender(tasks', r)
                  /\ r # request /\ NoSender(tasks, r) => NoSender(tasks', r)
                  /\ NoSender(tasks, r) => OneSender(tasks', r)
             /\ current' # None /\ current'.delivery = "waiting"
                  => \A r \in Request : NoSender(tasks, r) => NoSender(tasks', r)
    <2>1. ASSUME request # None PROVE Untold(request) /\ request > requests
      <3>1. request # pending
        BY <1>2, <2>1 DEF Latest, SameRequest
      <3>2. request = requests + 1
        BY <2>1, <3>1
      <3>. QED  BY <1>0, <2>1, <3>2 DEF Claimed
    <2>2. ASSUME NEW r \in Request
          PROVE  /\ OneSender(tasks', r)
                 /\ NoSender(tasks', r) \/ sent'[r] = 0
                 /\ sent'[r] <= 1
                 /\ r > requests' => Untold(r)'
                 /\ current' # None /\ current'.request = r /\ current'.delivery = "waiting"
                      => Untold(r)'
      <3>1. /\ OneSender(tasks, r)
            /\ NoSender(tasks, r) \/ sent[r] = 0
            /\ sent[r] <= 1
            /\ r > requests => Untold(r)
        BY DEF Claimed
      <3>2. CASE r # request
        <4>1. current' # None => current'.request # r
          BY <1>2, <3>2
        <4>. QED  BY <1>0, <1>2, <3>1, <3>2, <4>1 DEF Untold
      <3>3. CASE r = request
        <4>1. Untold(r)
          BY <1>0, <2>1, <3>3
        <4>2. ~(r > requests')
          BY <1>0, <3>3
        <4>. QED  BY <1>2, <4>1, <4>2 DEF Untold
      <3>. QED  BY <3>2, <3>3
    <2>3. Claimed'
      BY <2>2 DEF Claimed
    <2>. QED  BY <1>2, <2>3
  <1>. QED  BY <1>1, <1>2, Observing

(* The coordinator's steps.                                                 *)
LEMMA CoordinatorKeeps ==
  ASSUME Inv, Ask \/ Dismiss \/ Command \/ EchoAccepted \/ EchoObserved
  PROVE  Inv'
  <1>0. /\ Types /\ Silent /\ requests \in Nat /\ revision + 1 \in Nat
        /\ pending \in Request \cup {None} /\ None \in Request \cup {None}
    BY DEF Inv, Types
  <1>1. CASE Ask
    <2>1. /\ requests' = requests + 1 /\ pending' = requests + 1 /\ revision' = revision + 1
          /\ Observe(requests + 1)
          /\ UNCHANGED <<echo, overtaken, availability, generation, authorization, clicks,
                         shown, sent, closed>>
      BY <1>1 DEF Ask, Publish, desktop
    <2>2. requests + 1 \in Request /\ requests' \in 0 .. MaxRequests
      BY <1>0, <1>1, BoundsAssumption DEF Ask, Request, Types
    <2>3. /\ current' \in Deliveries \cup {None}
          /\ IsBag(tasks') /\ DOMAIN tasks' \subseteq Goroutines
          /\ Silent'
      BY <1>0, <2>1, <2>2, ObservedTypes
    <2>4. Types'
      BY <1>0, <2>1, <2>2, <2>3 DEF Types
    <2>5. ASSUME Latest, Claimed PROVE Latest' /\ Claimed'
      <3>1. /\ Claimed'
            /\ current' # None => current'.request = requests + 1 \/ availability = "stopped"
            /\ availability # "stopped" /\ current' = None => requests + 1 = None
        BY <1>0, <2>1, <2>2, <2>5, ObservedClaims
      <3>2. availability = "stopped" => current' = None
        BY <2>1, <2>3 DEF Silent
      <3>3. \A c \in DOMAIN clicks : c.request <= requests' /\ c.request # pending'
        <4>1. \A c \in DOMAIN clicks : c.request \in Nat
          BY <1>0 DEF Types, Clicks, Request
        <4>. QED  BY <1>0, <2>1, <2>5, <4>1 DEF Latest
      <3>. QED  BY <1>0, <2>1, <3>1, <3>2, <3>3 DEF Latest
    <2>. QED  BY <2>1, <2>3, <2>4, <2>5 DEF Inv
  <1>2. CASE Dismiss
    <2>1. /\ requests' = requests /\ pending' = None /\ revision' = revision + 1
          /\ Observe(None)
          /\ UNCHANGED <<echo, overtaken, availability, generation, authorization, clicks,
                         shown, sent, closed>>
      BY <1>2 DEF Dismiss, Publish, desktop
    <2>3. /\ current' \in Deliveries \cup {None}
          /\ IsBag(tasks') /\ DOMAIN tasks' \subseteq Goroutines
          /\ Silent'
      BY <1>0, <2>1, ObservedTypes
    <2>4. Types'
      BY <1>0, <2>1, <2>3 DEF Types
    <2>5. ASSUME Latest, Claimed PROVE Latest' /\ Claimed'
      <3>1. /\ Claimed'
            /\ current' # None => current'.request = None \/ availability = "stopped"
        BY <1>0, <2>1, <2>5, ObservedClaims
      <3>2. availability = "stopped" => current' = None
        BY <2>1, <2>3 DEF Silent
      <3>3. \A c \in DOMAIN clicks : c.request # None
        BY <1>0, BoundsAssumption DEF Types, Clicks, Request
      <3>. QED  BY <2>1, <2>5, <3>1, <3>2, <3>3 DEF Latest
    <2>. QED  BY <2>1, <2>3, <2>4, <2>5 DEF Inv
  <1>3. CASE Command
    <2>1. /\ requests' = requests /\ pending' = pending /\ revision' = revision + 1
          /\ Observe(pending)
          /\ echo' = [revision |-> revision + 1, request |-> pending, accepted |-> FALSE]
          /\ UNCHANGED <<overtaken, availability, generation, authorization, clicks,
                         shown, sent, closed>>
      BY <1>3 DEF Command, Publish, desktop
    <2>2. echo' \in Echoes
      BY <1>0, <2>1 DEF Echoes
    <2>3. /\ current' \in Deliveries \cup {None}
          /\ IsBag(tasks') /\ DOMAIN tasks' \subseteq Goroutines
          /\ Silent'
      BY <1>0, <2>1, ObservedTypes
    <2>4. Types'
      BY <1>0, <2>1, <2>2, <2>3 DEF Types
    <2>5. ASSUME Latest, Claimed PROVE Latest' /\ Claimed'
      <3>1. /\ Claimed'
            /\ current' # None => current'.request = pending \/ availability = "stopped"
            /\ availability # "stopped" /\ current' = None => pending = None
        BY <1>0, <2>1, <2>5, ObservedClaims
      <3>2. availability = "stopped" => current' = None
        BY <2>1, <2>3 DEF Silent
      <3>. QED  BY <2>1, <2>5, <3>1, <3>2 DEF Latest
    <2>. QED  BY <2>1, <2>3, <2>4, <2>5 DEF Inv
  <1>4. CASE EchoAccepted
    <2>1. /\ UNCHANGED <<revision, pending, requests, overtaken, availability, generation,
                         authorization, current, tasks, clicks, shown, sent, closed>>
          /\ echo # None
          /\ echo' = IF echo.revision < revision THEN None ELSE [echo EXCEPT !.accepted = TRUE]
      BY <1>4 DEF EchoAccepted, service, desktop
    <2>2. echo' \in Echoes \cup {None}
      BY <1>0, <2>1 DEF Types, Echoes
    <2>3. Types'
      BY <1>0, <2>1, <2>2 DEF Types
    <2>4. Silent'
      BY <1>0, <2>1 DEF Silent
    <2>5. (Latest => Latest') /\ (Claimed => Claimed')
      BY <2>1 DEF Latest, Claimed, Untold, OneSender, NoSender
    <2>. QED  BY <2>1, <2>3, <2>4, <2>5 DEF Inv
  <1>5. CASE EchoObserved
    <2>1. /\ requests' = requests /\ pending' = pending /\ revision' = revision
          /\ Observe(echo.request) /\ echo # None /\ echo' = None
          /\ overtaken' = (overtaken \/ echo.request # pending)
          /\ UNCHANGED <<availability, generation, authorization, clicks, shown, sent, closed>>
      BY <1>5 DEF EchoObserved, desktop
    <2>2. echo.request \in Request \cup {None}
      BY <1>0, <2>1 DEF Types, Echoes
    <2>3. /\ current' \in Deliveries \cup {None}
          /\ IsBag(tasks') /\ DOMAIN tasks' \subseteq Goroutines
          /\ Silent'
      BY <1>0, <2>1, <2>2, ObservedTypes
    <2>4. Types'
      BY <1>0, <2>1, <2>3 DEF Types
    <2>5. ASSUME Latest, Claimed, echo.request = pending PROVE Latest' /\ Claimed'
      <3>1. Observe(pending)
        BY <2>1, <2>5
      <3>2. /\ Claimed'
            /\ current' # None => current'.request = pending \/ availability = "stopped"
            /\ availability # "stopped" /\ current' = None => pending = None
        BY <1>0, <2>1, <2>5, <3>1, ObservedClaims
      <3>3. availability = "stopped" => current' = None
        BY <2>1, <2>3 DEF Silent
      <3>. QED  BY <2>1, <2>5, <3>2, <3>3 DEF Latest
    <2>6. overtaken' \/ (~overtaken /\ echo.request = pending)
      BY <2>1
    <2>. QED  BY <2>3, <2>4, <2>5, <2>6 DEF Inv
  <1>. QED  BY <1>1, <1>2, <1>3, <1>4, <1>5

(* Nothing changes but the life of the service and what it asks the desktop. *)
LEMMA ServiceKeeps ==
  ASSUME Inv, ServiceStartup \/ Authorize \/ \E granted \in BOOLEAN : Authorized(granted)
  PROVE  Inv'
  <1>1. /\ UNCHANGED <<revision, pending, requests, echo, overtaken, current, tasks, clicks,
                       shown, sent, closed>>
        /\ availability' = availability \/ (availability = "starting" /\ availability' # "stopped")
    BY DEF ServiceStartup, Authorize, Authorized, coordinator, desktop
  <1>2. Types'
    <2>1. /\ generation' \in Nat
          /\ availability' \in {"starting", "authorizing", "ready", "unavailable", "stopped"}
          /\ authorization' \in {"none", "queued", "asking", "granted", "refused"}
      BY DEF Inv, Types, ServiceStartup, Authorize, Authorized
    <2>. QED  BY <1>1, <2>1 DEF Inv, Types
  <1>3. Silent'
    BY <1>1 DEF Inv, Silent
  <1>4. (Latest => Latest') /\ (Claimed => Claimed')
    BY <1>1 DEF Latest, Claimed, Untold, OneSender, NoSender
  <1>. QED  BY <1>1, <1>2, <1>3, <1>4 DEF Inv

LEMMA ShutdownKeeps ==
  ASSUME Inv, ServiceShutdown
  PROVE  Inv'
  <1> DEFINE pc == IF Invalidated = None THEN "close" ELSE "clean"
             t == [Task(pc, Invalidated, None, TRUE) EXCEPT !.generation = generation + 1]
  <1>1. /\ UNCHANGED <<revision, pending, requests, echo, overtaken, authorization, clicks,
                       shown, sent, closed>>
        /\ generation' = generation + 1 /\ availability' = "stopped" /\ current' = None
        /\ tasks' = tasks (+) SetToBag({t})
    BY DEF ServiceShutdown, coordinator, desktop
  <1>2. Types /\ Silent /\ generation \in Nat /\ generation + 1 \in Nat
    BY DEF Inv, Types
  <1>3. Invalidated \in Request \cup {None}
    BY <1>2, Invalidating
  <1>4. t \in Goroutines /\ t.request = None /\ t.last /\ t.pc \in {"close", "clean"}
    BY <1>2, <1>3 DEF Task, Goroutines
  <1> HIDE DEF t
  <1>5. \A r \in Request : ~Sender(t, r)
    BY <1>4, BoundsAssumption DEF Sender, Request
  <1>6. /\ IsBag(tasks') /\ DOMAIN tasks' = DOMAIN tasks \cup {t}
        /\ \A r \in Request :
             /\ ~Sender(t, r) /\ OneSender(tasks, r) => OneSender(tasks', r)
             /\ ~Sender(t, r) /\ NoSender(tasks, r) => NoSender(tasks', r)
             /\ NoSender(tasks, r) => OneSender(tasks', r)
    BY <1>1, <1>2, <1>4, AddTask
  <1>7. Types'
    BY <1>1, <1>2, <1>4, <1>6 DEF Types
  <1>8. Silent'
    BY <1>1, <1>2, <1>4, <1>6 DEF Silent
  <1>9. Latest => Latest'
    BY <1>1 DEF Latest
  <1>10. Claimed => Claimed'
    BY <1>1, <1>5, <1>6 DEF Claimed, Untold
  <1>. QED  BY <1>1, <1>7, <1>8, <1>9, <1>10 DEF Inv

(* The answer to the authorization claims the record that waited for it.    *)
LEMMA AuthorizationKeeps ==
  ASSUME Inv, AuthorizationTaken
  PROVE  Inv'
  <1>0. Types /\ Silent /\ None \in Request \cup {None}
    BY DEF Inv
  <1>1. CASE ~StillWanted
    <2>1. /\ UNCHANGED <<revision, pending, requests, echo, overtaken, availability, generation,
                         current, tasks, clicks, shown, sent, closed>>
          /\ authorization' = "none"
      BY <1>1 DEF AuthorizationTaken, coordinator, desktop
    <2>2. Types'
      BY <1>0, <2>1 DEF Types
    <2>3. Silent'
      BY <1>0, <2>1 DEF Silent
    <2>4. (Latest => Latest') /\ (Claimed => Claimed')
      BY <2>1 DEF Latest, Claimed, Untold, OneSender, NoSender
    <2>. QED  BY <2>1, <2>2, <2>3, <2>4 DEF Inv
  <1>2. CASE StillWanted
    <2> DEFINE available == IF authorization = "granted" THEN "ready" ELSE "unavailable"
               mine == IF Claims(available, current) THEN current.request ELSE None
    <2>1. /\ UNCHANGED <<revision, pending, requests, echo, overtaken, generation, clicks,
                         shown, sent, closed>>
          /\ authorization' = "none" /\ availability' = available
          /\ current' = Claim(available, current)
          /\ tasks' = tasks (+) Spawned(None, mine)
      BY <1>2 DEF AuthorizationTaken, coordinator, desktop
    <2>2. availability # "stopped"
      BY <1>2 DEF StillWanted
    <2>3. available \in {"ready", "unavailable"}
      OBVIOUS
    <2>4. Claims(available, current) \/ mine = None
      OBVIOUS
    <2>5. Claims(available, current) => mine = current.request
      OBVIOUS
    <2> HIDE DEF available, mine
    <2>6. current \in Deliveries \cup {None}
      BY <1>0 DEF Types
    <2>7. /\ current' \in Deliveries \cup {None}
          /\ current = None => current' = None /\ ~Claims(available, current)
          /\ current # None => /\ current' # None /\ current'.request = current.request
                               /\ current.request \in Request
          /\ Claims(available, current) => current.delivery = "waiting"
          /\ current # None /\ current'.delivery = "waiting"
               => ~Claims(available, current) /\ current.delivery = "waiting"
      BY <2>1, <2>6, Claiming
    <2>8. mine \in Request \cup {None}
      BY <2>4, <2>5, <2>7
    <2>9. /\ IsBag(tasks') /\ DOMAIN tasks' \subseteq Goroutines
          /\ \A t \in DOMAIN tasks' : t \in DOMAIN tasks \/ (~t.last /\ t.pc \in {"clean", "send"})
          /\ \A r \in Request :
               /\ r # mine /\ OneSender(tasks, r) => OneSender(tasks', r)
               /\ r # mine /\ NoSender(tasks, r) => NoSender(tasks', r)
               /\ NoSender(tasks, r) => OneSender(tasks', r)
      BY <1>0, <2>1, <2>8, Spawning
    <2>10. Types'
      BY <1>0, <2>1, <2>3, <2>7, <2>9 DEF Types
    <2>11. Silent'
      BY <1>0, <2>1, <2>2, <2>3, <2>7, <2>9 DEF Silent
    <2>12. Latest => Latest'
      BY <2>1, <2>2, <2>7 DEF Latest
    <2>13. ASSUME Latest, Claimed PROVE Claimed'
      <3> SUFFICES ASSUME NEW r \in Request
                   PROVE  /\ OneSender(tasks', r)
                          /\ NoSender(tasks', r) \/ sent'[r] = 0
                          /\ sent'[r] <= 1
                          /\ r > requests' => Untold(r)'
                          /\ current' # None /\ current'.request = r /\ current'.delivery = "waiting"
                               => Untold(r)'
        BY DEF Claimed
      <3>1. /\ OneSender(tasks, r)
            /\ NoSender(tasks, r) \/ sent[r] = 0
            /\ sent[r] <= 1
            /\ r > requests => Untold(r)
            /\ current # None /\ current.request = r /\ current.delivery = "waiting" => Untold(r)
        BY <2>13 DEF Claimed
      <3>2. CASE r # mine
        BY <2>1, <2>7, <2>9, <3>1, <3>2 DEF Untold
      <3>3. CASE r = mine
        <4>1. Claims(available, current) /\ current # None /\ current.request = r
          BY <2>4, <2>5, <2>7, <3>3, BoundsAssumption DEF Request
        <4>2. Untold(r)
          BY <2>7, <3>1, <4>1
        <4>3. current'.delivery # "waiting"
          BY <2>7, <4>1
        <4>4. ~(r > requests')
          <5>1. r = pending /\ pending # None
            BY <2>13, <4>1, BoundsAssumption DEF Latest, Request
          <5>. QED  BY <1>0, <2>1, <2>13, <5>1 DEF Latest, Types, Request
        <4>. QED  BY <2>1, <2>9, <3>1, <4>2, <4>3, <4>4 DEF Untold
      <3>. QED  BY <3>2, <3>3
    <2>. QED  BY <2>1, <2>10, <2>11, <2>12, <2>13 DEF Inv
  <1>. QED  BY <1>1, <1>2

-----------------------------------------------------------------------------
(* Responses.                                                               *)

(* A click is answered, and the rest of the clicks stays.                   *)
LEMMA AnswersKeep ==
  ASSUME Types, NEW c \in DOMAIN clicks, NEW answer \in {"ok", "failed"}, Answer(c, answer)
  PROVE  /\ IsBag(clicks') /\ DOMAIN clicks' \subseteq Clicks
         /\ \A d \in DOMAIN clicks' :
              d \in DOMAIN clicks \/ (d.request = c.request /\ d.answer = answer)
  <1> DEFINE left == clicks (-) SetToBag({c})
             d == [c EXCEPT !.answer = answer]
             more == left (+) SetToBag({d})
  <1>1. c \in Clicks /\ IsBag(clicks)
    BY DEF Types
  <1>2. d \in Clicks /\ d.request = c.request /\ d.answer = answer
    BY <1>1 DEF Clicks
  <1>3. clicks' = more
    BY DEF Answer
  <1>4. IsBag(left) /\ DOMAIN left \subseteq DOMAIN clicks
    BY <1>1, TakeOne
  <1> HIDE DEF left, d
  <1>5. IsBag(more) /\ DOMAIN more = DOMAIN left \cup {d}
    BY <1>4, AddOne
  <1>. QED  BY <1>2, <1>3, <1>4, <1>5 DEF Types

LEMMA ClickKeeps ==
  ASSUME Inv, NEW r \in Request, Click(r)
  PROVE  Inv'
  <1> DEFINE c == [request |-> r, generation |-> generation, answer |-> "none"]
             more == clicks (+) SetToBag({c})
  <1>0. Types /\ Silent /\ IsBag(clicks)
    BY DEF Inv, Types
  <1>1. /\ UNCHANGED <<revision, pending, requests, echo, overtaken, availability, generation,
                       authorization, tasks, shown, sent, closed>>
        /\ sent[r] > 0 /\ availability # "stopped" /\ current # None
        /\ current' = [current EXCEPT !.deciding = TRUE] /\ clicks' = more
    BY DEF Click, coordinator, desktop
  <1>2. c \in Clicks /\ c.request = r /\ c.answer = "none"
    BY <1>0 DEF Types, Clicks
  <1> HIDE DEF c
  <1>3. IsBag(more) /\ DOMAIN more = DOMAIN clicks \cup {c}
    BY <1>0, AddOne
  <1>4. /\ current' \in Deliveries /\ current'.request = current.request
        /\ current'.delivery = current.delivery
    BY <1>0, <1>1 DEF Types, Deliveries
  <1>5. current' # None
    BY <1>4, NoneAssumption
  <1>6. Types'
    BY <1>0, <1>1, <1>2, <1>3, <1>4 DEF Types
  <1>7. Silent'
    BY <1>0, <1>1 DEF Silent
  <1>8. ASSUME Latest, Claimed PROVE Latest' /\ Claimed'
    <2>1. r <= requests
      BY <1>0, <1>1, <1>8 DEF Claimed, Untold, Types, Request
    <2>2. Latest'
      BY <1>1, <1>2, <1>3, <1>4, <1>5, <1>8, <2>1 DEF Latest
    <2>3. Claimed'
      BY <1>1, <1>4, <1>5, <1>8 DEF Claimed, Untold, OneSender, NoSender
    <2>. QED  BY <2>2, <2>3
  <1>. QED  BY <1>1, <1>6, <1>7, <1>8 DEF Inv

LEMMA ResolveKeeps ==
  ASSUME Inv, NEW c \in DOMAIN clicks, Resolve(c)
  PROVE  Inv'
  <1>0. /\ Types /\ Silent /\ revision + 1 \in Nat /\ None \in Request \cup {None}
        /\ requests \in Nat
    BY DEF Inv, Types
  <1>1. /\ requests' = requests /\ pending' = None /\ revision' = revision + 1
        /\ Observe(None)
        /\ UNCHANGED <<echo, overtaken, availability, generation, authorization,
                       shown, sent, closed>>
    BY DEF Resolve, Publish, desktop
  <1>2. PICK answer \in {"ok", "failed"} : Answer(c, answer)
    BY DEF Resolve
  <1>3. /\ IsBag(clicks') /\ DOMAIN clicks' \subseteq Clicks
        /\ \A d \in DOMAIN clicks' :
             d \in DOMAIN clicks \/ (d.request = c.request /\ d.answer = answer)
    BY <1>0, <1>2, AnswersKeep
  <1>4. /\ current' \in Deliveries \cup {None}
        /\ IsBag(tasks') /\ DOMAIN tasks' \subseteq Goroutines
        /\ Silent'
    BY <1>0, <1>1, ObservedTypes
  <1>5. Types'
    BY <1>0, <1>1, <1>3, <1>4 DEF Types
  <1>6. ASSUME Latest, Claimed PROVE Latest' /\ Claimed'
    <2>1. /\ Claimed'
          /\ current' # None => current'.request = None \/ availability = "stopped"
      BY <1>0, <1>1, <1>6, ObservedClaims
    <2>2. availability = "stopped" => current' = None
      BY <1>1, <1>4 DEF Silent
    <2>3. \A d \in DOMAIN clicks' : d.request # None
      BY <1>3, BoundsAssumption DEF Clicks, Request
    <2>4. \A d \in DOMAIN clicks' : d.request <= requests
      BY <1>3, <1>6 DEF Latest
    <2>. QED  BY <1>1, <2>1, <2>2, <2>3, <2>4 DEF Latest
  <1>. QED  BY <1>1, <1>4, <1>5, <1>6 DEF Inv

LEMMA RefusalKeeps ==
  ASSUME Inv, NEW c \in DOMAIN clicks, ResolveRefused(c)
  PROVE  Inv'
  <1>0. Types /\ Silent
    BY DEF Inv
  <1>1. /\ UNCHANGED <<revision, pending, requests, echo, overtaken, availability, generation,
                       authorization, current, tasks, shown, sent, closed>>
        /\ Answer(c, "failed")
    BY DEF ResolveRefused, coordinator, service, desktop
  <1>2. /\ IsBag(clicks') /\ DOMAIN clicks' \subseteq Clicks
        /\ \A d \in DOMAIN clicks' :
             d \in DOMAIN clicks \/ (d.request = c.request /\ d.answer = "failed")
    BY <1>0, <1>1, AnswersKeep
  <1>3. Types'
    BY <1>0, <1>1, <1>2 DEF Types
  <1>4. Silent'
    BY <1>0, <1>1 DEF Silent
  <1>5. Latest => Latest'
    BY <1>1, <1>2 DEF Latest
  <1>6. Claimed => Claimed'
    BY <1>1 DEF Claimed, Untold, OneSender, NoSender
  <1>. QED  BY <1>1, <1>3, <1>4, <1>5, <1>6 DEF Inv

(* The answer was decided on the request that was waiting, which has left:  *)
(* the record it would end is another's by now.                             *)
LEMMA HandledKeeps ==
  ASSUME Inv, NEW c \in DOMAIN clicks, Handled(c)
  PROVE  Inv'
  <1> DEFINE left == clicks (-) SetToBag({c})
  <1>0. Types /\ Silent /\ IsBag(clicks) /\ c \in Clicks /\ None \in Request \cup {None}
    BY DEF Inv, Types
  <1>1. /\ UNCHANGED <<revision, pending, requests, echo, overtaken, availability, generation,
                       authorization, shown, sent, closed>>
        /\ clicks' = left
    BY DEF Handled, coordinator, desktop
  <1>2. IsBag(left) /\ DOMAIN left \subseteq DOMAIN clicks
    BY <1>0, TakeOne
  <1> HIDE DEF left
  <1>3. /\ IsBag(clicks') /\ DOMAIN clicks' \subseteq Clicks
        /\ DOMAIN clicks' \subseteq DOMAIN clicks
    BY <1>0, <1>1, <1>2 DEF Types
  <1>4. CASE UNCHANGED <<current, tasks>>
    <2>1. Types'
      BY <1>0, <1>1, <1>3, <1>4 DEF Types
    <2>2. Silent'
      BY <1>0, <1>1, <1>4 DEF Silent
    <2>3. (Latest => Latest') /\ (Claimed => Claimed')
      BY <1>1, <1>3, <1>4 DEF Latest, Claimed, Untold, OneSender, NoSender
    <2>. QED  BY <1>1, <2>1, <2>2, <2>3 DEF Inv
  <1>5. CASE /\ current # None /\ current.request = c.request /\ c.answer = "ok"
             /\ current' = None /\ tasks' = tasks (+) Spawned(Invalidated, None)
    <2>1. Invalidated \in Request \cup {None}
      BY <1>0, Invalidating
    <2>2. /\ IsBag(tasks') /\ DOMAIN tasks' \subseteq Goroutines
          /\ \A t \in DOMAIN tasks' : t \in DOMAIN tasks \/ (~t.last /\ t.pc \in {"clean", "send"})
      BY <1>0, <1>5, <2>1, Spawning
    <2>3. Types'
      BY <1>0, <1>1, <1>3, <1>5, <2>2 DEF Types
    <2>4. Silent'
      BY <1>0, <1>1, <1>5, <2>2 DEF Silent
    <2>5. ~Latest
      BY <1>5 DEF Latest
    <2>. QED  BY <1>1, <2>3, <2>4, <2>5 DEF Inv
  <1>6. CASE current # None /\ current' = Released /\ UNCHANGED tasks
    <2>1. /\ current' \in Deliveries /\ current'.request = current.request
          /\ current'.delivery = current.delivery
      BY <1>0, <1>6 DEF Types, Released, Deliveries
    <2>2. current' # None
      BY <2>1, NoneAssumption
    <2>3. Types'
      BY <1>0, <1>1, <1>3, <1>6, <2>1 DEF Types
    <2>4. Silent'
      BY <1>0, <1>1, <1>6 DEF Silent
    <2>5. Latest => Latest'
      BY <1>1, <1>3, <1>6, <2>1, <2>2 DEF Latest
    <2>6. Claimed => Claimed'
      BY <1>1, <1>6, <2>1, <2>2 DEF Claimed, Untold, OneSender, NoSender
    <2>. QED  BY <1>1, <2>3, <2>4, <2>5, <2>6 DEF Inv
  <1>. QED  BY <1>4, <1>5, <1>6 DEF Handled

-----------------------------------------------------------------------------
LEMMA NextKeepsInv == Inv /\ [Next]_vars => Inv'
  <1> SUFFICES ASSUME Inv, [Next]_vars PROVE Inv'
    OBVIOUS
  <1>1. CASE Ask \/ Dismiss \/ Command \/ Echo
    BY <1>1, CoordinatorKeeps DEF Echo
  <1>2. CASE ServiceStartup \/ Authorizing
    BY <1>2, ServiceKeeps, AuthorizationKeeps DEF Authorizing
  <1>3. CASE ServiceShutdown
    BY <1>3, ShutdownKeeps
  <1>4. CASE Goroutine
    <2>1. PICK t \in DOMAIN tasks :
            \/ Cleanup(t) \/ Removed(t) \/ Send(t) \/ Sent(t) \/ SendFails(t) \/ Record(t) \/ Close(t)
            \/ \E lost \in BOOLEAN : Rechecked(t, lost)
      BY <1>4 DEF Goroutine, BagToSet
    <2>2. Types
      BY DEF Inv
    <2>3. PICK u : Follows(t, u) /\ Leaves(t, u)
      BY <2>1, <2>2, GoroutineSteps
    <2>. QED  BY <2>3, GoroutineKeeps
  <1>5. CASE Response
    <2>1. PICK c \in DOMAIN clicks : Resolve(c) \/ ResolveRefused(c) \/ Handled(c)
      BY <1>5 DEF Response, BagToSet
    <2>. QED  BY <2>1, ResolveKeeps, RefusalKeeps, HandledKeeps
  <1>6. CASE \E r \in Request : Click(r)
    BY <1>6, ClickKeeps
  <1>7. CASE UNCHANGED vars
    <2>1. /\ UNCHANGED <<revision, pending, requests, echo, overtaken, availability, generation,
                         authorization, current, tasks, clicks, shown, sent, closed>>
      BY <1>7 DEF vars, coordinator, service, desktop
    <2>2. Types' /\ Silent'
      BY <2>1 DEF Inv, Types, Silent
    <2>3. (Latest => Latest') /\ (Claimed => Claimed')
      BY <2>1 DEF Latest, Claimed, Untold, OneSender, NoSender
    <2>. QED  BY <2>1, <2>2, <2>3 DEF Inv
  <1>. QED  BY <1>1, <1>2, <1>3, <1>4, <1>5, <1>6, <1>7 DEF Next, Overseer

(* Every reachable state satisfies the invariant.                           *)
THEOREM InvAlways == Spec => []Inv
  BY InitiallyInv, NextKeepsInv, PTL DEF Spec

(* A request is announced on the desktop at most once, however often its    *)
(* state is published, whoever authorizes, clicks or fails meanwhile, as    *)
(* long as no late answer has made the service forget it                    *)
(* (observeCoordinationState, claimDeliveryLocked, authorize).              *)
THEOREM AlwaysAnnouncedOnce == Spec => []AnnouncedOnce
  <1>1. Inv => AnnouncedOnce
    BY DEF Inv, Claimed, AnnouncedOnce
  <1>. QED  BY <1>1, InvAlways, PTL

(* Nothing follows the shutdown: no publication, authorization, delivery or *)
(* click that comes late starts the stopped service again or gives it a     *)
(* request, and nothing appears on the desktop once the native service is   *)
(* closed (ServiceShutdown, authorize, applyTransition).                    *)
THEOREM NothingEverAfterStop == Spec => NothingAfterStop
  <1> DEFINE Step == /\ availability = "stopped" => availability' = "stopped" /\ current' = None
                     /\ closed => shown' \subseteq shown
  <1>1. ASSUME Inv, Inv', [Next]_vars PROVE Step
    <2>0. Types /\ Silent /\ Silent'
      BY <1>1 DEF Inv
    <2>1. CASE Goroutine
      <3>1. PICK t \in DOMAIN tasks :
              \/ Cleanup(t) \/ Removed(t) \/ Send(t) \/ Sent(t) \/ SendFails(t) \/ Record(t) \/ Close(t)
              \/ \E lost \in BOOLEAN : Rechecked(t, lost)
        BY <2>1 DEF Goroutine, BagToSet
      <3>2. PICK u : Follows(t, u) /\ Leaves(t, u)
        BY <2>0, <3>1, GoroutineSteps
      <3>3. availability = "stopped" => availability' = "stopped"
        BY <3>2 DEF Leaves
      <3>4. closed => shown' \subseteq shown
        BY <2>0, <3>2 DEF Leaves, Silent
      <3>. QED  BY <2>0, <3>3, <3>4 DEF Silent
    <2>2. CASE ~Goroutine
      <3>1. UNCHANGED shown
        BY <1>1, <2>2
        DEF Next, Overseer, Authorizing, Echo, Response, ServiceStartup, Ask, Dismiss, Command,
            ServiceShutdown, Authorize, AuthorizationTaken, Authorized, EchoAccepted, EchoObserved,
            Resolve, ResolveRefused, Handled, Click, vars, desktop
      <3>2. availability = "stopped" => availability' = "stopped"
        BY <1>1, <2>2
        DEF Next, Overseer, Authorizing, Echo, Response, ServiceStartup, Ask, Dismiss, Command,
            ServiceShutdown, Authorize, AuthorizationTaken, StillWanted, Authorized, EchoAccepted,
            EchoObserved, Resolve, ResolveRefused, Handled, Click, vars, service
      <3>. QED  BY <2>0, <3>1, <3>2 DEF Silent
    <2>. QED  BY <2>1, <2>2
  <1>. QED  BY <1>1, InvAlways, PTL DEF Spec, NothingAfterStop
===============================================================================
