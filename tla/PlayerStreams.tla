---------------------------- MODULE PlayerStreams ----------------------------
(* One browser page of a player and the server it talks to: the coordinator's *)
(* updates, the hub of physical streams (internal/player/stream.go), the      *)
(* goroutines of Subscribe and PresentationUplink (handler.go) and the page   *)
(* itself (frontend/client/client.js), with the connections between them.     *)
(*                                                                            *)
(* The page opens one stream after another; a connection may break at any     *)
(* time, and the server may notice late.  Beside the stream, which carries    *)
(* complete updates and the answers of the uplink down, the page sends the    *)
(* presentation its controller chooses: through the current generation of the *)
(* uplink when that is ready, else by a unary call.                           *)
EXTENDS Naturals, Sequences, FiniteSets

CONSTANTS MaxStream,      \* bound: physical streams the page opens
          MaxGeneration,  \* bound: generations of the uplink
          MaxConnection,  \* bound: both together
          MaxChange,      \* bound: changes made by others, and with the generations MaxGeneration
          MaxRequest,     \* bound: presentation requests of the page
          QueueSize,      \* updates a stream holds for a slow player
          Window,         \* messages a connection takes before a send blocks
          Presentation,   \* what a controller may point at
          Nothing

Stream == 1 .. MaxStream
Generation == 1 .. MaxGeneration

ASSUME BoundsAssumption ==
  /\ {MaxStream, MaxGeneration, MaxConnection, MaxChange, MaxRequest} \subseteq Nat
  /\ {QueueSize, Window} \subseteq Nat \ {0}
  /\ Presentation # {} /\ Nothing \notin Presentation

VARIABLES
  committed,   \* ProcessRuntime.Revision
  cursor,     \* the canonical presentation
  changes,    \* changes by others so far
  attached,   \* the session's ConnectionIDs
  hub,        \* SubscriptionHub: byID, byClient of the page, uplinks of the page
  sub,        \* the Subscriptions, with the goroutine that serves each
  lease,      \* the PresentationUplinks, with the receiver and the worker of each
  down,       \* messages sent to the page and not yet read
  cut,        \* streams whose connection is broken
  up,         \* frames the page has sent on an uplink and the server has not read
  lost,       \* uplinks whose connection is broken
  page,       \* the page
  calls       \* unary presentation calls under way

server == <<committed, cursor, changes, attached, hub, sub, lease>>
streamVars == <<server, down, cut, up, lost, page, calls>>

\* A message of a stream, of which the model keeps the kind, the revision, the cursor, or which
\* request it answers (SnapshotToProto, playerSnapshot, ActionResultToProto).
NoUpdate == [kind |-> "none", revision |-> 0, cursor |-> Nothing, generation |-> 0, request |-> 0, ok |-> FALSE]
Update(kind, r, c) == [NoUpdate EXCEPT !.kind = kind, !.revision = r, !.cursor = c]
Result(g, request, ok, r) ==
  [NoUpdate EXCEPT !.kind = "action", !.generation = g, !.request = request, !.ok = ok, !.revision = r]
Ready(g) == [NoUpdate EXCEPT !.kind = "ready", !.generation = g]

NoSubscription == [last |-> 0, updates |-> <<>>, targeted |-> NoUpdate,
                   done |-> FALSE, handler |-> "none"]
NoIntent == [request |-> 0, value |-> Nothing]
NoLease == [stream |-> 0, closed |-> FALSE, finished |-> FALSE, box |-> NoIntent,
            receiver |-> "none", worker |-> "none", intent |-> NoIntent, result |-> NoUpdate]
NoPending == [request |-> 0, value |-> Nothing, accepted |-> Nothing, transport |-> "none"]
Disconnected == [at |-> "waiting", stream |-> 0, shown |-> NoUpdate, uplink |-> 0, ready |-> FALSE,
                 pending |-> NoPending, desired |-> Nothing, requests |-> 0, generations |-> 0]

StreamsInit ==
  /\ committed = 0 /\ cursor = CHOOSE c \in Presentation : TRUE
  /\ changes = 0 /\ attached = {}
  /\ hub = [ids |-> {}, tab |-> 0, uplink |-> 0]
  /\ sub = [s \in Stream |-> NoSubscription]
  /\ lease = [g \in Generation |-> NoLease]
  /\ down = [s \in Stream |-> <<>>] /\ cut = {}
  /\ up = [g \in Generation |-> <<>>] /\ lost = {}
  /\ page = Disconnected /\ calls = {}

-----------------------------------------------------------------------------
(* The hub and the streams.                                                  *)

\* removeLocked: the client's uplink goes with its stream
RemoveKeepingUplink(h, streams) ==   \* mutant
  [h EXCEPT !.ids = @ \ streams, !.tab = IF @ \in streams THEN 0 ELSE @]
RemoveLocked(h, streams) ==
  [ids |-> h.ids \ streams,
   tab |-> IF h.tab \in streams THEN 0 ELSE h.tab,
   uplink |-> IF h.tab \in streams THEN 0 ELSE h.uplink]
\* Register closes the stream it replaces.
Replaced(h) == {h.tab} \ {0}
Register(h, s) == [RemoveLocked(h, Replaced(h)) EXCEPT !.ids = @ \cup {s}, !.tab = s]

\* Subscription.Offer: what the snapshot covers already is left out, and an update that
\* is too old or has no room closes the stream.
WantsIfRoom(subs, s, r) == r > subs[s].last /\ Len(subs[s].updates) < QueueSize \* mutant
Wants(subs, s, r) == r > subs[s].last
Refuses(subs, s, r) ==
  \/ r < subs[s].last
  \/ Wants(subs, s, r) /\ (subs[s].done \/ Len(subs[s].updates) >= QueueSize)

(* Everything the coordinator commits is published before its lock is        *)
(* released: hub.Offer to the streams of h, and the streams that refuse are  *)
(* unregistered.                                                             *)
Publish(h, subs, r, c) ==
  LET refusing == {s \in h.ids : Refuses(subs, s, r)} IN
    /\ committed' = r /\ cursor' = c
    /\ hub' = RemoveLocked(h, refusing)
    /\ sub' = [s \in Stream |->
                 IF s \in refusing THEN [subs[s] EXCEPT !.done = TRUE]
                 ELSE IF s \in h.ids /\ Wants(subs, s, r)
                 THEN [subs[s] EXCEPT !.updates = Append(@, Update("update", r, c)), !.last = r]
                 ELSE subs[s]]

\* The hub closes the lease it lets go of: mailbox emptied, context cancelled.
Closed(l) == [l EXCEPT !.closed = TRUE, !.box = NoIntent]
LetGo(leases) ==
  [g \in Generation |-> IF g = hub.uplink /\ hub'.uplink # g THEN Closed(leases[g]) ELSE leases[g]]

-----------------------------------------------------------------------------
(* Subscribe.                                                                *)

\* What a broken connection still carries is lost.
CutStreams(streams) ==
  /\ cut' = cut \cup streams
  /\ down' = [s \in Stream |-> IF s \in streams THEN <<>> ELSE down[s]]

\* The bounds leave the page no other stream, and no generation.
LastStream == page.stream = MaxStream \/ page.stream + page.generations >= MaxConnection
LastGeneration(p) == p.generations + changes >= MaxGeneration \/ p.stream + p.generations >= MaxConnection

\* The page waits for its timer and subscribes; an older stream is aborted.
Connect ==
  /\ page.at = "waiting" /\ ~LastStream
  /\ page' = [page EXCEPT !.at = "subscribing", !.stream = @ + 1]
  /\ CutStreams({page.stream} \ {0})
  /\ UNCHANGED <<server, up, lost, calls>>

\* AttachSubscriptionAndRegister: one commit, with the registration inside; then the
\* snapshot of that commit is sent.
Subscribe(s) ==
  /\ sub[s].handler = "none" /\ page.stream >= s
  /\ page.stream = s /\ page.at = "subscribing"
  /\ LET r == committed + 1
         closed == [x \in Stream |-> IF x \in Replaced(hub) THEN [sub[x] EXCEPT !.done = TRUE] ELSE sub[x]] IN
       Publish(Register(hub, s),
               [closed EXCEPT ![s].last = r, ![s].handler = "serving"], r, cursor)
       /\ down' = IF s \in cut THEN down ELSE [down EXCEPT ![s] = <<Update("snapshot", r, cursor)>>]
  /\ lease' = LetGo(lease)
  /\ attached' = attached \cup {s}
  /\ UNCHANGED <<changes, cut, up, lost, page, calls>>

\* Updates go before the targeted result, which follows one of them if it is there.
Targeted(s) == IF sub[s].targeted = NoUpdate THEN <<>> ELSE <<sub[s].targeted>>
Deliver(s) ==
  /\ sub[s].handler = "serving" /\ s \notin cut
  /\ sub[s].updates # <<>> \/ sub[s].targeted # NoUpdate
  /\ Len(down[s]) < Window
  /\ down' = [down EXCEPT ![s] = @ \o (IF sub[s].updates = <<>> THEN <<>> ELSE <<Head(sub[s].updates)>>) \o Targeted(s)]
  /\ sub' = [sub EXCEPT ![s].updates = IF @ = <<>> THEN @ ELSE Tail(@), ![s].targeted = NoUpdate]
  /\ UNCHANGED <<committed, cursor, changes, attached, hub, lease, cut, up, lost, page, calls>>

\* A send fails or the context ends, or the stream is done and its updates are sent:
\* the stream is unregistered, and after that its connection detached.
SubscribeEndsOnCut(s) ==   \* mutant
  /\ sub[s].handler = "serving" /\ s \in cut
  /\ hub' = IF s \in hub.ids THEN RemoveLocked(hub, {s}) ELSE hub
  /\ sub' = [sub EXCEPT ![s].handler = "detaching", ![s].done = TRUE, ![s].updates = <<>>, ![s].targeted = NoUpdate]
  /\ lease' = LetGo(lease)
  /\ UNCHANGED <<committed, cursor, changes, attached, down, cut, up, lost, page, calls>>
SubscribeEnds(s) ==
  /\ sub[s].handler = "serving" /\ (sub[s].done \/ s \in cut)
  /\ hub' = IF s \in hub.ids THEN RemoveLocked(hub, {s}) ELSE hub
  /\ sub' = [sub EXCEPT ![s].handler = "detaching", ![s].done = TRUE, ![s].updates = <<>>, ![s].targeted = NoUpdate]
  /\ lease' = LetGo(lease)
  /\ UNCHANGED <<committed, cursor, changes, attached, down, cut, up, lost, page, calls>>

Detach(s) ==
  /\ sub[s].handler = "detaching"
  /\ attached' = attached \ {s}
  /\ Publish(hub, [sub EXCEPT ![s].handler = "ended"], committed + 1, cursor)
  /\ lease' = LetGo(lease)
  /\ UNCHANGED <<changes, down, cut, up, lost, page, calls>>

\* A broken connection cancels the context of the handler and so closes the stream.
Break(s) ==
  /\ s \notin cut /\ s <= page.stream /\ ~LastStream
  /\ CutStreams({s})
  /\ UNCHANGED <<server, up, lost, page, calls>>

ContextEnds(s) ==
  /\ s \in cut /\ sub[s].handler # "none" /\ ~sub[s].done
  /\ sub' = [sub EXCEPT ![s].done = TRUE]
  /\ UNCHANGED <<committed, cursor, changes, attached, hub, lease, down, cut, up, lost, page, calls>>

\* Others change the state: another player, the Overseer.
OthersChange ==
  /\ changes < MaxChange /\ page.generations + changes < MaxGeneration /\ ~LastStream
  /\ changes' = changes + 1
  /\ \E c \in Presentation : Publish(hub, sub, committed + 1, c)
  /\ lease' = LetGo(lease)
  /\ UNCHANGED <<attached, down, cut, up, lost, page, calls>>

-----------------------------------------------------------------------------
(* PresentationUplink: the receiver, the mailbox and the worker.             *)

\* BindUplink; other pages may hold all the uplinks there are.
Bind(g) ==
  /\ lease[g].receiver = "open"
  /\ IF hub.tab # 0 /\ g > hub.uplink
     THEN \/ /\ hub' = [hub EXCEPT !.uplink = g]
             /\ lease' = LetGo([lease EXCEPT ![g].stream = hub.tab, ![g].receiver = "ready"])
          \/ /\ hub.uplink = 0
             /\ lease' = [lease EXCEPT ![g].receiver = "ended"] /\ UNCHANGED hub
     ELSE lease' = [lease EXCEPT ![g].receiver = "ended"] /\ UNCHANGED hub
  /\ UNCHANGED <<committed, cursor, changes, attached, sub, down, cut, up, lost, page, calls>>

\* ReleaseUplink
Release(g, leases) ==
  /\ hub' = IF hub.uplink = g THEN [hub EXCEPT !.uplink = 0] ELSE hub
  /\ lease' = [leases EXCEPT ![g] = [Closed(@) EXCEPT !.receiver = "ended"]]

\* PublishTargeted gives up when the stream is done.
PublishReady(g) ==
  /\ lease[g].receiver = "ready"
  /\ LET s == lease[g].stream IN
       \/ /\ ~sub[s].done /\ sub[s].targeted = NoUpdate
          /\ sub' = [sub EXCEPT ![s].targeted = Ready(g)]
          /\ lease' = [lease EXCEPT ![g].receiver = "receiving", ![g].worker = "take"]
          /\ UNCHANGED hub
       \/ /\ sub[s].done \/ g \in lost
          /\ Release(g, lease)
          /\ UNCHANGED sub
  /\ UNCHANGED <<committed, cursor, changes, attached, down, cut, up, lost, page, calls>>

CurrentUplink(g) == hub.uplink = g /\ lease[g].stream \in hub.ids

\* An intent goes into the mailbox in place of an older one.  The uplink ends when it is
\* no longer current, when the lease is closed, or when the page sends too fast.
Receive(g) ==
  /\ lease[g].receiver = "receiving" /\ up[g] # <<>>
  /\ up' = [up EXCEPT ![g] = Tail(@)]
  /\ \/ /\ CurrentUplink(g) /\ ~lease[g].closed
        /\ lease' = [lease EXCEPT ![g].box = Head(up[g])] /\ UNCHANGED hub
     \/ Release(g, lease)
  /\ UNCHANGED <<committed, cursor, changes, attached, sub, down, cut, lost, page, calls>>

\* The page closes its request (end of file: Finish, and the worker is waited for), or the
\* connection is reset, idle or too old.
ReceiveEnds(g) ==
  /\ lease[g].receiver = "receiving" /\ g \in lost
  /\ \/ up[g] = <<>> /\ lease' = [lease EXCEPT ![g].finished = TRUE, ![g].receiver = "finishing"] /\ UNCHANGED hub
     \/ Release(g, lease)
  /\ UNCHANGED <<committed, cursor, changes, attached, sub, down, cut, up, lost, page, calls>>

ReceiverFinishes(g) ==
  /\ lease[g].receiver = "finishing" /\ lease[g].worker = "ended"
  /\ Release(g, lease)
  /\ UNCHANGED <<committed, cursor, changes, attached, sub, down, cut, up, lost, page, calls>>

\* The goroutine of BindUplink: the lease ends with its stream.
LeaseEnds(g) ==
  /\ lease[g].receiver # "none" /\ lease[g].stream # 0 /\ ~lease[g].closed
  /\ sub[lease[g].stream].done
  /\ lease' = [lease EXCEPT ![g] = Closed(@)]
  /\ UNCHANGED <<committed, cursor, changes, attached, hub, sub, down, cut, up, lost, page, calls>>

\* Mailbox.Take: the latest intent; none when the box is closed, or finished and empty, or
\* when the context of the request is cancelled.
Take(g) ==
  /\ lease[g].worker = "take"
  /\ \/ /\ lease[g].box # NoIntent
        /\ lease' = [lease EXCEPT ![g].intent = lease[g].box, ![g].box = NoIntent, ![g].worker = "check"]
     \/ /\ (lease[g].box = NoIntent /\ (lease[g].closed \/ lease[g].finished)) \/ g \in lost
        /\ lease' = [lease EXCEPT ![g].worker = "ended"]
  /\ UNCHANGED <<committed, cursor, changes, attached, hub, sub, down, cut, up, lost, page, calls>>

CheckCurrent(g) ==
  /\ lease[g].worker = "check"
  /\ lease' = [lease EXCEPT ![g].worker = IF CurrentUplink(g) THEN "dispatch" ELSE "ended"]
  /\ UNCHANGED <<committed, cursor, changes, attached, hub, sub, down, cut, up, lost, page, calls>>

\* DispatchPlayerAction: accepted, or rejected without a new revision.
Decide(value, accept) ==
  IF accept THEN Publish(hub, sub, committed + 1, value)
  ELSE UNCHANGED <<committed, cursor, hub, sub>>

Dispatch(g) ==
  /\ lease[g].worker = "dispatch"
  /\ \E accept \in BOOLEAN :
       /\ accept => lease[g].stream \in attached
       /\ Decide(lease[g].intent.value, accept)
       /\ lease' = LetGo([lease EXCEPT ![g].worker = "publish",
                     ![g].result = Result(g, lease[g].intent.request, accept, committed')])
  /\ UNCHANGED <<changes, attached, down, cut, up, lost, page, calls>>

PublishResult(g) ==
  /\ lease[g].worker = "publish"
  /\ LET s == lease[g].stream IN
       \/ /\ ~sub[s].done /\ sub[s].targeted = NoUpdate
          /\ sub' = [sub EXCEPT ![s].targeted = lease[g].result]
          /\ lease' = [lease EXCEPT ![g].worker = "take"]
       \/ /\ sub[s].done \/ lease[g].closed \/ g \in lost
          /\ lease' = [lease EXCEPT ![g].worker = "ended"]
          /\ UNCHANGED sub
  /\ UNCHANGED <<committed, cursor, changes, attached, hub, down, cut, up, lost, page, calls>>

UplinkBreaks(g) ==
  /\ lease[g].receiver \notin {"none", "ended"} /\ g \notin lost
  /\ lost' = lost \cup {g}
  /\ UNCHANGED <<server, down, cut, up, page, calls>>
-----------------------------------------------------------------------------
(* The page.                                                                 *)

\* dispatchControllerPresentation: through the uplink when it is ready, else by a call.
\* What is shown already is not sent.
Send(p, value, others) ==
  IF value \in {Nothing, p.shown.cursor}
  THEN page' = p /\ calls' = others /\ UNCHANGED up
  ELSE LET id == p.requests + 1
           sent == [request |-> id, value |-> value] IN
       /\ page' = [p EXCEPT !.requests = id, !.pending = [request |-> id, value |-> value, accepted |-> Nothing,
                                   transport |-> IF p.ready THEN "stream" ELSE "unary"]]
       /\ IF p.ready THEN up' = [up EXCEPT ![p.uplink] = Append(@, sent)] /\ calls' = others
          ELSE calls' = others \cup {[request |-> id, value |-> value, answer |-> NoUpdate]} /\ UNCHANGED up

\* clearPendingPresentationAction, and the latest choice is sent.
SendDesired(p, others) == Send([p EXCEPT !.pending = NoPending, !.desired = Nothing], p.desired, others)

\* applyActionResult, for the presentation that is pending
ApplyResult(p, result, others) ==
  CASE p.pending.request # result.request -> page' = p /\ calls' = others /\ UNCHANGED up
    [] p.pending.request = result.request /\ (~result.ok \/ p.shown.revision >= result.revision) ->
         SendDesired(p, others)
    [] OTHER -> page' = [p EXCEPT !.pending.accepted = result.revision] /\ calls' = others /\ UNCHANGED up

\* An update that is not older than what is shown is shown, and completes what it confirms.
ApplyUpdate(p, m) ==
  LET q == IF m.revision >= p.shown.revision THEN [p EXCEPT !.shown = m] ELSE p IN
    IF q.pending.accepted # Nothing /\ q.shown.revision >= q.pending.accepted
    THEN SendDesired(q, calls)
    ELSE page' = q /\ UNCHANGED <<calls, up>>

\* startPresentationUplink: the next generation, if the browser supports it.
StartUplink(p) ==
  IF ~LastGeneration(p)
  THEN LET g == p.generations + 1 IN
         /\ page' = [p EXCEPT !.generations = g, !.uplink = g, !.ready = FALSE]
         /\ lease' = [lease EXCEPT ![g].receiver = "open"]
  ELSE page' = p /\ UNCHANGED lease

\* applyGeneratedSnapshot: the first message is the baseline, whatever was shown before.
PageBegins ==
  /\ page.at = "subscribing" /\ page.stream \notin cut /\ down[page.stream] # <<>>
  /\ LET s == page.stream IN
       /\ down' = [down EXCEPT ![s] = Tail(@)]
       /\ StartUplink([page EXCEPT !.at = "live", !.shown = Head(down[s]), !.pending = NoPending, !.desired = Nothing])
  /\ UNCHANGED <<committed, cursor, changes, attached, hub, sub, cut, up, lost, calls>>

PageReads ==
  /\ page.at = "live" /\ page.stream \notin cut /\ down[page.stream] # <<>>
  /\ LET s == page.stream
         m == Head(down[s]) IN
       /\ down' = [down EXCEPT ![s] = Tail(@)]
       /\ CASE m.kind \in {"snapshot", "update"} -> ApplyUpdate(page, m)
            [] m.kind = "ready" ->
                 page' = [page EXCEPT !.ready = @ \/ m.generation = page.uplink] /\ UNCHANGED <<calls, up>>
            [] m.kind = "action" ->
                 IF m.generation = page.uplink THEN ApplyResult(page, m, calls) ELSE UNCHANGED <<page, calls, up>>
  /\ UNCHANGED <<server, cut, lost>>

\* scheduleReconnect
PageEnds ==
  /\ page.at \in {"subscribing", "live"}
  /\ \/ page.stream \in cut
     \/ sub[page.stream].handler \in {"detaching", "ended"} /\ down[page.stream] = <<>>
  /\ page' = [page EXCEPT !.at = "waiting", !.uplink = 0, !.ready = FALSE, !.pending = NoPending, !.desired = Nothing]
  /\ lost' = lost \cup ({page.uplink} \ {0})
  /\ UNCHANGED <<server, down, cut, up, calls>>

\* failPresentationUplink: a pending presentation is sent again, unless a later one waits.
FailUplinkForgetting ==   \* mutant
  /\ lost' = lost \cup {page.uplink}
  /\ page' = [page EXCEPT !.uplink = 0, !.ready = FALSE] /\ UNCHANGED <<calls, up>>
FailUplink ==
  /\ lost' = lost \cup {page.uplink}
  /\ LET p == [page EXCEPT !.uplink = 0, !.ready = FALSE] IN
       IF page.pending.transport = "stream"
       THEN SendDesired([p EXCEPT !.desired = IF @ = Nothing THEN page.pending.value ELSE @], calls)
       ELSE page' = p /\ UNCHANGED <<calls, up>>

UplinkFails ==   \* the server ended it, or its connection broke
  /\ page.uplink # 0 /\ (lease[page.uplink].receiver = "ended" \/ page.uplink \in lost)
  /\ FailUplink
  /\ UNCHANGED <<server, down, cut>>

UplinkTimesOut ==   \* no ready, or no result, within two seconds
  /\ page.uplink # 0 /\ (~page.ready \/ page.pending.transport = "stream")
  /\ FailUplink
  /\ UNCHANGED <<server, down, cut>>

RetryUplink ==
  /\ page.at = "live" /\ page.uplink = 0 /\ ~LastGeneration(page)
  /\ StartUplink(page)
  /\ UNCHANGED <<committed, cursor, changes, attached, hub, sub, down, cut, up, lost, calls>>

\* beginControllerPresentation: one request at a time, and the latest choice waits.
Choose(value) ==
  /\ page.at = "live" /\ page.requests < MaxRequest
  /\ IF page.pending = NoPending THEN Send(page, value, calls)
     ELSE /\ page' = [page EXCEPT !.desired = IF value = page.pending.value THEN Nothing ELSE value]
          /\ UNCHANGED <<up, calls>>
  /\ UNCHANGED <<server, down, cut, lost>>

\* SetPresentation: served, and answered, or the call fails before or after that.
ServeCall(c) ==
  /\ c.answer = NoUpdate
  /\ \E accept \in BOOLEAN :
       /\ accept => attached # {}
       /\ Decide(c.value, accept)
       /\ calls' = (calls \ {c}) \cup {[c EXCEPT !.answer = Result(0, c.request, accept, committed')]}
  /\ lease' = LetGo(lease)
  /\ UNCHANGED <<changes, attached, down, cut, up, lost, page>>

CallReturns(c) ==
  /\ c.answer # NoUpdate
  /\ ApplyResult(page, c.answer, calls \ {c})
  /\ UNCHANGED <<server, down, cut, lost>>

CallFails(c) ==
  /\ ApplyResult(page, Result(0, c.request, FALSE, 0), calls \ {c})
  /\ UNCHANGED <<server, down, cut, lost>>

-----------------------------------------------------------------------------

SubscribeStep(s) == Deliver(s) \/ SubscribeEnds(s) \/ Detach(s)
ReceiverStep(g) ==
  Bind(g) \/ PublishReady(g) \/ Receive(g) \/ ReceiveEnds(g) \/ ReceiverFinishes(g)
WorkerStep(g) == Take(g) \/ CheckCurrent(g) \/ Dispatch(g) \/ PublishResult(g)
CallStep(c) == ServeCall(c) \/ CallReturns(c) \/ CallFails(c)

StreamsNext ==
  \/ Connect \/ PageBegins \/ PageReads \/ PageEnds
  \/ UplinkFails \/ UplinkTimesOut \/ RetryUplink
  \/ \E value \in Presentation : Choose(value)
  \/ \E c \in calls : CallStep(c)
  \/ \E s \in Stream : Subscribe(s) \/ SubscribeStep(s) \/ Break(s) \/ ContextEnds(s)
  \/ \E g \in Generation : ReceiverStep(g) \/ LeaseEnds(g) \/ WorkerStep(g) \/ UplinkBreaks(g)
  \/ OthersChange

StreamsSpec == StreamsInit /\ [][StreamsNext]_streamVars

(* Goroutines and the page's events go on, its timers fire, and a call ends. *)
(* Nobody has to choose or change anything, and no connection has to break.  *)
FairStreamsSpec ==
  /\ StreamsSpec
  /\ WF_streamVars(Connect) /\ WF_streamVars(PageBegins \/ PageReads) /\ WF_streamVars(PageEnds)
  /\ WF_streamVars(UplinkFails) /\ WF_streamVars(UplinkTimesOut)
  /\ WF_streamVars(\E c \in calls : CallStep(c))
  /\ \A s \in Stream : WF_streamVars(Subscribe(s)) /\ WF_streamVars(SubscribeStep(s)) /\ WF_streamVars(ContextEnds(s))
  /\ \A g \in Generation : WF_streamVars(ReceiverStep(g)) /\ WF_streamVars(LeaseEnds(g)) /\ WF_streamVars(WorkerStep(g))

-----------------------------------------------------------------------------
(* Properties.                                                               *)

\* The messages that carry the state
Shows(m) == m.kind \in {"snapshot", "update"}
\* What stream s has not brought to the page yet, oldest first
Ahead(s) == down[s] \o sub[s].updates

(* A stream that is registered and open carries the current state, as the    *)
(* last one it shows: no commit falls between the snapshot of a subscription *)
(* and its registration, and a full queue ends the stream and never leaves   *)
(* an update out.                                                            *)
OpenStreamIsCurrent ==
  \A s \in hub.ids : s \notin cut /\ s = page.stream =>
    \/ \E i \in DOMAIN Ahead(s) :
         /\ Shows(Ahead(s)[i])
         /\ Ahead(s)[i].revision = committed /\ Ahead(s)[i].cursor = cursor
         /\ \A j \in DOMAIN Ahead(s) : j > i => ~Shows(Ahead(s)[j])
    \/ /\ \A i \in DOMAIN Ahead(s) : ~Shows(Ahead(s)[i])
       /\ page.at = "live" /\ page.shown.revision = committed /\ page.shown.cursor = cursor

(* What a stream shows only gets newer, after the baseline.                  *)
StreamOnlyAdvances ==
  \A s \in Stream : \A i \in DOMAIN Ahead(s) : Shows(Ahead(s)[i]) =>
    /\ page.at = "live" /\ page.stream = s => page.shown.revision < Ahead(s)[i].revision
    /\ \A j \in DOMAIN Ahead(s) :
         j > i /\ Shows(Ahead(s)[j]) => Ahead(s)[i].revision < Ahead(s)[j].revision

(* An open stream brings the page forward and up to date, and never back.    *)
StreamsAreCurrent == OpenStreamIsCurrent /\ StreamOnlyAdvances

\* The registered stream of the page is its only one, and is served.
StreamIsServed ==
  /\ hub.ids = {hub.tab} \ {0}
  /\ \A s \in hub.ids : sub[s].handler = "serving" /\ s \in attached
  /\ \A s \in attached : sub[s].handler \in {"serving", "detaching"}
\* The current uplink is bound to the registered stream, and its receiver runs.
UplinkIsBound ==
  hub.uplink # 0 =>
    /\ lease[hub.uplink].stream = hub.tab /\ hub.tab # 0
    /\ lease[hub.uplink].receiver \in {"ready", "receiving", "finishing"}

(* What the hub has registered is served by a goroutine that is going to     *)
(* remove it, and a goroutine that is over has left nothing behind: neither  *)
(* a stream, nor an uplink, nor an intent in the mailbox of a closed lease.  *)
RegistrationsAreServed ==
  /\ StreamIsServed
  /\ UplinkIsBound
  /\ \A g \in Generation : lease[g].closed => lease[g].box = NoIntent

(* The page ends up with the state of the coordinator, unless the server is  *)
(* stopped or the bound on its streams is reached.                           *)
PageCatchesUp ==
  <>[](\/ page.at = "waiting" /\ LastStream
       \/ page.at = "live" /\ page.shown.revision = committed /\ page.shown.cursor = cursor)

(* Uplinks leave nothing behind: in the end no presentation is pending, as   *)
(* each is confirmed, rejected, given up or sent again, and no goroutine of  *)
(* a closed uplink runs.                                                     *)
UplinksSettle ==
  <>[](/\ page.pending = NoPending
       /\ \A g \in Generation : lease[g].closed => lease[g].worker \in {"none", "ended"})

(* The feature's acceptance scenario: once a newer generation is current, an *)
(* older one cannot submit an accepted mutation.  The code: the worker looks *)
(* whether it is current and dispatches after that, so this does not hold.   *)
OlderGenerationsAreSilent ==
  [][\A g \in Generation :
       lease[g].worker = "dispatch" /\ lease'[g].worker = "publish" /\ lease'[g].result.ok => hub.uplink <= g]_streamVars

=============================================================================
