----------------------- MODULE DesktopApplicationProofs -----------------------
(***************************************************************************)
(* What App publishes is the coordinator's newest state, the roster is that *)
(* of the open document, the page ends up with that document, and a         *)
(* shutdown reaches every resource: for any files, configs, budgets and any *)
(* order of calls, events and answers.                                      *)
(***************************************************************************)
EXTENDS DesktopApplication, TLAPS

Phases == {"constructed", "desktop-loading", "ready-local", "stopping", "failed", "stop-failed", "stopped"}
Life == [phase : Phases, held : SUBSET Resource, cleared : BOOLEAN, stopped : BOOLEAN,
         at : Step \cup {None}, preserve : BOOLEAN, failed : SUBSET Resource, broken : BOOLEAN]
Store == [file : File \cup {None}, epoch : Nat, revision : Nat, closed : BOOLEAN]
Memory == [state : State \cup {None}, requested : Nat, published : Nat]
Left == [total : Nat, each : [Kind -> Nat]]

Types ==
  /\ life \in Life
  /\ coord \in State /\ rosters \in [Config -> Nat] /\ foreign \subseteq Config
  /\ files \in [File -> Document] /\ store \in Store
  /\ app \in Memory
  /\ calls \in [Caller -> CommandCall \cup {None}] /\ saves \subseteq SaveCall
  /\ status \in StatusCall \cup {None} /\ events \subseteq SessionNews \cup CoordinationNews
  /\ page \in Page \cup {None}
  /\ left \in Left /\ (\A kind \in Kind : left.each[kind] <= Budget[kind])
  /\ crossed \in BOOLEAN /\ onAir \in BOOLEAN

-----------------------------------------------------------------------------
(* The lifecycle.                                                           *)

\* The resources that have been tried when the shutdown is at a step.
Tried(step) == CASE step \in {"process", "player"} -> {"access"}
                 [] step = "sessions" -> {"access", "player"}
                 [] step = "desktop" -> {"access", "player", "sessions"}
                 [] step = "end" -> Resource
                 [] OTHER -> {}

Ended == {"failed", "stop-failed", "stopped"}

Lives ==
  /\ life.at # None <=> life.phase = "stopping"
  /\ life.at # None => life.held \cap Tried(life.at) \subseteq life.failed
  /\ life.phase \in Ended => life.held \subseteq life.failed
  /\ life.stopped <=> life.phase \in Ended /\ life.held = {}
  /\ life.phase = "constructed" => life.failed = {}
  /\ life.cleared => life.phase \in Ended \cup {"stopping"}

\* Nothing starts a broadcast any more once the coordinator was cleared.
Silent == life.cleared => ~coord.onAir /\ (Waits("window", "start") => coord.config = None)

-----------------------------------------------------------------------------
(* The calls.                                                               *)

Listening == /\ page # None => Up
             /\ calls["window"] # None /\ calls["window"].to = "page" => page # None
             /\ \A s \in saves : s.live \/ s.stage = "kept" => page # None
             /\ status # None => page # None
             /\ events # {} => page # None

\* What a call has found when it is at a stage.
Sound(call) ==
  /\ call.stage = "publishing" => call.state # None
  /\ call.kind = "groups" /\ call.stage = "publishing" => call.event # None
  /\ call.event # None => call.stage = "publishing" /\ call.kind \in {"reset", "resolve", "groups"}
  /\ call.stage = "answered" => call.to = "page"
  /\ call.stage = "associated" => call.kind = "choose"
  /\ call.stage = "working" => call.kind \in {"open", "load", "choose"}
  /\ call.stage \in {"working", "associated"} /\ call.kind # "open" => call.config # None
  /\ call.kind = "open" /\ call.stage = "working" => call.file # None /\ call.doc # None
  /\ call.kind = "open" /\ call.ok => call.file # None /\ call.doc # None
  /\ call.stage = "asked" => ~call.ok

Stages ==
  /\ \A c \in Caller : calls[c] # None => Sound(calls[c])
  /\ calls["desktop"] # None => calls["desktop"].kind = "resolve" /\ calls["desktop"].stage = "publishing"
  /\ status # None /\ status.stage = "read" => status.state # None
  /\ page # None /\ page.file # None => page.doc # None

-----------------------------------------------------------------------------
(* The state.                                                               *)

\* What is said of the coordinator anywhere is older, or what it is now.
Past(state, now) == state = None \/ state.revision < now.revision \/ state = now

Arriving ==
  \/ page.coordination = coord
  \/ CoordinationEvent(coord) \in events
  \/ status # None /\ (status.stage \in {"asked", "read"} \/ status.state = coord)

Hears ==
  ~life.cleared =>
    /\ app.state = coord
    /\ \A c \in Caller : calls[c] # None => Past(calls[c].state, coord)
    /\ \A event \in events : event.kind = "coordination" => Past(event.state, coord)
    /\ status # None => Past(status.state, coord)
    /\ page # None => Past(page.coordination, coord) /\ Arriving

-----------------------------------------------------------------------------
(* The roster.                                                              *)

\* A command that will replace the roster of the coordinator.
Exchanging ==
  calls["window"] # None /\
    \/ calls["window"].kind = "open" /\ calls["window"].stage = "working"
    \/ calls["window"].kind = "choose" /\ calls["window"].stage = "associated"

\* Read from its file and not changed since, except behind the coordinator.
AsWritten(config, content) == config \in foreign \/ rosters[config] = content

Rosters ==
  /\ coord.config # None => AsWritten(coord.config, coord.content)
  /\ coord.config # None /\ ~Exchanging => onAir \/ crossed \/ coord.config = files[store.file].config
  /\ calls["window"] # None /\ calls["window"].kind \in {"load", "choose"} /\ calls["window"].stage \in {"working", "associated"} =>
       AsWritten(calls["window"].config, calls["window"].content)
  /\ calls["window"] # None /\ Installs(calls["window"]) => crossed \/ calls["window"].config = files[store.file].config

Inv == Types /\ Lives /\ Silent /\ Listening /\ Stages /\ Hears /\ Rosters

-----------------------------------------------------------------------------
(* The calls, as each step leaves them: which fields it sets, and that the  *)
(* others stay.                                                             *)

\* A refusal, or an answer with a state.
LEMMA CallTold ==
  ASSUME NEW call \in CommandCall, NEW state \in State \cup {None}
  PROVE  LET new == [call EXCEPT !.state = state] IN
         /\ new \in CommandCall
         /\ new.state = state
         /\ new.kind = call.kind /\ new.stage = call.stage /\ new.to = call.to
         /\ new.file = call.file /\ new.epoch = call.epoch /\ new.config = call.config
         /\ new.content = call.content /\ new.ok = call.ok /\ new.doc = call.doc
         /\ new.revision = call.revision /\ new.event = call.event
  BY DEF CommandCall

\* An answer without a state.
LEMMA CallOk ==
  ASSUME NEW call \in CommandCall
  PROVE  LET new == [call EXCEPT !.ok = TRUE] IN
         /\ new \in CommandCall
         /\ new.ok = TRUE
         /\ new.kind = call.kind /\ new.stage = call.stage /\ new.to = call.to
         /\ new.file = call.file /\ new.epoch = call.epoch /\ new.config = call.config
         /\ new.content = call.content /\ new.state = call.state /\ new.doc = call.doc
         /\ new.revision = call.revision /\ new.event = call.event
  BY DEF CommandCall

\* The answer.
LEMMA CallAnswered ==
  ASSUME NEW call \in CommandCall
  PROVE  LET new == [call EXCEPT !.stage = "answered"] IN
         /\ new \in CommandCall
         /\ new.stage = "answered"
         /\ new.kind = call.kind /\ new.to = call.to /\ new.file = call.file
         /\ new.epoch = call.epoch /\ new.config = call.config
         /\ new.content = call.content /\ new.ok = call.ok /\ new.state = call.state
         /\ new.doc = call.doc /\ new.revision = call.revision /\ new.event = call.event
  BY DEF CommandCall

\* A call whose page is gone.
LEMMA CallDeaf ==
  ASSUME NEW call \in CommandCall
  PROVE  LET new == [call EXCEPT !.to = "nobody"] IN
         /\ new \in CommandCall
         /\ new.to = "nobody"
         /\ new.kind = call.kind /\ new.stage = call.stage /\ new.file = call.file
         /\ new.epoch = call.epoch /\ new.config = call.config
         /\ new.content = call.content /\ new.ok = call.ok /\ new.state = call.state
         /\ new.doc = call.doc /\ new.revision = call.revision /\ new.event = call.event
  BY DEF CommandCall

\* After the second publication.
LEMMA CallSpent ==
  ASSUME NEW call \in CommandCall
  PROVE  LET new == [call EXCEPT !.event = None] IN
         /\ new \in CommandCall
         /\ new.event = None
         /\ new.kind = call.kind /\ new.stage = call.stage /\ new.to = call.to
         /\ new.file = call.file /\ new.epoch = call.epoch /\ new.config = call.config
         /\ new.content = call.content /\ new.ok = call.ok /\ new.state = call.state
         /\ new.doc = call.doc /\ new.revision = call.revision
  BY DEF CommandCall

LEMMA BecomesRow ==
  ASSUME calls \in [Caller -> CommandCall \cup {None}], NEW c \in Caller, NEW call \in CommandCall \cup {None},
         Becomes(c, call)
  PROVE  /\ calls' \in [Caller -> CommandCall \cup {None}]
         /\ calls'[c] = call /\ \A d \in Caller \ {c} : calls'[d] = calls[d]
  BY DEF Becomes

LEMMA AnsweredRow ==
  ASSUME calls \in [Caller -> CommandCall \cup {None}], NEW c \in Caller, NEW call \in CommandCall, Answered(c, call)
  PROVE  /\ calls' \in [Caller -> CommandCall \cup {None}]
         /\ \A d \in Caller \ {c} : calls'[d] = calls[d]
         /\ \/ calls'[c] = None
            \/ /\ c = "window" /\ call.to = "page"
               /\ calls'[c] \in CommandCall /\ calls'[c].stage = "answered"
               /\ calls'[c].kind = call.kind /\ calls'[c].to = call.to
               /\ calls'[c].file = call.file /\ calls'[c].epoch = call.epoch
               /\ calls'[c].config = call.config /\ calls'[c].content = call.content
               /\ calls'[c].ok = call.ok /\ calls'[c].state = call.state
               /\ calls'[c].doc = call.doc /\ calls'[c].revision = call.revision
               /\ calls'[c].event = call.event
  <1>1. CASE c = "window" /\ call.to = "page"
    <2>. DEFINE new == [call EXCEPT !.stage = "answered"]
    <2>1. Becomes(c, new)
      BY <1>1 DEF Answered
    <2>2. new \in CommandCall /\ new.stage = "answered"
          /\ new.kind = call.kind /\ new.to = call.to /\ new.file = call.file
          /\ new.epoch = call.epoch /\ new.config = call.config
          /\ new.content = call.content /\ new.ok = call.ok /\ new.state = call.state
          /\ new.doc = call.doc /\ new.revision = call.revision /\ new.event = call.event
      BY CallAnswered
    <2>. HIDE DEF new
    <2>3. calls' \in [Caller -> CommandCall \cup {None}] /\ calls'[c] = new /\ \A d \in Caller \ {c} : calls'[d] = calls[d]
      BY <2>1, <2>2, BecomesRow
    <2>. QED  BY <1>1, <2>2, <2>3
  <1>2. CASE ~(c = "window" /\ call.to = "page")
    <2>1. Becomes(c, None)
      BY <1>2 DEF Answered
    <2>. QED  BY <2>1, BecomesRow
  <1>. QED  BY <1>1, <1>2

-----------------------------------------------------------------------------
(* Publication.                                                             *)

\* A step does not take the coordinator back, App says what it says, and a page is told.
Speaks ==
  /\ coord' = coord \/ coord'.revision = coord.revision + 1
  /\ life.cleared => ~coord'.onAir
  /\ ~life.cleared => app'.state = coord'
  /\ events \subseteq events' /\ (page = None => events' = events)
  /\ ~life.cleared => \A event \in events' \ events : event.kind = "coordination" => Past(event.state, coord')
  /\ ~life.cleared /\ page # None /\ coord' # coord => CoordinationEvent(coord') \in events'

\* A commit: the next revision is published while nobody can overtake it.
LEMMA CommitSpeaks ==
  ASSUME Inv, NEW change \in State, NEW a \in Memory, a.state = app.state, life.cleared => ~change.onAir,
         Commit(change, a)
  PROVE  /\ Speaks
         /\ coord' \in State /\ app' \in Memory /\ events' \subseteq SessionNews \cup CoordinationNews
         /\ coord'.revision = coord.revision + 1 /\ coord'.onAir = change.onAir
         /\ coord'.config = change.config /\ coord'.content = change.content
         /\ app'.requested = a.requested /\ app'.published = a.published
  <1>. DEFINE next == Advanced(change)
  <1>1. /\ coord \in State /\ app \in Memory /\ events \subseteq SessionNews \cup CoordinationNews
        /\ (~life.cleared => app.state = coord)
    BY DEF Inv, Types, Hears
  <1>2. /\ next \in State /\ next.revision = coord.revision + 1 /\ next.onAir = change.onAir
        /\ next.config = change.config /\ next.content = change.content /\ next # None
    BY <1>1, DesktopAssumption DEF Advanced, State
  <1>3. /\ coord' = next /\ app' = Published(a, next)
        /\ events' = IF page = None THEN events ELSE events \cup Emitted(a, next)
    BY DEF Commit, Emit
  <1>4. [a EXCEPT !.state = next] \in Memory /\ [a EXCEPT !.state = next].state = next
        /\ [a EXCEPT !.state = next].requested = a.requested /\ [a EXCEPT !.state = next].published = a.published
    BY <1>2 DEF Memory
  <1>. HIDE DEF next
  <1>5. app' \in {a, [a EXCEPT !.state = next]} /\ app' \in Memory
        /\ app'.requested = a.requested /\ app'.published = a.published
    BY <1>3, <1>4 DEF Published
  <1>6. ~life.cleared => Newer(a, next)
    BY <1>1, <1>2 DEF Newer, State
  <1>7. ~life.cleared => app'.state = next /\ Emitted(a, next) = {CoordinationEvent(next)}
    BY <1>3, <1>4, <1>6 DEF Published, Emitted
  <1>8. CoordinationEvent(next) \in CoordinationNews /\ CoordinationEvent(next).state = next
        /\ Emitted(a, next) \subseteq {CoordinationEvent(next)}
    BY <1>2 DEF CoordinationEvent, CoordinationNews, Emitted
  <1>9. events' \subseteq SessionNews \cup CoordinationNews /\ events \subseteq events'
        /\ (page = None => events' = events)
    BY <1>1, <1>3, <1>8
  <1>10. \A event \in events' \ events : event.state = next
    BY <1>3, <1>8
  <1>11. Speaks
    BY <1>2, <1>3, <1>7, <1>8, <1>9, <1>10 DEF Speaks, Past
  <1>. QED  BY <1>2, <1>3, <1>5, <1>9, <1>11

\* Nothing is committed and nothing emitted.
LEMMA StillSpeaks ==
  ASSUME Inv, coord' = coord, app'.state = app.state, events' = events
  PROVE  Speaks
  BY DEF Speaks, Inv, Hears, Silent

\* A second publication: what has been overtaken changes nothing.
LEMMA RepeatSpeaks ==
  ASSUME Inv, NEW state \in State, NEW a \in Memory, a.state = app.state, ~life.cleared => Past(state, coord),
         NEW news \in SUBSET SessionNews, coord' = coord,
         \/ app'.state = Published(a, state).state
         \/ app'.state = (IF StrictlyNewer(a, state) THEN state ELSE a.state),
         NEW more \in SUBSET {CoordinationEvent(state)}, Emit(more \cup news)
  PROVE  Speaks /\ events' \subseteq SessionNews \cup CoordinationNews
  <1>1. /\ coord \in State /\ events \subseteq SessionNews \cup CoordinationNews
        /\ (~life.cleared => app.state = coord) /\ (life.cleared => ~coord.onAir)
    BY DEF Inv, Types, Hears, Silent
  <1>2. CoordinationEvent(state) \in CoordinationNews /\ CoordinationEvent(state).state = state
    BY DEF CoordinationEvent, CoordinationNews
  <1>3. events' = IF page = None THEN events ELSE events \cup (more \cup news)
    BY DEF Emit
  <1>4. events' \subseteq SessionNews \cup CoordinationNews /\ events \subseteq events'
        /\ (page = None => events' = events)
    BY <1>1, <1>2, <1>3
  <1>5. \A event \in events' \ events : event.kind = "coordination" => event.state = state
    <2>1. \A event \in news : event.kind = "session"
      BY DEF SessionNews
    <2>. QED  BY <1>2, <1>3, <2>1
  <1>6. ASSUME ~life.cleared  PROVE app'.state = coord
    <2>1. a.state = coord /\ Past(state, coord) /\ state # None /\ coord # None
      BY <1>1, <1>6, DesktopAssumption
    <2>2. Newer(a, state) => state = coord
      BY <1>1, <2>1 DEF Newer, Past, State
    <2>3. ~StrictlyNewer(a, state)
      BY <1>1, <2>1 DEF StrictlyNewer, Past, State
    <2>4. Published(a, state).state = coord
      BY <2>1, <2>2 DEF Published, Memory
    <2>. QED  BY <2>1, <2>3, <2>4
  <1>7. Speaks
    BY <1>1, <1>4, <1>5, <1>6 DEF Speaks
  <1>. QED  BY <1>4, <1>7

-----------------------------------------------------------------------------
(* Step of a call.                                                         *)

\* The call of c goes on, or ends.
Turns(c) ==
  /\ calls' \in [Caller -> CommandCall \cup {None}]
  /\ \A d \in Caller \ {c} : calls'[d] = calls[d]
  /\ calls'[c] # None =>
       /\ Sound(calls'[c]) /\ calls'[c].stage # "asked"
       /\ ~life.cleared => Past(calls'[c].state, coord')
       /\ c = "window" => calls[c] # None /\ calls'[c].to = calls[c].to
       /\ c = "desktop" => calls'[c].kind = "resolve" /\ calls'[c].stage = "publishing"

\* A step of a call or a save, or a change at the coordinator: the page has not noticed it yet.
Serves ==
  /\ UNCHANGED <<life, status, page>>
  /\ \A s \in saves' : s.live \/ s.stage = "kept" => page # None
  /\ Speaks
  /\ calls' = calls \/ \E c \in Caller : Turns(c)
  /\ coord'.config = coord.config \/ Turns("window")

LEMMA Callers == Caller = {"window", "desktop"} /\ "window" \in Caller /\ "desktop" \in Caller
  BY DEF Caller

LEMMA InstallsMeans ==
  ASSUME NEW call
  PROVE  Installs(call) <=> \/ call.kind = "load" /\ call.stage = "working"
                            \/ call.kind = "choose" /\ call.stage = "associated"
  BY DEF Installs

LEMMA UsedRow ==
  ASSUME left \in Left, \A k \in Kind : left.each[k] <= Budget[k], NEW kind \in Kind, Used(kind)
  PROVE  left' \in Left /\ \A k \in Kind : left'.each[k] <= Budget[k]
  <1>1. /\ left.total - Cost[kind] \in Nat /\ left.each[kind] - 1 \in Nat /\ left.each \in [Kind -> Nat]
        /\ Budget \in [Kind -> Nat]
    BY DesktopAssumption DEF Used, Left
  <1>. DEFINE each == [left.each EXCEPT ![kind] = @ - 1]
  <1>2. each \in [Kind -> Nat] /\ \A k \in Kind : each[k] <= Budget[k]
    BY <1>1
  <1>3. left' = [total |-> left.total - Cost[kind], each |-> each]
    BY DEF Used
  <1>. HIDE DEF each
  <1>. QED  BY <1>1, <1>2, <1>3 DEF Left

\* What a step of a call or a save keeps of the invariant.
LEMMA ServesKeeps ==
  ASSUME Inv, Serves
  PROVE  Lives' /\ Silent' /\ Listening' /\ Stages' /\ Hears'
  <1>1. /\ Lives /\ Silent /\ Listening /\ Stages /\ Hears /\ Types
        /\ life' = life /\ status' = status /\ page' = page /\ Speaks
        /\ (calls' = calls \/ \E c \in Caller : Turns(c))
        /\ \A s \in saves' : s.live \/ s.stage = "kept" => page # None
    BY DEF Inv, Serves
  <1>2. ASSUME NEW c \in Caller  PROVE
          /\ calls'[c] # None => Sound(calls'[c]) /\ (~life.cleared => Past(calls'[c].state, coord'))
          /\ c = "window" /\ calls'[c] # None /\ calls'[c].to = "page" => page # None
          /\ c = "desktop" /\ calls'[c] # None => calls'[c].kind = "resolve" /\ calls'[c].stage = "publishing"
    <2>1. calls'[c] = calls[c] \/ Turns(c)
      BY <1>1 DEF Turns
    <2>2. ~life.cleared /\ calls[c] # None => Past(calls[c].state, coord')
      <3>1. calls[c] # None => calls[c] \in CommandCall
        BY <1>1 DEF Types
      <3>2. ASSUME ~life.cleared, calls[c] # None  PROVE Past(calls[c].state, coord')
        <4>1. calls[c].state \in State \cup {None} /\ coord \in State /\ Past(calls[c].state, coord)
              /\ (coord' = coord \/ coord'.revision = coord.revision + 1)
          BY <1>1, <3>1, <3>2 DEF Types, Hears, Speaks, CommandCall
        <4>. QED  BY <4>1 DEF Past, State
      <3>. QED  BY <3>2
    <2>3. CASE calls'[c] = calls[c]
      BY <1>1, <2>2, <2>3 DEF Stages, Listening
    <2>4. CASE Turns(c)
      BY <1>1, <2>4 DEF Turns, Listening
    <2>. QED  BY <2>1, <2>3, <2>4
  <1>3. Lives'
    BY <1>1 DEF Lives
  <1>4. Silent'
    <2>1. ~life.cleared \/ ~coord'.onAir
      BY <1>1 DEF Speaks
    <2>2. Turns("window") => ~(calls'["window"] # None /\ calls'["window"].stage = "asked")
      BY DEF Turns
    <2>3. calls'["window"] = calls["window"] \/ Turns("window")
      BY <1>1, Callers DEF Turns
    <2>4. coord'.config = coord.config \/ Turns("window")
      BY DEF Serves
    <2>. QED  BY <1>1, <2>1, <2>2, <2>3, <2>4 DEF Silent, Waits
  <1>5. Listening'
    <2>1. page = None => events' = {}
      BY <1>1 DEF Speaks, Listening
    <2>. QED  BY <1>1, <1>2, <2>1, Callers DEF Listening, Up
  <1>6. Stages'
    BY <1>1, <1>2, Callers DEF Stages
  <1>7. Hears'
    <2>. SUFFICES ASSUME ~life.cleared  PROVE Hears'
      BY <1>1 DEF Hears
    <2>1. /\ coord \in State /\ (coord' = coord \/ coord'.revision = coord.revision + 1)
          /\ app'.state = coord' /\ events \subseteq events'
          /\ \A event \in events' \ events : event.kind = "coordination" => Past(event.state, coord')
          /\ (page # None /\ coord' # coord => CoordinationEvent(coord') \in events')
          /\ (status # None => Past(status.state, coord)) /\ (page # None => Past(page.coordination, coord) /\ Arriving)
          /\ \A event \in events : event.kind = "coordination" => Past(event.state, coord)
      BY <1>1 DEF Types, Speaks, Hears
    <2>2. \A state \in State \cup {None} : Past(state, coord) => Past(state, coord')
      BY <2>1 DEF Past, State
    <2>3. /\ status # None => status.state \in State \cup {None}
          /\ page # None => page.coordination \in State \cup {None}
          /\ \A event \in events : event.kind = "coordination" => event.state \in State
      BY <1>1 DEF Types, StatusCall, Page, SessionNews, CoordinationNews
    <2>4. page # None => Arriving'
      <3>1. CASE coord' = coord
        BY <1>1, <2>1, <3>1 DEF Arriving, CoordinationEvent
      <3>2. CASE coord' # coord
        BY <1>1, <2>1, <3>2 DEF Arriving, CoordinationEvent
      <3>. QED  BY <3>1, <3>2
    <2>5. /\ status # None => Past(status.state, coord')
          /\ page # None => Past(page.coordination, coord')
          /\ \A event \in events' : event.kind = "coordination" => Past(event.state, coord')
      BY <2>1, <2>2, <2>3
    <2>. QED  BY <1>1, <1>2, <2>1, <2>4, <2>5 DEF Hears
  <1>. QED  BY <1>3, <1>4, <1>5, <1>6, <1>7

\* The call of the window goes on for nobody.
Deafened ==
  /\ calls["window"] # None /\ calls'["window"] # None
  /\ calls'["window"].kind = calls["window"].kind /\ calls'["window"].stage = calls["window"].stage
  /\ calls'["window"].config = calls["window"].config /\ calls'["window"].content = calls["window"].content

\* What a step keeps of the roster that touches neither it nor the config of the open document.
LEMMA RostersStay ==
  ASSUME Inv, coord'.config = coord.config, coord'.content = coord.content, rosters' = rosters, foreign' = foreign,
         onAir' = onAir, crossed => crossed', store'.file = store.file,
         crossed' \/ files'[store.file].config = files[store.file].config,
         \/ calls'["window"] = calls["window"] \/ Deafened
         \/ ~Exchanging /\ (calls'["window"] = None \/ calls'["window"].stage \notin {"working", "associated"})
  PROVE  Rosters'
  <1>1. Rosters
    BY DEF Inv
  <1>2. CASE calls'["window"] = calls["window"]
    BY <1>1, <1>2, InstallsMeans DEF Rosters, Exchanging, AsWritten
  <1>3. CASE ~Exchanging /\ (calls'["window"] = None \/ calls'["window"].stage \notin {"working", "associated"})
    BY <1>1, <1>3, InstallsMeans DEF Rosters, Exchanging, AsWritten
  <1>4. CASE Deafened
    <2>1. Exchanging' <=> Exchanging
      BY <1>4 DEF Deafened, Exchanging
    <2>2. Installs(calls'["window"]) <=> Installs(calls["window"])
      BY <1>4, InstallsMeans DEF Deafened
    <2>. QED  BY <1>1, <1>4, <2>1, <2>2 DEF Rosters, AsWritten, Deafened
  <1>. QED  BY <1>2, <1>3, <1>4

\* The call of the window, or of the desktop, as a step finds it.
LEMMA CallFound ==
  ASSUME Inv, NEW c \in Caller, calls[c] # None
  PROVE  /\ calls[c] \in CommandCall /\ Sound(calls[c]) /\ calls[c].kind \in Kind \cup {"load"}
         /\ ~life.cleared => Past(calls[c].state, coord)
         /\ calls[c].state \in State \cup {None} /\ calls[c].event \in SessionNews \cup {None}
         /\ calls[c].doc \in Document \cup {None} /\ calls[c].config \in Config \cup {None} /\ calls[c].content \in Nat
         /\ calls[c].revision \in Nat /\ calls[c].file \in File \cup {None} /\ calls[c].epoch \in Nat
         /\ calls[c].stage # "publishing" => calls[c].event = None
  <1>1. calls[c] \in CommandCall
    BY DEF Inv, Types
  <1>2. Sound(calls[c]) /\ (~life.cleared => Past(calls[c].state, coord))
    BY DEF Inv, Stages, Hears
  <1>. QED  BY <1>1, <1>2 DEF CommandCall, Sound

LEMMA TurnBecomes ==
  ASSUME Inv, NEW c \in Caller, NEW call \in CommandCall, Becomes(c, call), Sound(call), call.stage # "asked",
         ~life.cleared => Past(call.state, coord'),
         c = "window" => calls[c] # None /\ call.to = calls[c].to,
         c = "desktop" => call.kind = "resolve" /\ call.stage = "publishing"
  PROVE  Turns(c) /\ calls'[c] = call
  <1>1. calls \in [Caller -> CommandCall \cup {None}]
    BY DEF Inv, Types
  <1>2. /\ calls' \in [Caller -> CommandCall \cup {None}]
        /\ calls'[c] = call /\ \A d \in Caller \ {c} : calls'[d] = calls[d]
    BY <1>1, BecomesRow
  <1>. QED  BY <1>2 DEF Turns

LEMMA TurnAnswered ==
  ASSUME Inv, NEW c \in Caller, NEW call \in CommandCall, Answered(c, call), call.event = None,
         ~life.cleared => Past(call.state, coord'),
         c = "window" => calls[c] # None /\ call.to = calls[c].to,
         call.kind = "open" /\ call.ok => call.file # None /\ call.doc # None
  PROVE  Turns(c) /\ (calls'[c] = None \/ calls'[c].stage = "answered")
  <1>1. calls \in [Caller -> CommandCall \cup {None}]
    BY DEF Inv, Types
  <1>2. /\ calls' \in [Caller -> CommandCall \cup {None}]
        /\ \A d \in Caller \ {c} : calls'[d] = calls[d]
        /\ \/ calls'[c] = None
           \/ /\ c = "window" /\ call.to = "page"
              /\ calls'[c] \in CommandCall /\ calls'[c].stage = "answered"
              /\ calls'[c].kind = call.kind /\ calls'[c].to = call.to /\ calls'[c].file = call.file
              /\ calls'[c].ok = call.ok /\ calls'[c].state = call.state /\ calls'[c].doc = call.doc
              /\ calls'[c].event = call.event
    BY <1>1, AnsweredRow
  <1>3. calls'[c] # None => Sound(calls'[c])
    BY <1>2, InstallsMeans DEF Sound
  <1>. QED  BY <1>2, <1>3 DEF Turns

LEMMA TurnRefused ==
  ASSUME Inv, NEW c \in Caller, calls[c] # None, calls[c].stage # "publishing", ~(calls[c].kind = "open" /\ calls[c].ok),
         coord' = coord, Refused(c)
  PROVE  Turns(c) /\ (calls'[c] = None \/ calls'[c].stage = "answered")
  <1>. DEFINE call == [calls[c] EXCEPT !.state = app.state]
  <1>1. /\ app.state \in State \cup {None} /\ (~life.cleared => app.state = coord)
        /\ calls[c] \in CommandCall /\ calls[c].event = None
    BY CallFound DEF Inv, Types, Memory, Hears
  <1>2. /\ call \in CommandCall /\ call.event = None /\ call.to = calls[c].to /\ call.kind = calls[c].kind
        /\ call.ok = calls[c].ok /\ call.state = app.state
    BY <1>1, CallTold
  <1>3. Answered(c, call)
    BY DEF Refused
  <1>. HIDE DEF call
  <1>. QED  BY <1>1, <1>2, <1>3, TurnAnswered DEF Past

\* The answer with the state the coordinator has.
LEMMA TurnTold ==
  ASSUME Inv, NEW c \in Caller, NEW old \in CommandCall, old.event = None, old.kind # "open",
         c = "window" => old = calls[c] /\ old # None,
         coord' = coord, Answered(c, [old EXCEPT !.state = coord])
  PROVE  Turns(c) /\ (calls'[c] = None \/ calls'[c].stage = "answered")
  <1>. DEFINE call == [old EXCEPT !.state = coord]
  <1>1. coord \in State
    BY DEF Inv, Types
  <1>2. call \in CommandCall /\ call.event = None /\ call.to = old.to /\ call.kind = old.kind /\ call.state = coord
    BY <1>1, CallTold
  <1>. HIDE DEF call
  <1>. QED  BY <1>1, <1>2, TurnAnswered DEF Past, call

\* The call has been committed and is to be published a second time.
LEMMA TurnPublishes ==
  ASSUME Inv, NEW c \in Caller, NEW old \in CommandCall, old.event = None, old.kind # "groups",
         old.kind = "open" => old.file # None /\ old.doc # None,
         c = "window" => calls[c] # None /\ old = calls[c], c = "desktop" => old.kind = "resolve",
         coord' \in State,
         Becomes(c, [old EXCEPT !.stage = "publishing", !.ok = TRUE, !.state = coord'])
  PROVE  Turns(c) /\ calls'[c] # None /\ calls'[c].stage = "publishing"
  <1>. DEFINE now == coord'
              call == [old EXCEPT !.stage = "publishing", !.ok = TRUE, !.state = now]
  <1>0. now \in State /\ now = coord'
    OBVIOUS
  <1>. HIDE DEF now
  <1>1. /\ call \in CommandCall /\ call.event = None /\ call.to = old.to /\ call.kind = old.kind /\ call.state = now
        /\ call.stage = "publishing" /\ call.file = old.file /\ call.doc = old.doc /\ call.config = old.config
    BY <1>0, ZenonT(20) DEF CommandCall
  <1>. HIDE DEF call
  <1>2. Sound(call) /\ Past(call.state, coord')
    BY <1>0, <1>1, InstallsMeans, DesktopAssumption DEF Sound, Past
  <1>3. Becomes(c, call)
    BY DEF call, now
  <1>4. Turns(c) /\ calls'[c] = call
    BY <1>1, <1>2, <1>3, TurnBecomes
  <1>. QED  BY <1>1, <1>4, DesktopAssumption

LEMMA CallerServes ==
  ASSUME Inv, NEW c \in Caller, UNCHANGED <<life, saves, status, page>>, Speaks, Turns(c),
         coord'.config = coord.config \/ c = "window"
  PROVE  Serves
  BY DEF Serves, Inv, Listening

-----------------------------------------------------------------------------
(* The session file.                                                        *)

LEMMA StoreOpens ==
  ASSUME NEW st \in Store, NEW f \in File
  PROVE  LET new == [st EXCEPT !.file = f, !.epoch = @ + 1, !.revision = 0] IN
         /\ new \in Store /\ new.file = f /\ new.epoch \in Nat /\ new.epoch = st.epoch + 1
         /\ new.revision = 0 /\ new.closed = st.closed
  <1>. DEFINE epoch == st.epoch + 1
              new == [st EXCEPT !.file = f, !.epoch = epoch, !.revision = 0]
  <1>1. epoch \in Nat
    BY DEF Store
  <1>. HIDE DEF epoch
  <1>2. new \in Store /\ new.epoch = epoch /\ new.file = f /\ new.revision = 0 /\ new.closed = st.closed
    BY <1>1 DEF Store
  <1>. QED  BY <1>1, <1>2 DEF epoch

LEMMA StoreRevised ==
  ASSUME NEW st \in Store, NEW revision \in Nat
  PROVE  LET new == [st EXCEPT !.revision = revision] IN
         /\ new \in Store /\ new.file = st.file /\ new.epoch = st.epoch
         /\ new.revision = revision /\ new.closed = st.closed
  BY DEF Store

LEMMA OpenFileServes ==
  ASSUME Inv, NEW f \in File, NEW new \in BOOLEAN, OpenFile(f, new)
  PROVE  Types' /\ Serves /\ Rosters'
  <1>. DEFINE w == calls["window"]
              epoch == store'.epoch
              doc == files'[f]
              call == [w EXCEPT !.stage = "working", !.file = f, !.epoch = epoch, !.doc = doc]
  <1>1. /\ Types /\ Rosters /\ w # None /\ w.kind = "open" /\ w.stage = "asked"
        /\ UNCHANGED <<life, coord, rosters, app, saves, status, events, page, histories>>
        /\ files' = (IF new THEN [files EXCEPT ![f] = Starter] ELSE files)
        /\ store' = [store EXCEPT !.file = f, !.epoch = @ + 1, !.revision = 0]
        /\ Becomes("window", call)
    BY DEF OpenFile, Waits, Inv
  <1>2. w \in CommandCall /\ w.event = None /\ w.ok \in BOOLEAN /\ (~life.cleared => Past(w.state, coord))
    BY <1>1, CallFound, Callers DEF CommandCall
  <1>3. Starter \in Document
    BY DEF Starter, Document
  <1>4. files' \in [File -> Document] /\ files'[f] \in Document /\ store' \in Store /\ store'.epoch \in Nat
    <2>1. store \in Store /\ files \in [File -> Document]
      BY <1>1 DEF Types
    <2>2. store' \in Store /\ store'.epoch \in Nat
      BY <1>1, <2>1, StoreOpens
    <2>. QED  BY <1>1, <1>3, <2>1, <2>2
  <1>. HIDE DEF epoch, doc
  <1>5. /\ call \in CommandCall /\ call.stage = "working" /\ call.file = f /\ call.doc = doc
        /\ call.kind = w.kind /\ call.to = w.to /\ call.ok = w.ok /\ call.state = w.state /\ call.event = w.event
    <2>1. f \in File \cup {None} /\ epoch \in Nat /\ doc \in Document \cup {None}
      BY <1>4 DEF epoch, doc
    <2>. QED  BY <1>2, <2>1, ZenonT(20) DEF CommandCall
  <1>. HIDE DEF call
  <1>6. Sound(call)
    BY <1>1, <1>2, <1>4, <1>5, InstallsMeans, DesktopAssumption DEF Sound, doc
  <1>7. Turns("window") /\ calls'["window"] = call
    BY <1>1, <1>2, <1>5, <1>6, TurnBecomes, Callers DEF histories
  <1>8. Speaks
    BY <1>1, StillSpeaks
  <1>9. Serves
    BY <1>1, <1>7, <1>8, CallerServes, Callers
  <1>10. Types'
    BY <1>1, <1>4, <1>7 DEF Types, Turns, histories
  <1>11. Rosters'
    <2>1. /\ Exchanging' /\ calls'["window"].kind = "open"
          /\ coord' = coord /\ rosters' = rosters /\ foreign' = foreign
      BY <1>1, <1>5, <1>7, DesktopAssumption DEF Exchanging, histories
    <2>2. ~Installs(calls'["window"])
      BY <2>1, InstallsMeans
    <2>. QED  BY <1>1, <2>1, <2>2 DEF Rosters, AsWritten
  <1>. QED  BY <1>9, <1>10, <1>11

LEMMA OpenNothingServes ==
  ASSUME Inv, OpenNothing
  PROVE  Types' /\ Serves /\ Rosters'
  <1>. DEFINE w == calls["window"]
  <1>1. /\ Types /\ w # None /\ w.kind = "open" /\ w.stage = "asked"
        /\ UNCHANGED <<life, coord, rosters, documents, saves, status, events, page, histories>>
        /\ app' = [app EXCEPT !.requested = store'.revision] /\ Refused("window")
    BY DEF OpenNothing, Waits, Inv, Captured
  <1>2. ~w.ok /\ ~Exchanging
    BY <1>1, CallFound, Callers DEF Sound, Exchanging
  <1>3. app' \in Memory /\ app'.state = app.state
    BY <1>1 DEF Types, Memory, Store, documents
  <1>4. Turns("window") /\ (calls'["window"] = None \/ calls'["window"].stage = "answered")
    BY <1>1, <1>2, TurnRefused, Callers
  <1>5. Serves
    BY <1>1, <1>3, <1>4, StillSpeaks, CallerServes, Callers
  <1>6. Types'
    BY <1>1, <1>3, <1>4 DEF Types, Turns, histories, documents
  <1>7. Rosters'
    BY <1>1, <1>2, <1>4, RostersStay DEF histories, documents
  <1>. QED  BY <1>5, <1>6, <1>7

LEMMA MemoryRow ==
  ASSUME NEW a \in Memory, NEW revision \in Nat
  PROVE  /\ [a EXCEPT !.requested = revision] \in Memory /\ [a EXCEPT !.requested = revision].state = a.state
         /\ [a EXCEPT !.published = revision] \in Memory /\ [a EXCEPT !.published = revision].state = a.state
  BY DEF Memory

LEMMA StateRow ==
  ASSUME NEW state \in State, NEW on \in BOOLEAN, NEW config \in Config \cup {None}, NEW content \in Nat
  PROVE  /\ LET new == [state EXCEPT !.onAir = on] IN
              new \in State /\ new.onAir = on /\ new.config = state.config /\ new.content = state.content
         /\ LET new == [state EXCEPT !.config = config, !.content = content] IN
              new \in State /\ new.onAir = state.onAir /\ new.config = config /\ new.content = content
         /\ LET new == [state EXCEPT !.content = content] IN
              new \in State /\ new.onAir = state.onAir /\ new.config = state.config /\ new.content = content
  BY DEF State

\* The first half of opening a document may have gone by during a broadcast or not.
LEMMA FinishOpenServes ==
  ASSUME Inv, FinishOpen
  PROVE  Types' /\ Serves /\ Rosters'
  <1>. DEFINE w == calls["window"]
              a == Reordered(Captured(app))
  <1>1. /\ Types /\ Rosters /\ w # None /\ w.kind = "open" /\ w.stage = "working"
        /\ UNCHANGED <<life, rosters, documents, saves, status, page, left, crossed, foreign>>
    BY DEF FinishOpen, Works, Inv
  <1>2. /\ w \in CommandCall /\ w.event = None /\ w.file # None /\ w.doc # None
        /\ (~life.cleared => Past(w.state, coord)) /\ coord \in State /\ (life.cleared => ~coord.onAir)
    BY <1>1, CallFound, Callers DEF Sound, Types, Inv, Silent
  <1>3. a \in Memory /\ a.state = app.state
    <2>1. app \in Memory /\ store'.revision \in Nat
      BY <1>1 DEF Types, Store, documents
    <2>. QED  BY <2>1, MemoryRow DEF Reordered, Captured
  <1>4. CASE /\ coord.onAir /\ app' = a /\ onAir' = TRUE /\ UNCHANGED <<coord, events>>
             /\ Answered("window", [w EXCEPT !.ok = TRUE])
    <2>. DEFINE call == [w EXCEPT !.ok = TRUE]
    <2>1. /\ call \in CommandCall /\ call.event = None /\ call.to = w.to /\ call.kind = w.kind
          /\ call.state = w.state /\ call.file = w.file /\ call.doc = w.doc
      BY <1>2, CallOk
    <2>. HIDE DEF call
    <2>2. Turns("window") /\ (calls'["window"] = None \/ calls'["window"].stage = "answered")
      BY <1>1, <1>2, <1>4, <2>1, TurnAnswered, Callers DEF call
    <2>3. Serves
      BY <1>1, <1>3, <1>4, <2>2, StillSpeaks, CallerServes, Callers
    <2>4. Types'
      BY <1>1, <1>3, <1>4, <2>2 DEF Types, Turns, documents
    <2>5. Rosters'
      BY <1>1, <1>4, <2>2, InstallsMeans DEF Rosters, Exchanging, AsWritten, documents
    <2>. QED  BY <2>3, <2>4, <2>5
  <1>5. CASE /\ ~coord.onAir /\ Commit([coord EXCEPT !.config = None, !.content = 0], a) /\ onAir' = FALSE
             /\ Becomes("window", [w EXCEPT !.stage = "publishing", !.ok = TRUE, !.state = coord'])
    <2>. DEFINE change == [coord EXCEPT !.config = None, !.content = 0]
    <2>1. change \in State /\ change.onAir = coord.onAir /\ change.config = None
      BY <1>2 DEF State
    <2>. HIDE DEF change
    <2>2. Commit(change, a)
      BY <1>5 DEF change
    <2>3. /\ Speaks /\ coord' \in State /\ app' \in Memory /\ events' \subseteq SessionNews \cup CoordinationNews
          /\ coord'.config = None
      BY <1>2, <1>3, <2>1, <2>2, CommitSpeaks
    <2>4. Turns("window") /\ calls'["window"] # None /\ calls'["window"].stage = "publishing"
      BY <1>1, <1>2, <1>5, <2>3, TurnPublishes, Callers
    <2>5. Serves
      BY <1>1, <2>3, <2>4, CallerServes, Callers
    <2>6. Types'
      BY <1>1, <1>5, <2>3, <2>4 DEF Types, Turns, documents
    <2>7. Rosters'
      BY <1>1, <2>3, <2>4, InstallsMeans DEF Rosters, Exchanging, AsWritten, documents
    <2>. QED  BY <2>5, <2>6, <2>7
  <1>. QED  BY <1>4, <1>5 DEF FinishOpen

\* A command of the window ends as it found things.
LEMMA ToldServes ==
  ASSUME Inv, calls["window"] # None, calls["window"].stage # "publishing", calls["window"].kind # "open", ~Exchanging,
         Refused("window") \/ Answered("window", [calls["window"] EXCEPT !.state = coord]),
         UNCHANGED <<life, coord, rosters, documents, app, saves, status, events, page, crossed, onAir, foreign>>,
         left' \in Left, \A k \in Kind : left'.each[k] <= Budget[k]
  PROVE  Types' /\ Serves /\ Rosters'
  <1>1. calls["window"] \in CommandCall /\ calls["window"].event = None
    BY CallFound, Callers
  <1>2. Turns("window") /\ (calls'["window"] = None \/ calls'["window"].stage = "answered")
    <2>1. CASE Refused("window")
      BY <2>1, TurnRefused, Callers
    <2>2. CASE Answered("window", [calls["window"] EXCEPT !.state = coord])
      BY <1>1, <2>2, TurnTold, Callers
    <2>. QED  BY <2>1, <2>2
  <1>3. Serves
    BY <1>2, StillSpeaks, CallerServes, Callers
  <1>4. Types'
    BY <1>2 DEF Inv, Types, Turns, documents
  <1>5. Rosters'
    BY <1>2, RostersStay DEF documents
  <1>. QED  BY <1>3, <1>4, <1>5

\* A command of the window that the coordinator commits.
LEMMA CommitsServes ==
  ASSUME Inv, calls["window"] # None, calls["window"].stage = "asked", calls["window"].kind \notin {"open", "groups"},
         NEW change \in State, change.config = coord.config, change.content = coord.content,
         life.cleared => ~change.onAir, Commit(change, app),
         Becomes("window", [calls["window"] EXCEPT !.stage = "publishing", !.ok = TRUE, !.state = coord']),
         UNCHANGED <<life, rosters, documents, saves, status, page, histories>>
  PROVE  Types' /\ Serves /\ Rosters'
  <1>1. /\ calls["window"] \in CommandCall /\ calls["window"].event = None /\ app \in Memory /\ ~Exchanging
    BY CallFound, Callers DEF Inv, Types, Exchanging
  <1>2. /\ Speaks /\ coord' \in State /\ app' \in Memory /\ events' \subseteq SessionNews \cup CoordinationNews
        /\ coord'.config = coord.config /\ coord'.content = coord.content
    BY <1>1, CommitSpeaks
  <1>3. Turns("window") /\ calls'["window"] # None /\ calls'["window"].stage = "publishing"
    BY <1>1, <1>2, TurnPublishes, Callers
  <1>4. Serves
    BY <1>2, <1>3, CallerServes, Callers
  <1>5. Types'
    BY <1>2, <1>3 DEF Inv, Types, Turns, documents, histories
  <1>6. Rosters'
    BY <1>1, <1>2, <1>3, RostersStay DEF documents, histories
  <1>. QED  BY <1>4, <1>5, <1>6

-----------------------------------------------------------------------------
(* The player config.                                                       *)

LEMMA UnusedRow ==
  ASSUME Inv, left' = left \/ \E kind \in Kind : Used(kind)
  PROVE  left' \in Left /\ \A k \in Kind : left'.each[k] <= Budget[k]
  <1>1. left \in Left /\ \A k \in Kind : left.each[k] <= Budget[k]
    BY DEF Inv, Types
  <1>. QED  BY <1>1, UsedRow

\* A config is read: what is installed later is what the file had.
LEMMA ReadsRow ==
  ASSUME Inv, calls["window"] # None, calls["window"].stage = "asked", calls["window"].kind \in {"load", "choose"},
         coord' = coord, NEW config \in Config, NEW content \in Nat,
         Becomes("window", [calls["window"] EXCEPT !.stage = "working", !.config = config, !.content = content])
  PROVE  /\ Turns("window") /\ calls'["window"] # None
         /\ calls'["window"].stage = "working" /\ calls'["window"].kind = calls["window"].kind
         /\ calls'["window"].config = config /\ calls'["window"].content = content
  <1>. DEFINE w == calls["window"]
              call == [w EXCEPT !.stage = "working", !.config = config, !.content = content]
  <1>1. w \in CommandCall /\ w.event = None /\ (~life.cleared => Past(w.state, coord)) /\ ~w.ok
    BY CallFound, Callers DEF Sound
  <1>2. config # None /\ None \notin CommandCall
    BY DesktopAssumption
  <1>3. /\ call \in CommandCall /\ call.stage = "working" /\ call.config = config /\ call.content = content
        /\ call.kind = w.kind /\ call.to = w.to /\ call.ok = w.ok /\ call.state = w.state /\ call.event = w.event
    BY <1>1, ZenonT(20) DEF CommandCall
  <1>. HIDE DEF call
  <1>4. Sound(call)
    BY <1>1, <1>2, <1>3 DEF Sound
  <1>5. Turns("window") /\ calls'["window"] = call
    <2>1. Becomes("window", call)
      BY DEF call
    <2>. QED  BY <1>1, <1>3, <1>4, <2>1, TurnBecomes, Callers
  <1>. QED  BY <1>2, <1>3, <1>5

LEMMA StartLoadServes ==
  ASSUME Inv, StartLoad
  PROVE  Types' /\ Serves /\ Rosters'
  <1>. DEFINE w == calls["window"]
              config == IF Opened THEN files[store.file].config ELSE None
  <1>1. /\ Types /\ Rosters /\ w # None /\ w.kind = "load" /\ w.stage = "asked" /\ ~Exchanging
        /\ UNCHANGED <<life, coord, rosters, documents, app, saves, status, events, page, crossed, onAir, foreign>>
    BY DEF StartLoad, Waits, Inv, Exchanging
  <1>2. left' = left \/ \E kind \in Kind : Used(kind)
    BY DEF StartLoad, Kind
  <1>3. CASE Refused("window")
    BY <1>1, <1>2, <1>3, UnusedRow, ToldServes
  <1>4. CASE /\ MayChangeConfig /\ config # None
             /\ Becomes("window", [w EXCEPT !.stage = "working", !.config = config, !.content = rosters[config]])
    <2>. DEFINE content == rosters[config]
    <2>1. Opened /\ config = files[store.file].config /\ config \in Config /\ content \in Nat
      BY <1>1, <1>4 DEF MayChangeConfig, Opened, Types, Document, Store
    <2>. HIDE DEF config, content
    <2>2. Becomes("window", [w EXCEPT !.stage = "working", !.config = config, !.content = content])
      BY <1>4 DEF content
    <2>3. /\ Turns("window") /\ calls'["window"] # None
          /\ calls'["window"].stage = "working" /\ calls'["window"].kind = "load"
          /\ calls'["window"].config = config /\ calls'["window"].content = content
      BY <1>1, <2>1, <2>2, ReadsRow
    <2>4. Serves
      BY <1>1, <2>3, StillSpeaks, CallerServes, Callers
    <2>5. Types'
      BY <1>1, <1>2, <2>3, UnusedRow DEF Types, Turns, documents
    <2>6. Rosters'
      BY <1>1, <2>1, <2>3, InstallsMeans DEF Rosters, Exchanging, AsWritten, documents, content
    <2>. QED  BY <2>4, <2>5, <2>6
  <1>. QED  BY <1>3, <1>4 DEF StartLoad

LEMMA ChooseConfigServes ==
  ASSUME Inv, NEW config \in Config, NEW new \in BOOLEAN, ChooseConfig(config, new)
  PROVE  Types' /\ Serves /\ Rosters'
  <1>. DEFINE w == calls["window"]
  <1>1. /\ Types /\ Rosters /\ w # None /\ w.kind = "choose" /\ w.stage = "asked" /\ ~Exchanging
        /\ UNCHANGED <<life, coord, documents, app, saves, status, events, page, left, crossed, onAir>>
    BY DEF ChooseConfig, Waits, Inv, Exchanging
  <1>2. CASE Refused("window") /\ UNCHANGED <<rosters, foreign>>
    <2>1. left' \in Left /\ \A k \in Kind : left'.each[k] <= Budget[k]
      BY <1>1, UnusedRow
    <2>. QED  BY <1>1, <1>2, <2>1, ToldServes
  <1>3. CASE /\ rosters' = (IF new THEN [rosters EXCEPT ![config] = @ + 1] ELSE rosters)
             /\ foreign' = (IF new THEN foreign \cup {config} ELSE foreign)
             /\ Becomes("window", [w EXCEPT !.stage = "working", !.config = config, !.content = rosters'[config]])
    <2>. DEFINE content == rosters'[config]
    <2>1. /\ rosters \in [Config -> Nat] /\ rosters' \in [Config -> Nat] /\ content \in Nat
          /\ foreign \subseteq foreign' /\ foreign' \subseteq Config
          /\ \A c \in Config : c \in foreign' \/ rosters'[c] = rosters[c]
      BY <1>1, <1>3 DEF Types
    <2>. HIDE DEF content
    <2>2. Becomes("window", [w EXCEPT !.stage = "working", !.config = config, !.content = content])
      BY <1>3 DEF content
    <2>3. /\ Turns("window") /\ calls'["window"] # None
          /\ calls'["window"].stage = "working" /\ calls'["window"].kind = "choose"
          /\ calls'["window"].config = config /\ calls'["window"].content = content
      BY <1>1, <2>1, <2>2, ReadsRow
    <2>4. Serves
      BY <1>1, <2>3, StillSpeaks, CallerServes, Callers
    <2>5. Types'
      BY <1>1, <2>1, <2>3 DEF Types, Turns, documents
    <2>6. coord.config \in Config \cup {None}
      BY <1>1 DEF Types, State
    <2>7. Rosters'
      BY <1>1, <2>1, <2>3, <2>6, InstallsMeans DEF Rosters, Exchanging, AsWritten, documents, content
    <2>. QED  BY <2>4, <2>5, <2>7
  <1>. QED  BY <1>2, <1>3 DEF ChooseConfig

\* The open document names the config.
LEMMA DocumentRow ==
  ASSUME files \in [File -> Document], NEW f \in File, NEW doc \in Document, NEW config \in Config \cup {None}, NEW canon \in Nat
  PROVE  /\ [doc EXCEPT !.config = config] \in Document /\ [doc EXCEPT !.config = config].config = config
         /\ [doc EXCEPT !.canon = canon] \in Document /\ [doc EXCEPT !.canon = canon].config = doc.config
         /\ [files EXCEPT ![f] = doc] \in [File -> Document] /\ [files EXCEPT ![f] = doc][f] = doc
  BY DEF Document

LEMMA AssociateServes ==
  ASSUME Inv, Associate
  PROVE  Types' /\ Serves /\ Rosters'
  <1>. DEFINE w == calls["window"]
  <1>1. /\ Types /\ Rosters /\ w # None /\ w.kind = "choose" /\ w.stage = "working" /\ ~Exchanging
        /\ UNCHANGED <<life, coord, rosters, app, saves, status, events, page, crossed, onAir, foreign>>
    BY DEF Associate, Works, Inv, Exchanging
  <1>2. left' = left \/ \E kind \in Kind : Used(kind)
    BY DEF Associate, Kind
  <1>3. CASE Refused("window") /\ UNCHANGED documents
    BY <1>1, <1>2, <1>3, UnusedRow, ToldServes
  <1>4. CASE /\ Opened
             /\ files' = [files EXCEPT ![store.file].config = w.config]
             /\ store' = [store EXCEPT !.revision = @ + 1]
             /\ Becomes("window", [w EXCEPT !.stage = "associated", !.doc = files'[store.file]])
    <2>. DEFINE doc == files'[store.file]
                revision == store.revision + 1
                call == [w EXCEPT !.stage = "associated", !.doc = doc]
    <2>1. /\ w \in CommandCall /\ w.config \in Config /\ w.event = None /\ (~life.cleared => Past(w.state, coord))
          /\ store.file \in File /\ store \in Store /\ revision \in Nat /\ files \in [File -> Document]
      BY <1>1, <1>4, CallFound, Callers DEF Opened, Types, Store, Sound
    <2>2. files' \in [File -> Document] /\ doc \in Document /\ doc.config = w.config
      <3>. DEFINE old == files[store.file]
                  new == [old EXCEPT !.config = w.config]
      <3>1. files' = [files EXCEPT ![store.file] = new] /\ old \in Document /\ w.config \in Config \cup {None}
        BY <1>4, <2>1
      <3>2. new \in Document /\ new.config = w.config
        BY <3>1 DEF Document
      <3>. HIDE DEF new
      <3>. QED  BY <2>1, <3>1, <3>2
    <2>. HIDE DEF doc, revision
    <2>3. store' \in Store /\ store'.file = store.file
      BY <1>4, <2>1, StoreRevised DEF revision
    <2>4. /\ call \in CommandCall /\ call.stage = "associated" /\ call.config = w.config /\ call.content = w.content
          /\ call.kind = w.kind /\ call.to = w.to /\ call.state = w.state /\ call.event = w.event
      BY <2>1, <2>2, ZenonT(20) DEF CommandCall
    <2>5. call # None
      BY <2>4, DesktopAssumption
    <2>6. Becomes("window", call)
      BY <1>4 DEF doc
    <2>. HIDE DEF call
    <2>7. Sound(call)
      BY <1>1, <2>1, <2>4, DesktopAssumption DEF Sound
    <2>8. Turns("window") /\ calls'["window"] = call
      BY <1>1, <2>1, <2>4, <2>6, <2>7, TurnBecomes, Callers
    <2>9. Serves
      BY <1>1, <2>8, StillSpeaks, CallerServes, Callers
    <2>10. Types'
      BY <1>1, <1>2, <2>2, <2>3, <2>8, UnusedRow DEF Types, Turns
    <2>11. Rosters'
      BY <1>1, <2>2, <2>3, <2>4, <2>5, <2>8, InstallsMeans DEF Rosters, Exchanging, AsWritten, doc
    <2>. QED  BY <2>9, <2>10, <2>11
  <1>. QED  BY <1>3, <1>4 DEF Associate

\* Service.InstallPlayerConfig: the coordinator takes over what was read.
LEMMA InstallServes ==
  ASSUME Inv, Install
  PROVE  Types' /\ Serves /\ Rosters'
  <1>. DEFINE w == calls["window"]
              change == [coord EXCEPT !.config = w.config, !.content = w.content]
              doc == IF w.kind = "load" /\ Opened THEN files[store.file] ELSE w.doc
              now == coord'
              call == [w EXCEPT !.stage = "publishing", !.ok = TRUE, !.state = now, !.doc = doc]
  <1>1. /\ Types /\ Rosters /\ w # None /\ Installs(w) /\ w.stage \in {"working", "associated"}
        /\ w.kind \in {"load", "choose"} /\ ~coord.onAir
        /\ UNCHANGED <<life, rosters, documents, saves, status, page, left, crossed, onAir>>
        /\ Commit(change, app) /\ Becomes("window", call)
        /\ foreign' = (IF rosters[w.config] = w.content THEN foreign \ {w.config} ELSE foreign)
    BY InstallsMeans DEF Install, Inv
  <1>2. /\ w \in CommandCall /\ w.event = None /\ w.config \in Config /\ w.content \in Nat
        /\ w.doc \in Document \cup {None} /\ coord \in State /\ app \in Memory
    BY <1>1, CallFound, Callers DEF Types, Sound
  <1>3. doc \in Document \cup {None}
    BY <1>1, <1>2 DEF Opened, Types, Store
  <1>4. change \in State /\ ~change.onAir /\ change.config = w.config /\ change.content = w.content
    BY <1>1, <1>2 DEF State
  <1>. HIDE DEF change, doc
  <1>5. /\ Speaks /\ coord' \in State /\ app' \in Memory /\ events' \subseteq SessionNews \cup CoordinationNews
        /\ coord'.config = w.config /\ coord'.content = w.content
    BY <1>1, <1>2, <1>4, CommitSpeaks
  <1>6. now \in State
    BY <1>5
  <1>. HIDE DEF now
  <1>7. /\ call \in CommandCall /\ call.stage = "publishing" /\ call.state = now
        /\ call.kind = w.kind /\ call.to = w.to /\ call.event = w.event
    BY <1>2, <1>3, <1>6, ZenonT(20) DEF CommandCall
  <1>. HIDE DEF call
  <1>8. Sound(call) /\ Past(call.state, coord')
    BY <1>1, <1>2, <1>6, <1>7, DesktopAssumption DEF Sound, Past, now
  <1>9. Turns("window") /\ calls'["window"] = call
    BY <1>1, <1>7, <1>8, TurnBecomes, Callers
  <1>10. Serves
    BY <1>1, <1>5, <1>9, CallerServes, Callers
  <1>11. Types'
    BY <1>1, <1>5, <1>9 DEF Types, Turns, documents
  <1>12. Rosters'
    BY <1>1, <1>2, <1>5, <1>7, <1>9, InstallsMeans DEF Rosters, Exchanging, AsWritten, documents
  <1>. QED  BY <1>10, <1>11, <1>12

\* A change of the roster: the file first, then the coordinator.
LEMMA ChangeRosterServes ==
  ASSUME Inv, ChangeRoster
  PROVE  Types' /\ Serves /\ Rosters'
  <1>. DEFINE w == calls["window"]
              content == coord.content + 1
              change == [coord EXCEPT !.content = content]
  <1>1. /\ Types /\ Rosters /\ w # None /\ w.kind = "roster" /\ w.stage = "asked" /\ ~Exchanging
        /\ UNCHANGED <<life, documents, saves, status, page, left, crossed, onAir, foreign>>
    BY DEF ChangeRoster, Waits, Inv, Exchanging, histories
  <1>2. CASE Answered("window", [w EXCEPT !.state = coord]) /\ UNCHANGED <<coord, rosters, app, events>>
    <2>1. left' \in Left /\ \A k \in Kind : left'.each[k] <= Budget[k]
      BY <1>1, UnusedRow
    <2>. QED  BY <1>1, <1>2, <2>1, ToldServes
  <1>3. CASE /\ RosterAccepted(w)
             /\ rosters' = [rosters EXCEPT ![coord.config] = @ + 1]
             /\ Commit(change, app)
             /\ Becomes("window", [w EXCEPT !.stage = "publishing", !.ok = TRUE, !.state = coord'])
    <2>1. /\ coord \in State /\ app \in Memory /\ coord.config \in Config /\ ~coord.onAir /\ content \in Nat
          /\ rosters \in [Config -> Nat] /\ rosters[coord.config] = coord.content
      BY <1>1, <1>3 DEF RosterAccepted, Types, State
    <2>2. /\ rosters' \in [Config -> Nat] /\ rosters'[coord.config] = content
      BY <1>3, <2>1
    <2>. HIDE DEF content
    <2>3. change \in State /\ ~change.onAir /\ change.config = coord.config /\ change.content = content
      BY <2>1 DEF State
    <2>. HIDE DEF change
    <2>4. /\ Speaks /\ coord' \in State /\ app' \in Memory /\ events' \subseteq SessionNews \cup CoordinationNews
          /\ coord'.config = coord.config /\ coord'.content = content
      BY <1>3, <2>1, <2>3, CommitSpeaks
    <2>5. w \in CommandCall /\ w.event = None
      BY <1>1, CallFound, Callers
    <2>6. Turns("window") /\ calls'["window"] # None /\ calls'["window"].stage = "publishing"
      BY <1>1, <1>3, <2>4, <2>5, TurnPublishes, Callers
    <2>7. Serves
      BY <1>1, <2>4, <2>6, CallerServes, Callers
    <2>8. Types'
      BY <1>1, <2>2, <2>4, <2>6 DEF Types, Turns, documents
    <2>9. Rosters'
      BY <1>1, <2>2, <2>4, <2>6, InstallsMeans DEF Rosters, Exchanging, AsWritten, documents
    <2>. QED  BY <2>7, <2>8, <2>9
  <1>. QED  BY <1>2, <1>3 DEF ChangeRoster

LEMMA EditConfigFileServes ==
  ASSUME Inv, NEW config \in Config, EditConfigFile(config)
  PROVE  Types' /\ Serves /\ Rosters'
  <1>1. /\ Types /\ Rosters /\ Listening /\ rosters' = [rosters EXCEPT ![config] = @ + 1]
        /\ foreign' = foreign \cup {config}
        /\ UNCHANGED <<life, coord, documents, app, calls, saves, status, events, page, crossed, onAir>>
    BY DEF EditConfigFile, Inv
  <1>2. left' = left \/ \E kind \in Kind : Used(kind)
    BY DEF EditConfigFile, Kind
  <1>3. /\ rosters' \in [Config -> Nat] /\ coord.config \in Config \cup {None}
        /\ \A c \in Config : c \in foreign' \/ rosters'[c] = rosters[c]
    BY <1>1 DEF Types, State
  <1>4. Serves
    BY <1>1, StillSpeaks DEF Serves, Listening
  <1>5. Types'
    BY <1>1, <1>2, <1>3, UnusedRow DEF Types, documents
  <1>6. Rosters'
    <2>1. calls["window"] # None => calls["window"].config \in Config \cup {None} /\ Sound(calls["window"])
      BY CallFound, Callers
    <2>2. \A c \in Config, content \in Nat : AsWritten(c, content) => AsWritten(c, content)'
      BY <1>1, <1>3 DEF AsWritten
    <2>3. coord.config # None => AsWritten(coord.config, coord.content)'
      BY <1>1, <1>3, <2>2 DEF Rosters, Types, State
    <2>4. calls["window"] # None /\ calls["window"].kind \in {"load", "choose"} /\ calls["window"].stage \in {"working", "associated"}
            => AsWritten(calls["window"].config, calls["window"].content)'
      <3>1. calls["window"] # None => calls["window"].content \in Nat
        BY CallFound, Callers
      <3>. QED  BY <1>1, <2>1, <2>2, <3>1 DEF Rosters, Sound, AsWritten
    <2>. QED  BY <1>1, <2>3, <2>4 DEF Rosters, Exchanging, AsWritten, documents
  <1>. QED  BY <1>4, <1>5, <1>6

-----------------------------------------------------------------------------
(* The broadcast and the other commands of the coordinator.                 *)

LEMMA BroadcastServes ==
  ASSUME Inv, StartBroadcast \/ EndBroadcast
  PROVE  Types' /\ Serves /\ Rosters'
  <1>. DEFINE w == calls["window"]
  <1>1. /\ Types /\ w # None /\ w.kind \in {"start", "end"} /\ w.stage = "asked" /\ ~Exchanging
        /\ UNCHANGED <<life, rosters, documents, saves, status, page, histories>>
    BY DEF StartBroadcast, EndBroadcast, Waits, Inv, Exchanging
  <1>2. CASE /\ Refused("window") \/ Answered("window", [w EXCEPT !.state = coord])
             /\ UNCHANGED <<coord, app, events>>
    <2>1. left' \in Left /\ \A k \in Kind : left'.each[k] <= Budget[k]
      BY <1>1, UnusedRow DEF histories
    <2>. QED  BY <1>1, <1>2, <2>1, ToldServes DEF histories
  <1>3. ASSUME NEW on \in BOOLEAN, life.cleared => ~on, Commit([coord EXCEPT !.onAir = on], app),
               Becomes("window", [w EXCEPT !.stage = "publishing", !.ok = TRUE, !.state = coord'])
        PROVE  Types' /\ Serves /\ Rosters'
    <2>. DEFINE change == [coord EXCEPT !.onAir = on]
    <2>1. change \in State /\ change.onAir = on /\ change.config = coord.config /\ change.content = coord.content
      BY <1>1 DEF Types, State
    <2>. HIDE DEF change
    <2>2. Commit(change, app)
      BY <1>3 DEF change
    <2>. QED  BY <1>1, <1>3, <2>1, <2>2, CommitsServes
  <1>4. CASE StartBroadcast
    <2>1. life.cleared => coord.config = None
      BY <1>4 DEF StartBroadcast, Inv, Silent
    <2>. QED  BY <1>2, <1>3, <1>4, <2>1 DEF StartBroadcast
  <1>5. CASE EndBroadcast
    BY <1>2, <1>3, <1>5 DEF EndBroadcast
  <1>. QED  BY <1>4, <1>5

LEMMA CommandServes ==
  ASSUME Inv, NEW kind \in {"session", "terminal"}, Command(kind) \/ TerminalRefused
  PROVE  Types' /\ Serves /\ Rosters'
  <1>. DEFINE w == calls["window"]
  <1>1. /\ Types /\ w # None /\ w.kind \in {"session", "terminal"} /\ w.stage = "asked" /\ ~Exchanging
        /\ UNCHANGED <<life, rosters, documents, saves, status, page, histories>>
        /\ (life.cleared => ~coord.onAir)
    BY DEF Command, TerminalRefused, Waits, Inv, Exchanging, Silent
  <1>2. CASE /\ Refused("window") \/ Answered("window", [w EXCEPT !.state = coord])
             /\ UNCHANGED <<coord, app, events>>
    <2>1. left' \in Left /\ \A k \in Kind : left'.each[k] <= Budget[k]
      BY <1>1, UnusedRow DEF histories
    <2>. QED  BY <1>1, <1>2, <2>1, ToldServes DEF histories
  <1>3. CASE /\ Commit(coord, app)
             /\ Becomes("window", [w EXCEPT !.stage = "publishing", !.ok = TRUE, !.state = coord'])
    BY <1>1, <1>3, CommitsServes DEF Types
  <1>. QED  BY <1>2, <1>3 DEF Command, TerminalRefused

LEMMA PublishServes ==
  ASSUME Inv, Publish
  PROVE  Types' /\ Serves /\ Rosters'
  <1>. DEFINE w == calls["window"]
              state == w.state
  <1>1. /\ Types /\ w # None /\ w.stage = "publishing" /\ w.kind \notin {"reset", "resolve", "groups"} /\ ~Exchanging
        /\ UNCHANGED <<life, coord, rosters, documents, saves, status, page, histories>>
        /\ app' = Published(app, state) /\ Emit(Emitted(app, state)) /\ Answered("window", w)
    BY DEF Publish, Inv, Exchanging
  <1>2. /\ w \in CommandCall /\ Sound(w) /\ state \in State /\ (~life.cleared => Past(state, coord))
        /\ w.event = None /\ app \in Memory
    BY <1>1, CallFound, Callers DEF Sound, Types
  <1>3. Turns("window") /\ (calls'["window"] = None \/ calls'["window"].stage = "answered")
    BY <1>1, <1>2, TurnAnswered, Callers DEF Sound
  <1>. HIDE DEF state
  <1>4. Speaks /\ events' \subseteq SessionNews \cup CoordinationNews
    <2>1. Emitted(app, state) \subseteq {CoordinationEvent(state)} /\ Emit(Emitted(app, state) \cup {})
      BY <1>1 DEF Emitted, Emit
    <2>. QED  BY <1>1, <1>2, <2>1, RepeatSpeaks
  <1>5. app' \in Memory
    BY <1>1, <1>2 DEF Published, Memory
  <1>6. Serves
    BY <1>1, <1>3, <1>4, CallerServes, Callers
  <1>7. Types'
    BY <1>1, <1>3, <1>4, <1>5 DEF Types, Turns, documents, histories
  <1>8. Rosters'
    BY <1>1, <1>3, RostersStay DEF documents, histories
  <1>. QED  BY <1>6, <1>7, <1>8

LEMMA PlayersChangeServes ==
  ASSUME Inv, PlayersChange
  PROVE  Types' /\ Serves /\ Rosters'
  <1>1. /\ Types /\ Listening /\ Commit(coord, app) /\ (life.cleared => ~coord.onAir)
        /\ coord \in State /\ app \in Memory
        /\ UNCHANGED <<life, rosters, documents, calls, saves, status, page, crossed, onAir, foreign>>
    BY DEF PlayersChange, Inv, Silent, Types
  <1>2. left' = left \/ \E kind \in Kind : Used(kind)
    BY DEF PlayersChange, Kind
  <1>3. /\ Speaks /\ coord' \in State /\ app' \in Memory /\ events' \subseteq SessionNews \cup CoordinationNews
        /\ coord'.config = coord.config /\ coord'.content = coord.content
    BY <1>1, CommitSpeaks
  <1>4. Serves
    BY <1>1, <1>3 DEF Serves, Listening
  <1>5. Types'
    BY <1>1, <1>2, <1>3, UnusedRow DEF Types, documents
  <1>6. Rosters'
    BY <1>1, <1>3, RostersStay DEF documents
  <1>. QED  BY <1>4, <1>5, <1>6

-----------------------------------------------------------------------------
(* Changes of the canonical part of the document.                           *)

LEMMA MutateRow ==
  ASSUME Types, Opened, Mutate
  PROVE  /\ store.file \in File /\ files' = Mutated /\ Mutated \in [File -> Document]
         /\ Mutated[store.file] \in Document /\ Mutated[store.file].config = files[store.file].config
         /\ store.revision + 1 \in Nat /\ store' \in Store /\ store'.file = store.file
         /\ SessionEvent(Mutated[store.file]) \in SessionNews
  <1>. DEFINE old == files[store.file]
              canon == old.canon + 1
              new == [old EXCEPT !.canon = canon]
              revision == store.revision + 1
  <1>1. store.file \in File /\ store \in Store /\ files \in [File -> Document]
    BY DEF Types, Store, Opened
  <1>2. old \in Document /\ canon \in Nat /\ revision \in Nat /\ store.epoch \in Nat
    BY <1>1 DEF Document, Store
  <1>3. Mutated = [files EXCEPT ![store.file] = new]
    BY DEF Mutated
  <1>4. store' = [store EXCEPT !.revision = revision] /\ files' = Mutated
    BY DEF Mutate
  <1>. HIDE DEF canon, revision
  <1>5. new \in Document /\ new.config = old.config
    BY <1>2 DEF Document
  <1>. HIDE DEF new
  <1>6. Mutated \in [File -> Document] /\ Mutated[store.file] = new
    BY <1>1, <1>3, <1>5
  <1>7. store' \in Store /\ store'.file = store.file
    BY <1>1, <1>2, <1>4, StoreRevised
  <1>8. SessionEvent(new) \in SessionNews
    BY <1>2, <1>5 DEF SessionEvent, SessionNews, revision
  <1>. QED  BY <1>1, <1>2, <1>4, <1>5, <1>6, <1>7, <1>8 DEF revision

LEMMA MutatesServes ==
  ASSUME Inv, NEW c \in Caller, NEW old \in CommandCall, old.event = None, old.kind \in {"reset", "resolve", "groups"},
         c = "window" => calls[c] # None /\ old = calls[c], c = "desktop" => old.kind = "resolve",
         MutateAndCommit(c, old),
         UNCHANGED <<life, rosters, saves, status, page, crossed, onAir, foreign>>,
         left' = left \/ \E kind \in Kind : Used(kind)
  PROVE  Types' /\ Serves /\ Rosters'
  <1>. DEFINE now == coord'
              doc == Mutated[store.file]
              revision == store.revision + 1
              event == SessionEvent(doc)
              call == [old EXCEPT !.stage = "publishing", !.ok = TRUE, !.state = now, !.doc = doc,
                                  !.revision = revision, !.event = event]
  <1>1. /\ Types /\ Opened /\ Mutate /\ Commit(coord, app) /\ Becomes(c, call)
        /\ coord \in State /\ app \in Memory /\ (life.cleared => ~coord.onAir)
    BY DEF MutateAndCommit, Inv, Types, Silent
  <1>2. /\ Speaks /\ now \in State /\ app' \in Memory /\ events' \subseteq SessionNews \cup CoordinationNews
        /\ coord'.config = coord.config /\ coord'.content = coord.content
    BY <1>1, CommitSpeaks
  <1>3. /\ doc \in Document /\ doc.config = files[store.file].config /\ revision \in Nat /\ event \in SessionNews
        /\ files' \in [File -> Document] /\ store' \in Store /\ store'.file = store.file /\ files'[store.file] = doc
    BY <1>1, MutateRow
  <1>4. now = coord'
    OBVIOUS
  <1>. HIDE DEF now, doc, revision, event
  <1>5. /\ call \in CommandCall /\ call.stage = "publishing" /\ call.state = now /\ call.event = event
        /\ call.kind = old.kind /\ call.to = old.to
    BY <1>2, <1>3, ZenonT(20) DEF CommandCall
  <1>. HIDE DEF call
  <1>6. Sound(call) /\ Past(call.state, coord')
    BY <1>2, <1>3, <1>4, <1>5, DesktopAssumption DEF Sound, Past
  <1>7. Turns(c) /\ calls'[c] = call
    BY <1>1, <1>5, <1>6, TurnBecomes
  <1>8. Serves
    BY <1>2, <1>7, CallerServes
  <1>9. Types'
    <2>1. left' \in Left /\ \A k \in Kind : left'.each[k] <= Budget[k]
      BY UnusedRow
    <2>2. calls' \in [Caller -> CommandCall \cup {None}] /\ coord' \in State
      BY <1>2, <1>4, <1>7 DEF Turns
    <2>. QED  BY <1>1, <1>2, <1>3, <2>1, <2>2 DEF Types
  <1>10. Rosters'
    <2>1. \/ calls'["window"] = calls["window"]
          \/ ~Exchanging /\ calls'["window"].stage = "publishing"
      BY <1>5, <1>7, Callers DEF Turns, Exchanging
    <2>. QED  BY <1>2, <1>3, <2>1, RostersStay
  <1>. QED  BY <1>8, <1>9, <1>10

LEMMA ResetServes ==
  ASSUME Inv, ResetCommandState
  PROVE  Types' /\ Serves /\ Rosters'
  <1>. DEFINE w == calls["window"]
  <1>1. /\ Types /\ w # None /\ w.kind = "reset" /\ w.stage = "asked" /\ ~Exchanging
        /\ UNCHANGED <<life, rosters, saves, status, page, histories>>
    BY DEF ResetCommandState, Waits, Inv, Exchanging
  <1>2. w \in CommandCall /\ w.event = None
    BY <1>1, CallFound, Callers
  <1>3. CASE MutateAndCommit("window", w)
    BY <1>1, <1>2, <1>3, MutatesServes, Callers DEF histories
  <1>4. CASE /\ Opened
             /\ Becomes("window", [w EXCEPT !.stage = "publishing", !.ok = TRUE, !.state = coord,
                                       !.doc = files[store.file], !.revision = store.revision])
             /\ UNCHANGED <<coord, documents, app, events>>
    <2>. DEFINE doc == files[store.file]
                revision == store.revision
                call == [w EXCEPT !.stage = "publishing", !.ok = TRUE, !.state = coord, !.doc = doc, !.revision = revision]
    <2>1. doc \in Document \cup {None} /\ revision \in Nat /\ coord \in State
      BY <1>1, <1>4 DEF Opened, Types, Store
    <2>2. Becomes("window", call)
      BY <1>4
    <2>. HIDE DEF doc, revision
    <2>3. /\ call \in CommandCall /\ call.stage = "publishing" /\ call.state = coord /\ call.event = None
          /\ call.kind = w.kind /\ call.to = w.to
      BY <1>2, <2>1, ZenonT(20) DEF CommandCall
    <2>. HIDE DEF call
    <2>4. Sound(call) /\ Past(call.state, coord')
      BY <1>1, <1>4, <2>1, <2>3, DesktopAssumption DEF Sound, Past
    <2>5. Turns("window") /\ calls'["window"] = call
      BY <1>1, <2>2, <2>3, <2>4, TurnBecomes, Callers
    <2>6. Serves
      BY <1>1, <1>4, <2>5, StillSpeaks, CallerServes, Callers
    <2>7. Types'
      BY <1>1, <1>4, <2>5 DEF Types, Turns, documents, histories
    <2>8. Rosters'
      BY <1>1, <1>4, <2>3, <2>5, RostersStay DEF documents, histories
    <2>. QED  BY <2>6, <2>7, <2>8
  <1>5. CASE /\ Answered("window", [w EXCEPT !.state = coord])
             /\ UNCHANGED <<coord, documents, app, events>>
    <2>1. left' \in Left /\ \A k \in Kind : left'.each[k] <= Budget[k]
      BY <1>1, UnusedRow DEF histories
    <2>. QED  BY <1>1, <1>5, <2>1, ToldServes DEF histories
  <1>. QED  BY <1>3, <1>4, <1>5 DEF ResetCommandState

\* What the second publications do to the fields of App.
LEMMA PublicationRow ==
  ASSUME NEW a \in Memory, NEW state \in State, NEW revision \in Nat, NEW event \in SessionNews
  PROVE  /\ Published(a, state) \in Memory
         /\ AcceptedRevision(a, revision) \in Memory /\ AcceptedRevision(a, revision).state = a.state
         /\ PublishedSession(a, event) \in Memory /\ PublishedSession(a, event).state = a.state
         /\ EmittedSession(a, event) \subseteq SessionNews
         /\ Emitted(a, state) \subseteq {CoordinationEvent(state)}
         /\ [a EXCEPT !.state = state] \in Memory /\ [a EXCEPT !.state = state].state = state
  <1>1. event.revision \in Nat
    BY DEF SessionNews
  <1>2. [a EXCEPT !.state = state] \in Memory /\ [a EXCEPT !.state = state].state = state
    BY DEF Memory
  <1>. QED
    BY <1>1, <1>2, MemoryRow DEF Published, AcceptedRevision, PublishedSession, EmittedSession, Emitted

LEMMA FreshCall ==
  LET new == Call("resolve", "asked") IN
    new \in CommandCall /\ new.event = None /\ new.kind = "resolve" /\ new.ok = FALSE /\ new.file = None /\ new.to = "page"
  BY DEF CommandCall, Call, Kind

LEMMA ResolveServes ==
  ASSUME Inv, NEW c \in Caller, Resolve(c)
  PROVE  Types' /\ Serves /\ Rosters'
  <1>. DEFINE call == IF c = "window" THEN calls[c] ELSE Call("resolve", "asked")
  <1>1. /\ Types /\ coord \in State /\ app \in Memory /\ (life.cleared => ~coord.onAir)
        /\ UNCHANGED <<life, rosters, saves, status, page, crossed, onAir, foreign>>
    BY DEF Resolve, Inv, Types, Silent
  <1>2. left' = left \/ \E kind \in Kind : Used(kind)
    BY DEF Resolve, Kind
  <1>3. left' \in Left /\ \A k \in Kind : left'.each[k] <= Budget[k]
    BY <1>2, UnusedRow
  <1>4. c = "window" => Waits("window", "resolve")
    BY DEF Resolve
  <1>5. /\ call \in CommandCall /\ call.event = None /\ call.kind = "resolve"
        /\ c = "window" => calls[c] # None /\ call = calls[c] /\ ~Exchanging
    <2>1. CASE c = "window"
      BY <1>4, <2>1, CallFound DEF Waits, Exchanging
    <2>2. CASE c # "window"
      BY <2>2, FreshCall
    <2>. QED  BY <2>1, <2>2
  <1>6. c # "window" => calls'["window"] = calls["window"] \/ ~Turns(c)
    BY Callers DEF Turns
  <1>7. \/ coord.onAir /\ MutateAndCommit(c, call)
        \/ /\ coord.onAir /\ Commit(coord, app)
           /\ Becomes(c, [call EXCEPT !.stage = "publishing", !.ok = TRUE, !.state = coord'])
           /\ UNCHANGED documents
        \/ Answered(c, [call EXCEPT !.state = coord]) /\ UNCHANGED <<coord, documents, app, events>>
    BY DEF Resolve
  <1>. HIDE DEF call
  <1>8. CASE MutateAndCommit(c, call)
    BY <1>1, <1>2, <1>5, <1>8, MutatesServes
  <1>9. CASE /\ Commit(coord, app)
             /\ Becomes(c, [call EXCEPT !.stage = "publishing", !.ok = TRUE, !.state = coord'])
             /\ UNCHANGED documents
    <2>1. /\ Speaks /\ coord' \in State /\ app' \in Memory /\ events' \subseteq SessionNews \cup CoordinationNews
          /\ coord'.config = coord.config /\ coord'.content = coord.content
      BY <1>1, <1>9, CommitSpeaks
    <2>2. Turns(c) /\ calls'[c] # None /\ calls'[c].stage = "publishing"
      BY <1>5, <1>9, <2>1, TurnPublishes
    <2>3. Serves
      BY <1>1, <2>1, <2>2, CallerServes
    <2>4. Types'
      BY <1>1, <1>3, <1>9, <2>1, <2>2 DEF Types, Turns, documents
    <2>5. \/ calls'["window"] = calls["window"]
          \/ ~Exchanging /\ calls'["window"].stage = "publishing"
      BY <1>5, <1>6, <2>2
    <2>6. Rosters'
      BY <1>1, <1>9, <2>1, <2>5, RostersStay DEF documents
    <2>. QED  BY <2>3, <2>4, <2>6
  <1>10. CASE Answered(c, [call EXCEPT !.state = coord]) /\ UNCHANGED <<coord, documents, app, events>>
    <2>1. Turns(c) /\ (calls'[c] = None \/ calls'[c].stage = "answered")
      <3>1. c = "window" => call # None
        BY <1>5
      <3>. QED  BY <1>5, <1>10, <3>1, TurnTold
    <2>2. Serves
      BY <1>1, <1>10, <2>1, StillSpeaks, CallerServes
    <2>3. Types'
      BY <1>1, <1>3, <1>10, <2>1 DEF Types, Turns, documents
    <2>4. \/ calls'["window"] = calls["window"]
          \/ ~Exchanging /\ (calls'["window"] = None \/ calls'["window"].stage = "answered")
      BY <1>5, <1>6, <2>1
    <2>5. Rosters'
      BY <1>1, <1>10, <2>4, RostersStay DEF documents
    <2>. QED  BY <2>2, <2>3, <2>5
  <1>. QED  BY <1>7, <1>8, <1>9, <1>10

\* The end of a call that leaves everything but App and the events alone.
LEMMA EndServes ==
  ASSUME Inv, NEW c \in Caller, Turns(c), calls'[c] = None \/ calls'[c].stage = "answered",
         c = "window" => ~Exchanging, Speaks, app' \in Memory, events' \subseteq SessionNews \cup CoordinationNews,
         UNCHANGED <<life, coord, rosters, documents, saves, status, page, histories>>
  PROVE  Types' /\ Serves /\ Rosters'
  <1>1. Serves
    BY CallerServes
  <1>2. Types'
    BY DEF Inv, Types, Turns, documents, histories
  <1>3. \/ calls'["window"] = calls["window"]
        \/ ~Exchanging /\ (calls'["window"] = None \/ calls'["window"].stage = "answered")
    BY Callers DEF Turns
  <1>4. Rosters'
    BY <1>3, RostersStay DEF documents, histories
  <1>. QED  BY <1>1, <1>2, <1>4

LEMMA SpentTurns ==
  ASSUME Inv, NEW c \in Caller, calls[c] # None, calls[c].kind # "open", coord' = coord,
         Answered(c, [calls[c] EXCEPT !.event = None])
  PROVE  Turns(c) /\ (calls'[c] = None \/ calls'[c].stage = "answered")
  <1>. DEFINE call == [calls[c] EXCEPT !.event = None]
  <1>1. calls[c] \in CommandCall /\ (~life.cleared => Past(calls[c].state, coord))
    BY CallFound
  <1>2. /\ call \in CommandCall /\ call.event = None /\ call.to = calls[c].to
        /\ call.kind = calls[c].kind /\ call.state = calls[c].state
    BY <1>1, CallSpent
  <1>. HIDE DEF call
  <1>. QED  BY <1>1, <1>2, TurnAnswered DEF call

LEMMA FinishMutationServes ==
  ASSUME Inv, NEW c \in Caller, FinishMutation(c)
  PROVE  Types' /\ Serves /\ Rosters'
  <1>. DEFINE call == calls[c]
              state == call.state
              event == call.event
              a == IF StrictlyNewer(app, state) THEN [app EXCEPT !.state = state] ELSE app
              b == AcceptedRevision(a, call.revision)
              more == IF StrictlyNewer(app, state) THEN {CoordinationEvent(state)} ELSE {}
              news == IF event = None THEN {} ELSE EmittedSession(b, event)
  <1>1. /\ calls[c] # None /\ call.stage = "publishing" /\ call.kind \in {"reset", "resolve"}
        /\ app' = (IF event = None THEN b ELSE PublishedSession(b, event))
        /\ Emit(more \cup news) /\ Answered(c, [calls[c] EXCEPT !.event = None])
        /\ UNCHANGED <<life, coord, rosters, documents, saves, status, page, histories>>
    BY DEF FinishMutation
  <1>2. /\ state \in State /\ (~life.cleared => Past(state, coord)) /\ event \in SessionNews \cup {None}
        /\ call.revision \in Nat /\ app \in Memory
    BY <1>1, CallFound DEF Sound, Inv, Types
  <1>3. a \in Memory /\ a.state = IF StrictlyNewer(app, state) THEN state ELSE app.state
    <2>1. [app EXCEPT !.state = state] \in Memory /\ [app EXCEPT !.state = state].state = state
      BY <1>2 DEF Memory
    <2>. QED  BY <1>2, <2>1
  <1>. HIDE DEF a
  <1>4. b \in Memory /\ b.state = a.state
    BY <1>2, <1>3 DEF AcceptedRevision, Memory
  <1>. HIDE DEF b
  <1>5. app' \in Memory /\ app'.state = a.state /\ news \in SUBSET SessionNews /\ more \in SUBSET {CoordinationEvent(state)}
    BY <1>1, <1>2, <1>4, PublicationRow
  <1>. HIDE DEF more, news, state
  <1>6. Speaks /\ events' \subseteq SessionNews \cup CoordinationNews
    BY <1>1, <1>2, <1>3, <1>5, RepeatSpeaks
  <1>7. Turns(c) /\ (calls'[c] = None \/ calls'[c].stage = "answered")
    BY <1>1, SpentTurns
  <1>8. c = "window" => ~Exchanging
    BY <1>1 DEF Exchanging
  <1>. QED  BY <1>1, <1>5, <1>6, <1>7, <1>8, EndServes

LEMMA ReplaceTerminalGroupsServes ==
  ASSUME Inv, ReplaceTerminalGroups
  PROVE  Types' /\ Serves /\ Rosters'
  <1>. DEFINE w == calls["window"]
              doc == files[store.file]
              revision == store.revision
              call == [w EXCEPT !.state = coord, !.doc = doc, !.revision = revision]
  <1>1. /\ Types /\ w # None /\ w.kind = "groups" /\ w.stage = "asked" /\ ~Exchanging
        /\ UNCHANGED <<life, rosters, saves, status, page, histories>>
    BY DEF ReplaceTerminalGroups, Waits, Inv, Exchanging
  <1>2. w \in CommandCall /\ w.event = None /\ ~w.ok
    BY <1>1, CallFound, Callers DEF Sound
  <1>3. CASE MutateAndCommit("window", w)
    BY <1>1, <1>2, <1>3, MutatesServes, Callers DEF histories
  <1>4. CASE Opened /\ UNCHANGED documents /\ app' = Captured(app) /\ Answered("window", call) /\ UNCHANGED <<coord, events>>
    <2>1. doc \in Document \cup {None} /\ revision \in Nat /\ coord \in State /\ app \in Memory /\ store' = store
      BY <1>1, <1>4 DEF Opened, Types, Store, documents
    <2>. HIDE DEF doc, revision
    <2>2. /\ call \in CommandCall /\ call.event = None /\ call.kind = w.kind /\ call.to = w.to /\ call.state = coord
      BY <1>2, <2>1, ZenonT(20) DEF CommandCall
    <2>. HIDE DEF call
    <2>3. Turns("window") /\ (calls'["window"] = None \/ calls'["window"].stage = "answered")
      BY <1>1, <1>4, <2>2, TurnAnswered, Callers DEF Past
    <2>4. app' \in Memory /\ app'.state = app.state
      BY <1>4, <2>1, MemoryRow DEF Captured, revision
    <2>5. Speaks /\ events' \subseteq SessionNews \cup CoordinationNews
      BY <1>1, <1>4, <2>4, StillSpeaks DEF Types
    <2>. QED  BY <1>1, <1>4, <2>3, <2>4, <2>5, EndServes, Callers
  <1>. QED  BY <1>3, <1>4 DEF ReplaceTerminalGroups

LEMMA FinishGroupsServes ==
  ASSUME Inv, FinishGroups
  PROVE  Types' /\ Serves /\ Rosters'
  <1>. DEFINE call == calls["window"]
              state == call.state
              event == call.event
              a == AcceptedRevision(app, call.revision)
              b == PublishedSession(a, event)
              news == EmittedSession(a, event)
              more == Emitted(b, state)
  <1>1. /\ call # None /\ call.stage = "publishing" /\ call.kind = "groups"
        /\ app' = Published(b, state) /\ Emit(news \cup more)
        /\ Answered("window", [call EXCEPT !.event = None])
        /\ UNCHANGED <<life, coord, rosters, documents, saves, status, page, histories>>
    BY DEF FinishGroups
  <1>2. /\ state \in State /\ (~life.cleared => Past(state, coord)) /\ event \in SessionNews
        /\ call.revision \in Nat /\ app \in Memory
    BY <1>1, CallFound, Callers DEF Sound, Inv, Types
  <1>3. a \in Memory /\ a.state = app.state
    BY <1>2, PublicationRow
  <1>. HIDE DEF a
  <1>4. b \in Memory /\ b.state = app.state /\ news \in SUBSET SessionNews
    BY <1>2, <1>3, PublicationRow
  <1>. HIDE DEF b, news
  <1>5. app' \in Memory /\ more \in SUBSET {CoordinationEvent(state)}
    BY <1>1, <1>2, <1>4, PublicationRow
  <1>. HIDE DEF more, state
  <1>6. Speaks /\ events' \subseteq SessionNews \cup CoordinationNews
    <2>1. Emit(more \cup news) /\ app'.state = Published(b, state).state
      BY <1>1 DEF Emit
    <2>. QED  BY <1>1, <1>2, <1>4, <1>5, <2>1, RepeatSpeaks
  <1>7. Turns("window") /\ (calls'["window"] = None \/ calls'["window"].stage = "answered")
    BY <1>1, SpentTurns, Callers
  <1>. QED  BY <1>1, <1>5, <1>6, <1>7, EndServes, Callers DEF Exchanging

-----------------------------------------------------------------------------
(* SaveSession.                                                             *)

LEMMA SaveRow ==
  ASSUME NEW s \in SaveCall, NEW number \in Nat
  PROVE  /\ LET new == [s EXCEPT !.stage = "numbered", !.number = number] IN
              new \in SaveCall /\ new.live = s.live /\ new.stage = "numbered"
         /\ [s EXCEPT !.stage = "kept", !.number = number] \in SaveCall
  BY DEF SaveCall

LEMMA NumberSaveServes ==
  ASSUME Inv, NEW s \in saves, NumberSave(s)
  PROVE  Types' /\ Serves /\ Rosters'
  <1>. DEFINE number == app.requested + 1
              new == [s EXCEPT !.stage = "numbered", !.number = number]
  <1>1. /\ Types /\ Listening /\ s.stage = "sent" /\ app' = [app EXCEPT !.requested = number]
        /\ saves' = (saves \ {s}) \cup {new}
        /\ UNCHANGED <<life, coord, rosters, documents, calls, status, events, page, histories>>
    BY DEF NumberSave, Inv
  <1>2. s \in SaveCall /\ app \in Memory /\ number \in Nat
    BY <1>1 DEF Types, Memory
  <1>. HIDE DEF number
  <1>3. new \in SaveCall /\ new.live = s.live /\ new.stage = "numbered"
    BY <1>2, SaveRow
  <1>. HIDE DEF new
  <1>4. app' \in Memory /\ app'.state = app.state
    BY <1>1, <1>2, MemoryRow
  <1>5. Serves
    BY <1>1, <1>3, <1>4, StillSpeaks DEF Serves, Listening
  <1>6. Types'
    BY <1>1, <1>3, <1>4 DEF Types, documents, histories
  <1>7. Rosters'
    BY <1>1, RostersStay DEF documents, histories
  <1>. QED  BY <1>5, <1>6, <1>7

LEMMA KeepSaveServes ==
  ASSUME Inv, NEW s \in saves, KeepSave(s)
  PROVE  Types' /\ Serves /\ Rosters'
  <1>1. /\ Types /\ Listening /\ s.stage = "numbered" /\ s \in SaveCall
        /\ UNCHANGED <<life, coord, rosters, app, calls, status, events, page, left, onAir, foreign>>
    BY DEF KeepSave, Inv, Types
  <1>2. CASE ~Opened /\ saves' = saves \ {s} /\ UNCHANGED <<documents, crossed>>
    <2>1. Serves
      BY <1>1, <1>2, StillSpeaks DEF Serves, Listening
    <2>2. Types'
      BY <1>1, <1>2 DEF Types, documents
    <2>3. Rosters'
      BY <1>1, <1>2, RostersStay DEF documents
    <2>. QED  BY <2>1, <2>2, <2>3
  <1>3. CASE Opened
    <2>. DEFINE canon == files[store.file].canon
                doc == [s.doc EXCEPT !.canon = canon]
                number == EffectiveRevision(s.number)
                revision == store'.revision
                new == [s EXCEPT !.stage = "kept", !.number = revision]
    <2>1. /\ files' = [files EXCEPT ![store.file] = doc] /\ store' = [store EXCEPT !.revision = number]
          /\ saves' = (saves \ {s}) \cup (IF s.live THEN {new} ELSE {})
          /\ crossed' = (crossed \/ ~s.live \/ s.doc.text < files[store.file].text \/ s.doc.config # files[store.file].config)
      BY <1>3 DEF KeepSave
    <2>2. /\ store \in Store /\ store.file \in File /\ files \in [File -> Document] /\ s.doc \in Document /\ canon \in Nat
          /\ number \in Nat
      BY <1>1, <1>3 DEF Types, Store, Opened, Document, SaveCall, EffectiveRevision
    <2>. HIDE DEF canon, number
    <2>3. doc \in Document /\ doc.config = s.doc.config
      BY <2>2 DEF Document
    <2>. HIDE DEF doc
    <2>4. files' \in [File -> Document] /\ files'[store.file].config = s.doc.config
      BY <2>1, <2>2, <2>3
    <2>5. store' \in Store /\ store'.file = store.file /\ revision \in Nat
      BY <2>1, <2>2, StoreRevised
    <2>. HIDE DEF revision
    <2>6. new \in SaveCall
      BY <1>1, <2>5, SaveRow
    <2>. HIDE DEF new
    <2>7. crossed' \in BOOLEAN /\ (crossed => crossed')
          /\ (crossed' \/ files'[store.file].config = files[store.file].config)
      BY <2>1, <2>4
    <2>8. s.live => page # None
      BY <1>1 DEF Listening
    <2>9. Serves
      BY <1>1, <2>1, <2>8, StillSpeaks DEF Serves, Listening
    <2>10. Types'
      BY <1>1, <2>1, <2>4, <2>5, <2>6, <2>7 DEF Types
    <2>11. Rosters'
      BY <1>1, <2>5, <2>7, RostersStay
    <2>. QED  BY <2>9, <2>10, <2>11
  <1>. QED  BY <1>2, <1>3 DEF KeepSave

-----------------------------------------------------------------------------
(* The page.                                                                *)

\* What a step of the page keeps that says nothing new of the parts.
LEMMA ShowKeeps ==
  ASSUME Inv, Types', Listening', Stages', Hears',
         UNCHANGED <<life, coord, rosters, documents, onAir, foreign>>, crossed => crossed',
         \/ calls'["window"] = calls["window"] \/ Deafened
         \/ /\ ~Exchanging
            /\ calls'["window"] = None \/ calls'["window"].stage \notin {"working", "associated"}
            /\ Waits("window", "start")' => ~life.cleared
  PROVE  Inv'
  <1>1. Lives'
    BY DEF Inv, Lives
  <1>2. Silent'
    BY DEF Inv, Silent, Waits, Deafened
  <1>3. Rosters'
    BY RostersStay DEF documents
  <1>. QED  BY <1>1, <1>2, <1>3 DEF Inv

LEMMA UpClear == Inv /\ Up => ~life.cleared
  BY DEF Inv, Lives, Up, Ended

LEMMA AsksKeeps ==
  ASSUME Inv, NEW call \in CommandCall, call.stage = "asked", call.to = "page", call.ok = FALSE, call.event = None,
         call.state = None, call.file = None, Asks(call),
         left' \in Left, \A k \in Kind : left'.each[k] <= Budget[k],
         UNCHANGED <<life, coord, rosters, documents, app, saves, status, events, page, crossed, onAir, foreign>>
  PROVE  Inv'
  <1>1. /\ Types /\ Listening /\ Stages /\ Hears /\ Up /\ page # None /\ calls["window"] = None /\ ~life.cleared
        /\ Becomes("window", call)
    BY UpClear DEF Asks, Inv
  <1>2. /\ calls' \in [Caller -> CommandCall \cup {None}] /\ calls'["window"] = call /\ calls'["desktop"] = calls["desktop"]
    BY <1>1, BecomesRow, Callers DEF Types
  <1>3. Sound(call)
    BY DEF Sound
  <1>4. Types'
    BY <1>1, <1>2 DEF Types, documents
  <1>5. Listening'
    BY <1>1, <1>2, Callers DEF Listening, Up
  <1>6. Stages'
    BY <1>1, <1>2, <1>3, Callers DEF Stages
  <1>7. Hears'
    <2>1. Arriving'
      BY <1>1 DEF Hears, Arriving, CoordinationEvent
    <2>. QED  BY <1>1, <1>2, <2>1, Callers DEF Hears, Past
  <1>. QED  BY <1>1, <1>2, <1>4, <1>5, <1>6, <1>7, ShowKeeps DEF Exchanging

LEMMA AskingKeeps ==
  ASSUME Inv, Asking
  PROVE  Inv'
  <1>1. left \in Left /\ (\A k \in Kind : left.each[k] <= Budget[k])
    BY DEF Inv, Types
  <1>2. ASSUME NEW kind \in Kind, Used(kind), NEW call, NEW seen \in Nat, NEW durable \in Nat,
               call = Call(kind, "asked") \/ call = [Call(kind, "asked") EXCEPT !.seen = seen]
                 \/ call = [Call(kind, "asked") EXCEPT !.seen = seen, !.durable = durable],
               Asks(call),
               UNCHANGED <<life, coord, rosters, documents, app, saves, status, events, page, crossed, onAir, foreign>>
        PROVE  Inv'
    <2>1. /\ call \in CommandCall /\ call.stage = "asked" /\ call.to = "page" /\ call.ok = FALSE /\ call.event = None
          /\ call.state = None /\ call.file = None
      <3>1. kind \in Kind \cup {"load"}
        OBVIOUS
      <3>2. CASE call = Call(kind, "asked")
        BY <1>2, <3>1, <3>2 DEF CommandCall, Call
      <3>3. CASE call = [Call(kind, "asked") EXCEPT !.seen = seen]
        BY <1>2, <3>1, <3>3 DEF CommandCall, Call
      <3>4. CASE call = [Call(kind, "asked") EXCEPT !.seen = seen, !.durable = durable]
        BY <1>2, <3>1, <3>4 DEF CommandCall, Call
      <3>. QED  BY <1>2, <3>2, <3>3, <3>4
    <2>2. left' \in Left /\ (\A k \in Kind : left'.each[k] <= Budget[k])
      BY <1>1, <1>2, UsedRow
    <2>. QED  BY <1>2, <2>1, <2>2, AsksKeeps
  <1>3. page # None => page \in Page
    BY DEF Inv, Types
  <1>4. SeenRevision \in Nat \/ page = None
    BY <1>3 DEF SeenRevision, Page, State
  <1>5. CASE AskOpen
    BY <1>2, <1>5 DEF AskOpen, Kind
  <1>6. ASSUME NEW kind \in Kind, AskCommand(kind)  PROVE Inv'
    BY <1>2, <1>6 DEF AskCommand
  <1>7. CASE AskRoster
    BY <1>2, <1>4, <1>7 DEF AskRoster, Kind
  <1>8. CASE AskGroups
    <2>1. page.durable \in Nat
      BY <1>3, <1>8 DEF AskGroups, Page
    <2>. QED  BY <1>2, <1>4, <1>8, <2>1 DEF AskGroups, Kind
  <1>. QED  BY <1>5, <1>6, <1>7, <1>8 DEF Asking

\* applyCoordinationState, given a state that is not newer than the coordinator's.
LEMMA AppliedRow ==
  ASSUME coord \in State, page \in Page, NEW state \in State \cup {None}
  PROVE  LET new == Applied(page, state) IN
         /\ new \in Page /\ new.file = page.file /\ new.doc = page.doc
         /\ Past(page.coordination, coord) /\ Past(state, coord) =>
              /\ Past(new.coordination, coord)
              /\ page.coordination = coord \/ state = coord => new.coordination = coord
  <1>. DEFINE new == [page EXCEPT !.coordination = state]
  <1>1. new \in Page /\ new.coordination = state /\ new.file = page.file /\ new.doc = page.doc
    BY DEF Page
  <1>2. page.coordination \in State \cup {None} /\ None \notin State
    BY DesktopAssumption DEF Page
  <1>. HIDE DEF new
  <1>3. CASE state = None \/ (page.coordination # None /\ state.revision <= page.coordination.revision)
    <2>1. Applied(page, state) = page
      BY <1>3 DEF Applied
    <2>. QED  BY <1>2, <1>3, <2>1 DEF Past, State
  <1>4. CASE ~(state = None \/ (page.coordination # None /\ state.revision <= page.coordination.revision))
    <2>1. Applied(page, state) = new
      BY <1>4 DEF Applied, new
    <2>. QED  BY <1>1, <1>2, <1>4, <2>1 DEF Past, State
  <1>. QED  BY <1>3, <1>4

\* What is on its way to the page.
LEMMA SaidRow ==
  ASSUME Inv
  PROVE  /\ status # None => status \in StatusCall /\ status.state \in State \cup {None} /\ page \in Page
         /\ events # {} => page \in Page
         /\ page \in Page => page # None
         /\ \A event \in events : event.kind = "coordination" =>
              event.state \in State /\ (~life.cleared => Past(event.state, coord))
         /\ \A event \in events : event.kind = "session" => event \in SessionNews
         /\ ~life.cleared /\ status # None => Past(status.state, coord)
         /\ ~life.cleared /\ page # None => Past(page.coordination, coord) /\ Arriving
         /\ coord \in State
  <1>1. Types /\ Listening /\ Hears
    BY DEF Inv
  <1>2. /\ (status # None => status \in StatusCall) /\ (page # None => page \in Page) /\ coord \in State
        /\ events \subseteq SessionNews \cup CoordinationNews
    BY <1>1 DEF Types
  <1>3. \A event \in events : event.kind = "coordination" => event.state \in State
    BY <1>2 DEF SessionNews, CoordinationNews
  <1>4. \A event \in events : event.kind = "session" => event \in SessionNews
    BY <1>2 DEF CoordinationNews
  <1>5. status # None => status.state \in State \cup {None}
    BY <1>2 DEF StatusCall
  <1>. QED  BY <1>1, <1>2, <1>3, <1>4, <1>5, DesktopAssumption DEF Listening, Hears

\* A page that is told something, or takes an answer, and is then as new as before.
LEMMA PageKeeps ==
  ASSUME Inv, UNCHANGED <<life, coord, rosters, documents, app, onAir, foreign>>, crossed' \in BOOLEAN, crossed => crossed',
         page \in Page, page' \in Page, page'.file # None => page'.doc # None,
         \/ calls' = calls /\ left' = left
         \/ left' = left /\ ~Exchanging /\ (Becomes("window", None) \/ Becomes("window", Call("load", "asked")))
         \/ calls' = calls /\ left' \in Left /\ \A k \in Kind : left'.each[k] <= Budget[k],
         saves' \subseteq SaveCall, events' \subseteq events, status' \in {status, None},
         ~life.cleared => Past(page'.coordination, coord),
         ~life.cleared => Arriving'
  PROVE  Inv'
  <1>1. Types /\ Listening /\ Stages /\ Hears /\ page # None /\ page' # None
    BY DesktopAssumption DEF Inv
  <1>2. Call("load", "asked") \in CommandCall /\ Sound(Call("load", "asked")) /\ Call("load", "asked").kind = "load"
        /\ Call("load", "asked").stage = "asked" /\ Call("load", "asked").state = None
    BY DEF CommandCall, Call, Sound
  <1>. DEFINE load == Call("load", "asked")
  <1>3. /\ calls' \in [Caller -> CommandCall \cup {None}] /\ calls'["desktop"] = calls["desktop"]
        /\ \/ calls'["window"] = calls["window"]
           \/ ~Exchanging /\ (calls'["window"] = None \/ calls'["window"] = load)
    <2>1. ASSUME NEW call \in {None, load}, ~Exchanging, Becomes("window", call)
          PROVE  /\ calls' \in [Caller -> CommandCall \cup {None}] /\ calls'["desktop"] = calls["desktop"]
                 /\ calls'["window"] = call
      BY <1>1, <1>2, <2>1, BecomesRow, Callers DEF Types
    <2>. HIDE DEF load
    <2>. QED  BY <1>1, <2>1 DEF Types, load
  <1>. HIDE DEF load
  <1>4. Types'
    BY <1>1, <1>3 DEF Types, documents
  <1>5. Listening'
    BY <1>1, <1>3 DEF Listening, Up
  <1>6. Stages'
    BY <1>1, <1>2, <1>3, Callers DEF Stages, load
  <1>7. Hears'
    BY <1>1, <1>2, <1>3, Callers DEF Hears, Past, load
  <1>8. \/ calls'["window"] = calls["window"]
        \/ /\ ~Exchanging
           /\ calls'["window"] = None \/ calls'["window"].stage \notin {"working", "associated"}
           /\ ~Waits("window", "start")'
    BY <1>2, <1>3 DEF Waits, load
  <1>. QED  BY <1>4, <1>5, <1>6, <1>7, <1>8, ShowKeeps

LEMMA EditKeeps ==
  ASSUME Inv, Edit
  PROVE  Inv'
  <1>. DEFINE text == Budget["edit"] - left.each["edit"] + 1
              doc == [page.doc EXCEPT !.text = text]
              invocation == page.invocation + 1
              new == [page EXCEPT !.doc = doc, !.invocation = invocation]
              save == [doc |-> page'.doc, invocation |-> page'.invocation, stage |-> "sent", number |-> 0, live |-> TRUE]
  <1>1. /\ Types /\ page # None /\ page.file # None /\ Used("edit") /\ page' = new /\ saves' = saves \cup {save}
        /\ page \in Page /\ page.doc # None
        /\ UNCHANGED <<life, coord, rosters, documents, app, calls, status, events, crossed, onAir, foreign>>
    BY DEF Edit, Inv, Types, Stages
  <1>2. page.doc \in Document /\ invocation \in Nat /\ text \in Nat
    <2>1. "edit" \in Kind /\ Budget["edit"] \in Nat /\ left.each["edit"] \in Nat /\ left.each["edit"] <= Budget["edit"]
      BY <1>1, DesktopAssumption DEF Kind, Types, Left
    <2>. QED  BY <1>1, <2>1 DEF Page
  <1>. HIDE DEF text, invocation
  <1>3. doc \in Document
    BY <1>2 DEF Document
  <1>. HIDE DEF doc
  <1>4. /\ new \in Page /\ new.doc = doc /\ new.invocation = invocation /\ new.file = page.file
        /\ new.coordination = page.coordination
    BY <1>1, <1>2, <1>3 DEF Page
  <1>. HIDE DEF new
  <1>5. save \in SaveCall
    BY <1>1, <1>2, <1>3, <1>4 DEF SaveCall
  <1>. HIDE DEF save
  <1>6. saves' \subseteq SaveCall /\ page' \in Page /\ page'.doc # None
    BY <1>1, <1>3, <1>4, <1>5, DesktopAssumption DEF Types
  <1>7. left' \in Left /\ \A k \in Kind : left'.each[k] <= Budget[k]
    BY <1>1, UnusedRow DEF Kind
  <1>8. ~life.cleared => Past(page'.coordination, coord) /\ Arriving'
    BY <1>1, <1>4, SaidRow DEF Arriving, CoordinationEvent
  <1>. QED  BY <1>1, <1>6, <1>7, <1>8, PageKeeps DEF Types

LEMMA AnswerSaveKeeps ==
  ASSUME Inv, NEW s \in saves, AnswerSave(s)
  PROVE  Inv'
  <1>. DEFINE new == [page EXCEPT !.durable = s.number, !.rendered = s.invocation]
  <1>1. /\ Types /\ page # None /\ page \in Page /\ s \in SaveCall /\ saves' = saves \ {s}
        /\ page' = (IF s.number < page.durable \/ s.invocation < page.rendered THEN page ELSE new)
        /\ (page.file # None => page.doc # None)
        /\ UNCHANGED <<life, coord, rosters, documents, app, calls, status, events, histories>>
    BY DEF AnswerSave, Inv, Types, Listening, Stages
  <1>2. new \in Page /\ new.doc = page.doc /\ new.file = page.file /\ new.coordination = page.coordination
    BY <1>1 DEF SaveCall, Page
  <1>. HIDE DEF new
  <1>3. page' \in Page /\ page'.doc = page.doc /\ page'.file = page.file /\ page'.coordination = page.coordination
    BY <1>1, <1>2
  <1>4. ~life.cleared => Past(page'.coordination, coord) /\ Arriving'
    BY <1>1, <1>3, SaidRow DEF Arriving, CoordinationEvent
  <1>. QED  BY <1>1, <1>3, <1>4, PageKeeps DEF Types, histories

LEMMA ReadingKeeps ==
  ASSUME Inv, ReadCoordinator \/ GetRuntimeStatus
  PROVE  Inv'
  <1>1. /\ Types /\ Listening /\ Stages /\ Hears /\ status # None /\ coord \in State /\ app \in Memory
        /\ status \in StatusCall /\ status.state \in State \cup {None}
        /\ UNCHANGED <<life, coord, rosters, documents, calls, saves, events, page, histories>>
    BY SaidRow DEF ReadCoordinator, GetRuntimeStatus, AtStatus, Inv, Types
  <1>2. /\ status' \in StatusCall /\ app' \in Memory /\ status' # None
        /\ status'.stage \in {"read", "answer"} /\ (status'.stage = "read" => status'.state # None)
        /\ ~life.cleared => app'.state = coord /\ status'.state = coord
    <2>1. CASE ReadCoordinator
      BY <1>1, <2>1, DesktopAssumption DEF ReadCoordinator, StatusCall, Hears
    <2>2. CASE GetRuntimeStatus
      <3>1. status.state \in State /\ app' = Published(app, status.state)
            /\ status' = [stage |-> "answer", state |-> app'.state]
        BY <1>1, <2>2 DEF GetRuntimeStatus, AtStatus, Stages
      <3>2. [app EXCEPT !.state = status.state] \in Memory /\ [app EXCEPT !.state = status.state].state = status.state
        BY <1>1, <3>1 DEF Memory
      <3>3. app' \in Memory /\ app'.state \in State \cup {None}
        BY <1>1, <3>1, <3>2 DEF Published, Memory
      <3>4. status' \in StatusCall /\ status' # None
        BY <3>1, <3>3, DesktopAssumption DEF StatusCall
      <3>5. ASSUME ~life.cleared  PROVE app'.state = coord
        <4>1. app.state = coord /\ Past(status.state, coord) /\ coord # None /\ status.state # None
          BY <1>1, <3>1, <3>5, DesktopAssumption DEF Hears
        <4>2. Newer(app, status.state) => status.state = coord
          BY <1>1, <3>1, <4>1 DEF Newer, Past, State
        <4>. QED  BY <3>1, <3>2, <4>1, <4>2 DEF Published
      <3>. QED  BY <3>1, <3>3, <3>4, <3>5
    <2>. QED  BY <2>1, <2>2
  <1>3. Types'
    BY <1>1, <1>2 DEF Types, documents, histories
  <1>4. Listening'
    BY <1>1 DEF Listening, Up
  <1>5. Stages'
    BY <1>1, <1>2 DEF Stages
  <1>6. Hears'
    BY <1>1, <1>2 DEF Hears, Arriving, CoordinationEvent, Past
  <1>. QED  BY <1>1, <1>3, <1>4, <1>5, <1>6, ShowKeeps DEF histories

LEMMA TakeStatusKeeps ==
  ASSUME Inv, TakeStatus
  PROVE  Inv'
  <1>1. /\ Types /\ status # None /\ status.stage = "answer" /\ page' = Applied(page, status.state) /\ status' = None
        /\ page \in Page /\ status.state \in State \cup {None} /\ coord \in State /\ page # None
        /\ (page.file # None => page.doc # None)
        /\ UNCHANGED <<life, coord, rosters, documents, app, calls, saves, events, histories>>
    BY SaidRow DEF TakeStatus, AtStatus, Inv, Types, Stages
  <1>2. /\ page' \in Page /\ page'.file = page.file /\ page'.doc = page.doc
        /\ Past(page.coordination, coord) /\ Past(status.state, coord) =>
             /\ Past(page'.coordination, coord)
             /\ page.coordination = coord \/ status.state = coord => page'.coordination = coord
    BY <1>1, AppliedRow
  <1>3. ~life.cleared => Past(page'.coordination, coord) /\ Arriving'
    BY <1>1, <1>2, SaidRow DEF Arriving, CoordinationEvent
  <1>. QED  BY <1>1, <1>2, <1>3, PageKeeps DEF Types, histories

LEMMA TakeCoordinationKeeps ==
  ASSUME Inv, NEW event \in events, TakeCoordination(event)
  PROVE  Inv'
  <1>1. /\ Types /\ event.kind = "coordination" /\ events' = events \ {event} /\ page' = Applied(page, event.state)
        /\ page \in Page /\ event.state \in State /\ coord \in State /\ page # None
        /\ (page.file # None => page.doc # None)
        /\ UNCHANGED <<life, coord, rosters, documents, app, calls, saves, status, histories>>
    BY SaidRow DEF TakeCoordination, Inv, Types, Stages
  <1>2. /\ page' \in Page /\ page'.file = page.file /\ page'.doc = page.doc
        /\ Past(page.coordination, coord) /\ Past(event.state, coord) =>
             /\ Past(page'.coordination, coord)
             /\ page.coordination = coord \/ event.state = coord => page'.coordination = coord
    BY <1>1, AppliedRow
  <1>3. event = CoordinationEvent(coord) => event.state = coord
    BY DEF CoordinationEvent
  <1>4. ~life.cleared => Past(page'.coordination, coord) /\ Arriving'
    BY <1>1, <1>2, <1>3, SaidRow DEF Arriving, CoordinationEvent
  <1>. QED  BY <1>1, <1>2, <1>4, PageKeeps DEF Types, histories

LEMMA TakeSessionKeeps ==
  ASSUME Inv, NEW event \in events, TakeSession(event)
  PROVE  Inv'
  <1>. DEFINE new == [page EXCEPT !.doc = event.doc, !.durable = event.revision]
  <1>1. /\ Types /\ event.kind = "session" /\ events' = events \ {event} /\ event \in SessionNews
        /\ page \in Page /\ page # None /\ (page.file # None => page.doc # None)
        /\ UNCHANGED <<life, coord, rosters, documents, app, calls, saves, status, left, onAir, foreign>>
        /\ ((TakesSession(event) /\ page' = new) \/ page' = page)
    BY SaidRow DEF TakeSession, Inv, Types, Stages
  <1>2. crossed' \in BOOLEAN /\ (crossed => crossed')
    BY <1>1 DEF TakeSession, Types
  <1>3. new \in Page /\ new.doc = event.doc /\ new.file = page.file /\ new.coordination = page.coordination
        /\ event.doc # None
    BY <1>1, DesktopAssumption DEF SessionNews, Page
  <1>. HIDE DEF new
  <1>4. page' \in Page /\ (page'.file # None => page'.doc # None) /\ page'.coordination = page.coordination
    BY <1>1, <1>3
  <1>5. event # CoordinationEvent(coord)
    BY <1>1 DEF CoordinationEvent
  <1>6. ~life.cleared => Past(page'.coordination, coord) /\ Arriving'
    BY <1>1, <1>4, <1>5, SaidRow DEF Arriving, CoordinationEvent
  <1>. QED  BY <1>1, <1>2, <1>4, <1>6, PageKeeps DEF Types

LEMMA TakeOpenedKeeps ==
  ASSUME Inv, TakeOpened
  PROVE  Inv'
  <1>. DEFINE call == calls["window"]
              new == [page EXCEPT !.file = call.file, !.epoch = call.epoch, !.doc = call.doc, !.durable = 0, !.rendered = 0, !.invocation = 0]
  <1>1. /\ Types /\ call # None /\ call.stage = "answered" /\ call.kind = "open" /\ ~Exchanging
        /\ UNCHANGED <<life, coord, rosters, documents, app, saves, status, events, histories>>
        /\ (Becomes("window", None) \/ Becomes("window", Call("load", "asked")))
        /\ ((call.ok /\ page' = new) \/ page' = page)
    BY DEF TakeOpened, Inv, Exchanging
  <1>2. /\ call \in CommandCall /\ Sound(call) /\ page # None /\ page \in Page
        /\ (page.file # None => page.doc # None)
    BY <1>1, CallFound, Callers DEF Inv, Listening, Stages, Sound, Types
  <1>3. /\ call.file \in File \cup {None} /\ call.epoch \in Nat /\ call.doc \in Document \cup {None}
        /\ (call.ok => call.doc # None)
    BY <1>1, <1>2 DEF CommandCall, Sound
  <1>. HIDE DEF call
  <1>4. new \in Page /\ new.doc = call.doc /\ new.coordination = page.coordination
    BY <1>2, <1>3 DEF Page
  <1>. HIDE DEF new
  <1>5. page' \in Page /\ (page'.file # None => page'.doc # None) /\ page'.coordination = page.coordination
    BY <1>1, <1>2, <1>3, <1>4
  <1>6. ~life.cleared => Past(page'.coordination, coord) /\ Arriving'
    BY <1>1, <1>2, <1>5, SaidRow DEF Arriving, CoordinationEvent
  <1>. QED  BY <1>1, <1>2, <1>5, <1>6, PageKeeps DEF Types, histories

LEMMA TakeAnswerKeeps ==
  ASSUME Inv, TakeAnswer
  PROVE  Inv'
  <1>. DEFINE call == calls["window"]
              state == IF call.kind = "reset" THEN None ELSE call.state
              taken == call.doc # None /\ page.file # None /\ (call.ok \/ call.kind = "groups")
              shown == Applied(page, state)
              doc == IF taken THEN call.doc ELSE shown.doc
              durable == IF taken /\ call.revision > shown.durable THEN call.revision ELSE shown.durable
              new == [shown EXCEPT !.doc = doc, !.durable = durable]
  <1>1. /\ Types /\ call # None /\ call.stage = "answered" /\ call.kind # "open" /\ ~Exchanging
        /\ page' = new /\ crossed' = (crossed \/ (taken /\ Crosses(call.doc))) /\ Becomes("window", None)
        /\ UNCHANGED <<life, coord, rosters, documents, app, saves, status, events, left, onAir, foreign>>
    BY DEF TakeAnswer, Inv, Exchanging
  <1>2. /\ call \in CommandCall /\ page # None /\ page \in Page /\ coord \in State
        /\ state \in State \cup {None} /\ (~life.cleared => Past(state, coord))
        /\ call.doc \in Document \cup {None} /\ call.revision \in Nat
        /\ (page.file # None => page.doc # None)
    BY <1>1, CallFound, Callers DEF Inv, Listening, Stages, Sound, Types, Past
  <1>3. /\ shown \in Page /\ shown.file = page.file /\ shown.doc = page.doc
        /\ Past(page.coordination, coord) /\ Past(state, coord) =>
             /\ Past(shown.coordination, coord)
             /\ page.coordination = coord \/ state = coord => shown.coordination = coord
    BY <1>2, AppliedRow
  <1>4. crossed' \in BOOLEAN /\ (crossed => crossed')
    BY <1>1 DEF Types
  <1>5. taken => call.doc # None
    OBVIOUS
  <1>. HIDE DEF call, state, taken, shown
  <1>6. doc \in Document \cup {None} /\ durable \in Nat /\ (page.file # None => doc # None)
    BY <1>2, <1>3, <1>5 DEF Page
  <1>. HIDE DEF doc, durable
  <1>7. new \in Page /\ new.doc = doc /\ new.file = shown.file /\ new.coordination = shown.coordination
    BY <1>3, <1>6 DEF Page
  <1>. HIDE DEF new
  <1>8. ~life.cleared => Past(page'.coordination, coord) /\ Arriving'
    BY <1>1, <1>2, <1>3, <1>7, SaidRow DEF Arriving, CoordinationEvent
  <1>. QED  BY <1>1, <1>2, <1>3, <1>4, <1>6, <1>7, <1>8, PageKeeps DEF Types

\* The call of the window and the saves, once their page is gone.
LEMMA ForgottenRow ==
  ASSUME Inv, saves' = Forgotten, calls' = [calls EXCEPT !["window"] = Deaf(@)]
  PROVE  /\ saves' \subseteq SaveCall /\ (\A s \in saves' : ~s.live /\ s.stage # "kept")
         /\ calls' \in [Caller -> CommandCall \cup {None}] /\ calls'["desktop"] = calls["desktop"]
         /\ \/ calls'["window"] = None /\ ~Exchanging
            \/ /\ calls'["window"] # None /\ calls'["window"].to = "nobody" /\ Deafened
               /\ Sound(calls'["window"]) /\ calls'["window"].state = calls["window"].state
  <1>. DEFINE w == calls["window"]
              new == [w EXCEPT !.to = "nobody"]
  <1>1. calls \in [Caller -> CommandCall \cup {None}] /\ saves \subseteq SaveCall
    BY DEF Inv, Types
  <1>2. saves' \subseteq SaveCall /\ (\A s \in saves' : ~s.live /\ s.stage # "kept")
    <2>1. ASSUME NEW s \in saves
          PROVE  /\ [s EXCEPT !.live = FALSE] \in SaveCall /\ ~[s EXCEPT !.live = FALSE].live
                 /\ [s EXCEPT !.live = FALSE].stage = s.stage
      <3>1. s \in SaveCall /\ 0 \in Nat
        BY <1>1
      <3>. QED  BY <3>1 DEF SaveCall
    <2>. QED  BY <2>1 DEF Forgotten
  <1>3. Becomes("window", Deaf(w))
    BY DEF Becomes
  <1>4. CASE w = None \/ w.stage = "answered"
    <2>1. Deaf(w) = None /\ ~Exchanging
      BY <1>4 DEF Deaf, Exchanging
    <2>. QED  BY <1>1, <1>2, <1>3, <2>1, BecomesRow, Callers
  <1>5. CASE ~(w = None \/ w.stage = "answered")
    <2>1. w \in CommandCall /\ Sound(w)
      BY <1>5, CallFound, Callers
    <2>2. /\ new \in CommandCall /\ new.to = "nobody" /\ new.kind = w.kind /\ new.stage = w.stage /\ new.file = w.file
          /\ new.config = w.config /\ new.content = w.content /\ new.ok = w.ok /\ new.state = w.state
          /\ new.doc = w.doc /\ new.event = w.event
      BY <2>1, CallDeaf
    <2>3. Deaf(w) = new
      BY <1>5 DEF Deaf
    <2>. HIDE DEF new
    <2>4. new # None /\ Sound(new)
      BY <1>5, <2>1, <2>2, DesktopAssumption DEF Sound
    <2>5. calls' \in [Caller -> CommandCall \cup {None}] /\ calls'["window"] = new /\ calls'["desktop"] = calls["desktop"]
      BY <1>1, <1>3, <2>2, <2>3, BecomesRow, Callers
    <2>. QED  BY <1>2, <1>5, <2>2, <2>4, <2>5 DEF Deafened
  <1>. QED  BY <1>4, <1>5

LEMMA LoadPageKeeps ==
  ASSUME Inv, LoadPage
  PROVE  Inv'
  <1>1. /\ Types /\ Listening /\ Stages /\ Hears /\ Up /\ ~life.cleared /\ page' = Blank
        /\ status' = [stage |-> "asked", state |-> None] /\ events' = {} /\ saves' = Forgotten
        /\ calls' = [calls EXCEPT !["window"] = Deaf(@)]
        /\ UNCHANGED <<life, coord, rosters, documents, app, crossed, onAir, foreign>>
    BY UpClear DEF LoadPage, Inv
  <1>2. left' \in Left /\ \A k \in Kind : left'.each[k] <= Budget[k]
    <2>1. left' = left \/ \E kind \in Kind : Used(kind)
      BY DEF LoadPage, Kind
    <2>. QED  BY <2>1, UnusedRow
  <1>3. /\ saves' \subseteq SaveCall /\ (\A s \in saves' : ~s.live /\ s.stage # "kept")
        /\ calls' \in [Caller -> CommandCall \cup {None}] /\ calls'["desktop"] = calls["desktop"]
        /\ \/ calls'["window"] = None /\ ~Exchanging
           \/ /\ calls'["window"] # None /\ calls'["window"].to = "nobody" /\ Deafened
              /\ Sound(calls'["window"]) /\ calls'["window"].state = calls["window"].state
    BY <1>1, ForgottenRow
  <1>4. page' \in Page /\ page'.file = None /\ page'.coordination = None /\ page' # None
    BY <1>1, DesktopAssumption DEF Page, Blank
  <1>5. status' \in StatusCall /\ status'.state = None /\ status'.stage = "asked" /\ status' # None
    BY <1>1, DesktopAssumption DEF StatusCall
  <1>6. Types'
    BY <1>1, <1>2, <1>3, <1>4, <1>5 DEF Types, documents
  <1>7. Listening'
    BY <1>1, <1>4 DEF Listening, Up
  <1>8. Stages'
    BY <1>1, <1>3, <1>4, <1>5, Callers DEF Stages
  <1>9. Hears'
    BY <1>1, <1>3, <1>4, <1>5, Callers DEF Hears, Past, Arriving, Deafened
  <1>10. Waits("window", "start")' => ~life.cleared
    BY <1>1
  <1>. QED  BY <1>1, <1>3, <1>6, <1>7, <1>8, <1>9, <1>10, ShowKeeps DEF documents

-----------------------------------------------------------------------------
(* Start and Shutdown.                                                      *)

\* What a step keeps that is only about what runs and what is to be released.
LEMMA LifeKeeps ==
  ASSUME Inv, life' \in Life, Lives', life'.cleared = life.cleared, page # None => Up',
         store' \in Store, store'.file = store.file, files' = files, left' = left \/ \E kind \in Kind : Used(kind),
         UNCHANGED <<coord, rosters, app, calls, saves, status, events, page, crossed, onAir, foreign>>
  PROVE  Inv'
  <1>1. Types /\ Silent /\ Listening /\ Stages /\ Hears /\ Rosters
    BY DEF Inv
  <1>2. left' \in Left /\ \A k \in Kind : left'.each[k] <= Budget[k]
    BY UnusedRow
  <1>3. Types'
    BY <1>1, <1>2 DEF Types
  <1>4. Silent'
    BY <1>1 DEF Silent, Waits
  <1>5. Listening'
    BY <1>1 DEF Listening
  <1>6. Stages'
    BY <1>1 DEF Stages
  <1>7. Hears'
    BY <1>1 DEF Hears, Arriving, CoordinationEvent
  <1>8. Rosters'
    BY RostersStay
  <1>. QED  BY <1>3, <1>4, <1>5, <1>6, <1>7, <1>8 DEF Inv

LEMMA StartingKeeps ==
  ASSUME Inv, StartPlayer \/ ReadyDesktop
  PROVE  Inv'
  <1>1. /\ life \in Life /\ Lives /\ life.phase \in {"constructed", "desktop-loading"} /\ page = None /\ store \in Store
        /\ UNCHANGED <<coord, rosters, documents, app, calls, saves, status, events, page, crossed, onAir, foreign>>
    BY DEF StartPlayer, ReadyDesktop, Inv, Types, Listening, Up
  <1>2. left' = left \/ \E kind \in Kind : Used(kind)
    BY DEF StartPlayer, ReadyDesktop, Kind
  <1>3. /\ life' \in Life /\ life'.cleared = life.cleared /\ Lives'
    <2>1. CASE life' = Failing
      BY <1>1, <2>1, DesktopAssumption DEF Failing, Life, Lives, Phases, Step, Ended, Tried
    <2>2. CASE life' = [life EXCEPT !.held = @ \cup {"player"}, !.phase = "desktop-loading"]
      <3>. DEFINE held == life.held \cup {"player"}
      <3>1. held \in SUBSET Resource
        BY <1>1 DEF Life, Resource
      <3>2. life' = [life EXCEPT !.held = held, !.phase = "desktop-loading"]
        BY <2>2
      <3>. HIDE DEF held
      <3>. QED  BY <1>1, <3>1, <3>2, DesktopAssumption DEF Life, Lives, Phases, Step, Ended, Tried
    <2>3. CASE life' = [life EXCEPT !.held = @ \cup {"desktop"}, !.phase = "ready-local"]
      <3>. DEFINE held == life.held \cup {"desktop"}
      <3>1. held \in SUBSET Resource
        BY <1>1 DEF Life, Resource
      <3>2. life' = [life EXCEPT !.held = held, !.phase = "ready-local"]
        BY <2>3
      <3>. HIDE DEF held
      <3>. QED  BY <1>1, <3>1, <3>2, DesktopAssumption DEF Life, Lives, Phases, Step, Ended, Tried
    <2>. QED  BY <2>1, <2>2, <2>3 DEF StartPlayer, ReadyDesktop
  <1>. QED  BY <1>1, <1>2, <1>3, LifeKeeps DEF documents

LEMMA ReleaseKeeps ==
  ASSUME Inv, NEW r \in Resource, Release(r)
  PROVE  Inv'
  <1>1. /\ life \in Life /\ Lives /\ life.at = r /\ store \in Store
        /\ store' = (IF r = "sessions" /\ r \in life.held THEN [store EXCEPT !.closed = TRUE] ELSE store)
        /\ UNCHANGED <<coord, rosters, files, app, calls, saves, status, events, page, crossed, onAir, foreign>>
    BY DEF Release, Inv, Types
  <1>2. left' = left \/ \E kind \in Kind : Used(kind)
    BY DEF Release, Fails, Kind
  <1>3. store' \in Store /\ store'.file = store.file
    <2>1. [store EXCEPT !.closed = TRUE] \in Store /\ [store EXCEPT !.closed = TRUE].file = store.file
      BY <1>1 DEF Store
    <2>. QED  BY <1>1, <2>1
  <1>4. r # None /\ life.phase = "stopping" /\ life.held \cap Tried(r) \subseteq life.failed
    BY <1>1, DesktopAssumption DEF Lives, Life, Step, Resource
  <1>5. page = None
    BY <1>4 DEF Inv, Listening, Up
  <1>6. /\ life' \in Life /\ life'.cleared = life.cleared /\ life'.phase = "stopping" /\ life'.stopped = life.stopped
        /\ life'.at = After(r) /\ life'.held \subseteq life.held /\ life.failed \subseteq life'.failed
        /\ (r \in life'.held => r \in life'.failed)
    <2>1. After(r) \in Step /\ life.held \ {r} \in SUBSET Resource /\ life.failed \cup {r} \in SUBSET Resource
      BY <1>1 DEF After, Step, Life
    <2>. DEFINE next == After(r)
                held == life.held \ {r}
                failed == life.failed \cup {r}
                broken == life.broken \/ r = "player"
    <2>2. next \in Step \cup {None} /\ held \in SUBSET Resource /\ failed \in SUBSET Resource /\ broken \in BOOLEAN
      BY <1>1, <2>1 DEF Life
    <2>3. \/ r \notin life.held /\ life' = [life EXCEPT !.at = next]
          \/ r \in life.held /\ life' = [life EXCEPT !.at = next, !.held = held]
          \/ r \in life.held /\ life' = [[life EXCEPT !.at = next, !.failed = failed] EXCEPT !.broken = broken]
      BY DEF Release, Missed
    <2>4. r \notin held /\ held \subseteq life.held /\ r \in failed /\ life.failed \subseteq failed
      OBVIOUS
    <2>. HIDE DEF next, held, failed, broken
    <2>5. life' \in Life
      BY <1>1, <2>2, <2>3 DEF Life
    <2>6. /\ life'.cleared = life.cleared /\ life'.phase = life.phase /\ life'.stopped = life.stopped
          /\ life'.at = next /\ life'.held \subseteq life.held /\ life.failed \subseteq life'.failed
          /\ (r \in life'.held => r \in life'.failed)
      BY <1>1, <2>2, <2>3, <2>4 DEF Life
    <2>. QED  BY <1>4, <2>5, <2>6 DEF next
  <1>7. Lives'
    <2>1. After(r) # None
      BY DesktopAssumption DEF After, Step, Resource
    <2>2. Tried(After(r)) \subseteq Tried(r) \cup {r}
      BY DEF After, Tried, Resource
    <2>. QED  BY <1>1, <1>4, <1>6, <2>1, <2>2 DEF Lives, Ended
  <1>. QED  BY <1>1, <1>2, <1>3, <1>5, <1>6, <1>7, LifeKeeps

LEMMA FinishReleaseKeeps ==
  ASSUME Inv, FinishRelease
  PROVE  Inv'
  <1>. DEFINE stopped == life.stopped \/ life.held = {}
              phase == IF life.preserve THEN "failed" ELSE IF life.held = {} THEN "stopped" ELSE "stop-failed"
  <1>1. /\ life \in Life /\ Lives /\ life.at = "end" /\ store \in Store
        /\ life' = [life EXCEPT !.at = None, !.stopped = stopped, !.phase = phase]
        /\ UNCHANGED <<coord, rosters, documents, app, calls, saves, status, events, page, histories>>
    BY DEF FinishRelease, Inv, Types
  <1>2. life.phase = "stopping" /\ ~life.stopped /\ life.held \subseteq life.failed
    BY <1>1, DesktopAssumption DEF Lives, Tried, Life, Ended, Step
  <1>3. page = None
    BY <1>2 DEF Inv, Listening, Up
  <1>4. stopped \in BOOLEAN /\ (stopped <=> life.held = {}) /\ phase \in Ended /\ phase \in Phases /\ phase # "stopping"
    BY <1>2 DEF Ended, Phases
  <1>. HIDE DEF stopped, phase
  <1>5. /\ life' \in Life /\ life'.at = None /\ life'.stopped = stopped /\ life'.phase = phase
        /\ life'.held = life.held /\ life'.failed = life.failed /\ life'.cleared = life.cleared
    BY <1>1, <1>4 DEF Life
  <1>6. Lives'
    BY <1>2, <1>4, <1>5 DEF Lives, Ended
  <1>. QED  BY <1>1, <1>3, <1>5, <1>6, LifeKeeps DEF documents, histories

LEMMA ClearProcessKeeps ==
  ASSUME Inv, ClearProcess
  PROVE  Inv'
  <1>1. /\ Types /\ Lives /\ Listening /\ Stages /\ Rosters /\ life.at = "process"
        /\ life' = [life EXCEPT !.at = "player", !.cleared = TRUE] /\ coord' = Fresh /\ app' = [app EXCEPT !.state = None]
        /\ UNCHANGED <<rosters, documents, calls, saves, status, events, page, histories>>
    BY DEF ClearProcess, Inv
  <1>2. /\ life \in Life /\ life.phase = "stopping" /\ life.held \cap {"access"} \subseteq life.failed
    BY <1>1, DesktopAssumption DEF Types, Lives, Tried, Step
  <1>3. /\ life' \in Life /\ life'.at = "player" /\ life'.phase = "stopping" /\ life'.cleared
        /\ life'.held = life.held /\ life'.failed = life.failed /\ life'.stopped = life.stopped
    BY <1>1, <1>2 DEF Life, Step
  <1>4. page = None
    BY <1>1, <1>2 DEF Listening, Up
  <1>5. coord' \in State /\ ~coord'.onAir /\ coord'.config = None
    BY <1>1 DEF Fresh, State
  <1>6. app' \in Memory
    BY <1>1 DEF Types, Memory
  <1>7. Types'
    BY <1>1, <1>3, <1>5, <1>6 DEF Types, documents, histories
  <1>8. Lives'
    BY <1>1, <1>2, <1>3, DesktopAssumption DEF Lives, Tried, Ended, Step
  <1>9. Silent'
    BY <1>5 DEF Silent
  <1>10. Listening'
    BY <1>1, <1>4 DEF Listening
  <1>11. Stages'
    BY <1>1 DEF Stages
  <1>12. Hears'
    BY <1>3 DEF Hears
  <1>13. Rosters'
    BY <1>1, <1>5 DEF Rosters, AsWritten, documents, histories
  <1>. QED  BY <1>7, <1>8, <1>9, <1>10, <1>11, <1>12, <1>13 DEF Inv

LEMMA ShutdownKeeps ==
  ASSUME Inv, Shutdown
  PROVE  Inv'
  <1>1. /\ Types /\ Lives /\ Silent /\ Stages /\ Hears /\ life.phase # "stopping" /\ ~life.stopped /\ Used("shutdown")
        /\ life' = [life EXCEPT !.phase = "stopping", !.at = "access", !.preserve = FALSE, !.failed = {}]
        /\ page' = None /\ status' = None /\ events' = {} /\ saves' = Forgotten
        /\ calls' = [calls EXCEPT !["window"] = Deaf(@)]
        /\ UNCHANGED <<coord, rosters, documents, app, crossed, onAir, foreign>>
    BY DEF Shutdown, Inv
  <1>2. left' \in Left /\ \A k \in Kind : left'.each[k] <= Budget[k]
    BY <1>1, UnusedRow DEF Kind
  <1>3. /\ saves' \subseteq SaveCall /\ (\A s \in saves' : ~s.live /\ s.stage # "kept")
        /\ calls' \in [Caller -> CommandCall \cup {None}] /\ calls'["desktop"] = calls["desktop"]
        /\ \/ calls'["window"] = None /\ ~Exchanging
           \/ /\ calls'["window"] # None /\ calls'["window"].to = "nobody" /\ Deafened
              /\ Sound(calls'["window"]) /\ calls'["window"].state = calls["window"].state
    BY <1>1, ForgottenRow
  <1>4. /\ life' \in Life /\ life'.at = "access" /\ life'.phase = "stopping" /\ life'.cleared = life.cleared
        /\ life'.stopped = life.stopped
    BY <1>1 DEF Types, Life, Phases, Step
  <1>5. Types'
    BY <1>1, <1>2, <1>3, <1>4 DEF Types, documents
  <1>6. Lives'
    BY <1>1, <1>4, DesktopAssumption DEF Lives, Tried, Ended, Step
  <1>7. Silent'
    BY <1>1, <1>3, <1>4 DEF Silent, Waits, Deafened
  <1>8. Listening'
    BY <1>1, <1>3 DEF Listening
  <1>9. Stages'
    BY <1>1, <1>3, Callers DEF Stages
  <1>10. Hears'
    BY <1>1, <1>3, <1>4, Callers DEF Hears, Deafened
  <1>11. Rosters'
    BY <1>1, <1>3, RostersStay DEF documents
  <1>. QED  BY <1>5, <1>6, <1>7, <1>8, <1>9, <1>10, <1>11 DEF Inv

-----------------------------------------------------------------------------
(* The invariant.                                                           *)

LEMMA InvInit == Init => Inv
  <1>. SUFFICES ASSUME Init  PROVE Inv
    OBVIOUS
  <1>1. Fresh \in State /\ Fresh.config = None /\ Fresh.onAir = FALSE
    BY DEF Fresh, State
  <1>2. \A f \in File : files[f] \in Document
    BY DesktopAssumption DEF Init, Starter, Document
  <1>3. life \in Life /\ Lives
    BY DesktopAssumption DEF Init, Life, Lives, Phases, Step, Resource, Ended, Tried
  <1>4. Types
    <2>1. store \in Store /\ app \in Memory /\ left \in Left /\ \A kind \in Kind : left.each[kind] <= Budget[kind]
      BY <1>1, DesktopAssumption DEF Init, Store, Memory, Left
    <2>2. files \in [File -> Document] /\ rosters \in [Config -> Nat] /\ calls \in [Caller -> CommandCall \cup {None}]
      BY <1>2 DEF Init
    <2>. QED  BY <1>1, <1>3, <2>1, <2>2 DEF Init, Types
  <1>5. \A c \in Caller : calls[c] = None
    BY DEF Init
  <1>6. Silent
    BY <1>1, <1>5, Callers DEF Init, Silent, Waits
  <1>7. Listening /\ Stages
    BY <1>5, Callers DEF Init, Listening, Stages
  <1>8. Hears
    BY <1>5 DEF Init, Hears
  <1>9. Rosters
    BY <1>1, <1>5, Callers DEF Init, Rosters
  <1>. QED  BY <1>3, <1>4, <1>6, <1>7, <1>8, <1>9 DEF Inv

LEMMA WorkingServes ==
  ASSUME Inv, Working
  PROVE  Types' /\ Serves /\ Rosters'
  <1>1. CASE \/ \E f \in File, new \in BOOLEAN : OpenFile(f, new)
             \/ OpenNothing \/ FinishOpen \/ StartLoad
             \/ \E config \in Config, new \in BOOLEAN : ChooseConfig(config, new)
             \/ Associate \/ Install \/ ChangeRoster
             \/ \E config \in Config : EditConfigFile(config)
    BY <1>1, OpenFileServes, OpenNothingServes, FinishOpenServes, StartLoadServes, ChooseConfigServes, AssociateServes,
       InstallServes, ChangeRosterServes, EditConfigFileServes
  <1>2. CASE StartBroadcast \/ EndBroadcast \/ SessionCommand \/ TerminalCommand \/ TerminalRefused \/ Publish \/ PlayersChange
    BY <1>2, BroadcastServes, CommandServes, PublishServes, PlayersChangeServes DEF SessionCommand, TerminalCommand
  <1>3. CASE ResetCommandState \/ (\E c \in Caller : Resolve(c) \/ FinishMutation(c)) \/ ReplaceTerminalGroups \/ FinishGroups
    BY <1>3, ResetServes, ResolveServes, FinishMutationServes, ReplaceTerminalGroupsServes, FinishGroupsServes
  <1>. QED  BY <1>1, <1>2, <1>3 DEF Working

LEMMA InvStep == Inv /\ [Next]_vars => Inv'
  <1>. SUFFICES ASSUME Inv, [Next]_vars  PROVE Inv'
    OBVIOUS
  <1>1. ASSUME Types', Serves, Rosters'  PROVE Inv'
    BY <1>1, ServesKeeps DEF Inv
  <1>2. CASE Lifecycle
    BY <1>2, StartingKeeps, ShutdownKeeps, ReleaseKeeps, ClearProcessKeeps, FinishReleaseKeeps DEF Lifecycle
  <1>3. CASE Asking
    BY <1>3, AskingKeeps
  <1>4. CASE Working
    BY <1>1, <1>4, WorkingServes
  <1>5. CASE Saving
    BY <1>1, <1>5, EditKeeps, NumberSaveServes, KeepSaveServes, AnswerSaveKeeps DEF Saving
  <1>6. CASE Showing
    BY <1>6, LoadPageKeeps, ReadingKeeps, TakeStatusKeeps, TakeCoordinationKeeps, TakeSessionKeeps, TakeOpenedKeeps,
       TakeAnswerKeeps DEF Showing
  <1>7. CASE UNCHANGED vars
    <2>1. left' = left /\ life' = life
      BY <1>7 DEF vars, histories
    <2>2. life \in Life /\ Lives /\ store \in Store /\ (page # None => Up)
      BY DEF Inv, Types, Listening
    <2>3. Lives'
      BY <2>1, <2>2 DEF Lives
    <2>4. Up' <=> Up
      BY <2>1 DEF Up
    <2>. QED  BY <1>7, <2>1, <2>2, <2>3, <2>4, LifeKeeps DEF vars, documents, histories
  <1>. QED  BY <1>2, <1>3, <1>4, <1>5, <1>6, <1>7 DEF Next

(* The calls, what is on its way to the page, and what the page shows are   *)
(* what app.go and its window can hold.                                     *)
THEOREM TypesAlways == Spec => []Types
  <1>1. Inv => Types
    BY DEF Inv
  <1>. QED  BY <1>1, InvInit, InvStep, PTL DEF Spec

(* publishCoordinationState: whatever order the publications of commands,   *)
(* players and notifications come in, App's copy is the coordinator's        *)
(* newest state, and a page that everything sent to it has reached shows it. *)
THEOREM StateAlwaysCurrent == Spec => []StateIsCurrent
  <1>1. Inv => StateIsCurrent
    <2>. SUFFICES ASSUME Inv  PROVE StateIsCurrent
      OBVIOUS
    <2>1. ~life.cleared => app.state = coord
      BY DEF Inv, Hears
    <2>2. Quiet => page.coordination = coord
      <3>1. Up => ~life.cleared
        BY UpClear
      <3>. QED  BY <3>1 DEF Quiet, Inv, Hears, Arriving
    <2>. QED  BY <2>1, <2>2 DEF StateIsCurrent
  <1>. QED  BY <1>1, InvInit, InvStep, PTL DEF Spec

(* installPlayerConfig and runSessionCommand: while no command is half way, *)
(* the roster installed is that of the config the open document names, as   *)
(* its file has it.                                                         *)
THEOREM RosterAlwaysOfOpenDocument == Spec => []RosterOfOpenDocument
  <1>1. Inv => RosterOfOpenDocument
    <2>. SUFFICES ASSUME Inv, LineFree, coord.config # None  PROVE RosterOfOpenDocument
      BY DEF RosterOfOpenDocument
    <2>1. ~Exchanging
      <3>1. ~HoldsLine(calls["window"])
        BY Callers DEF LineFree
      <3>. QED  BY <3>1 DEF HoldsLine, OnLine, Exchanging
    <2>. QED  BY <2>1 DEF Inv, Rosters, AsWritten, RosterOfOpenDocument
  <1>. QED  BY <1>1, InvInit, InvStep, PTL DEF Spec

(* shutdownLocked: every attempt to stop reaches every resource, whatever   *)
(* fails in it, and no broadcast runs once the coordinator was cleared.     *)
THEOREM ReleasesAlwaysTried == Spec => []ReleasesAreTried
  <1>1. Inv => ReleasesAreTried
    BY DEF Inv, Lives, Silent, Ended, ReleasesAreTried
  <1>. QED  BY <1>1, InvInit, InvStep, PTL DEF Spec

-----------------------------------------------------------------------------
(* The documents.                                                           *)

\* The page shows a file; the text of the last edit that was made anywhere.
Shown == page # None /\ page.file # None
LastText == Budget["edit"] - left.each["edit"]

\* The texts the page has sent and the store has not taken.
Typing == {s.doc.text : s \in {t \in saves : t.live /\ t.stage # "kept"}}

\* The command of the window is opening a file, has opened one, has named a config in the open one.
Loading(call) == call # None /\ call.kind = "open" /\ call.stage = "working"
Opening(call) == call # None /\ call.kind = "open" /\ (call.stage = "working" \/ call.ok)
Choosing(call) == call # None /\ call.kind = "choose" /\ call.doc # None

\* The page is going to be told of the canonical part of the open document.
Canon == files[store.file].canon
SessionEvents == {event \in events : event.kind = "session"}
Announced ==
  \/ \E c \in Caller : calls[c] # None /\ calls[c].event # None /\ calls[c].event.doc.canon = Canon
  \/ \E event \in SessionEvents : event.epoch = store.epoch /\ event.doc.canon = Canon

\* At which stage a call has a document.
Brings(call) ==
  call.doc # None => /\ call.stage # "asked" /\ (call.stage = "working" => call.kind = "open")
                     /\ call.kind = "choose" => call.stage = "associated" \/ call.ok

\* What the page shows, and what the window opens, is the open file.
Open ==
  /\ Shown => page.file = store.file /\ page.epoch = store.epoch
  /\ store.closed => life.phase \in Ended \cup {"stopping"}
  /\ calls["window"] # None /\ (calls["window"].kind = "open" \/ calls["window"].to = "nobody") => ~Shown
  /\ Opening(calls["window"]) => calls["window"].file = store.file /\ calls["window"].epoch = store.epoch
  /\ Typing # {} => Shown
  /\ \A c \in Caller : calls[c] # None => Brings(calls[c])

\* An event that publishSessionState will not drop.
Pending(event) ==
  /\ event.epoch = store.epoch /\ event.doc.canon <= Canon
  /\ app.published < event.revision /\ event.revision <= store.revision

\* What is said of the open document is not ahead of it, and comes one event after the other.
News ==
  /\ \A event \in SessionEvents :
       event.epoch <= store.epoch /\ (event.epoch = store.epoch => event.doc.canon <= Canon)
  /\ Loading(calls["window"]) \/ app.published <= store.revision
  /\ \A c \in Caller : calls[c] # None /\ calls[c].event # None => Pending(calls[c].event)
  /\ calls["window"] = None \/ calls["desktop"] = None
       \/ calls["window"].event = None \/ calls["desktop"].event = None
  /\ calls["window"] # None /\ calls["window"].doc # None /\ calls["window"].kind # "open" =>
       calls["window"].doc.canon <= Canon

\* A document is that of the open file, but for a canonical part the page will be told of.
Follows(doc) ==
  /\ doc.canon <= Canon
  /\ doc.canon = Canon \/ Announced

\* Unless an edit and another change overtook each other, what differs between the page and the file
\* is on its way: a text in a save, a config in the answer of the command, a canonical part in an event.
Agreement ==
  ~crossed =>
    /\ \A f \in File : files[f].text <= LastText
    /\ Opening(calls["window"]) /\ calls["window"].to = "page" =>
         LET doc == calls["window"].doc IN
         doc.text = files[store.file].text /\ doc.config = files[store.file].config /\ Follows(doc)
    /\ Choosing(calls["window"]) => calls["window"].doc.config = files[store.file].config
    /\ Shown =>
         /\ page.doc.text <= LastText /\ (\A text \in Typing : text <= page.doc.text)
         /\ page.doc.text = files[store.file].text \/ page.doc.text \in Typing
         /\ page.doc.config = files[store.file].config \/ Choosing(calls["window"])
         /\ Follows(page.doc)

Documents == Open /\ News /\ Agreement

-----------------------------------------------------------------------------
(* Steps that leave the documents alone.                                    *)

\* A call with which nothing of a document is under way.
Plain(call) ==
  call # None => /\ call.event = None /\ ~Loading(call)
                 /\ Choosing(call) => call.to = "nobody"
Bare(call) == call # None => call.event = None /\ call.doc = None /\ ~Opening(call)

\* A call goes on with the document and the event it has, is answered with the open document, or
\* is one without any.
Continues(c) ==
  LET old == calls[c]
      new == calls'[c] IN
  \/ new = old
  \/ /\ Plain(old) /\ Bare(new)
     /\ c = "window" /\ new # None /\ (new.kind = "open" \/ new.to = "nobody") => ~Shown
  \/ /\ old # None /\ new # None
     /\ new.kind = old.kind /\ new.to = old.to /\ new.file = old.file /\ new.epoch = old.epoch /\ new.event = old.event
     /\ (Opening(new) <=> Opening(old)) /\ (Loading(new) <=> Loading(old)) /\ Brings(new)
     /\ \/ new.doc = old.doc
        \/ new.kind \notin {"open", "choose"} /\ new.doc # None /\ new.doc.canon = Canon

Calm ==
  /\ files' = files /\ store'.file = store.file /\ store'.epoch = store.epoch /\ store'.revision = store.revision
  /\ store'.closed => life'.phase \in Ended \cup {"stopping"}
  /\ (crossed => crossed') /\ app'.published = app.published /\ SessionEvents' = SessionEvents
  /\ (Shown' <=> Shown) /\ (Shown => page'.file = page.file /\ page'.epoch = page.epoch /\ page'.doc = page.doc)
  /\ Typing' = Typing /\ LastText <= LastText'
  /\ \A c \in Caller : Continues(c)

LEMMA TextsInNat ==
  ASSUME Types
  PROVE  /\ LastText \in Nat /\ Typing \subseteq Nat /\ \A f \in File : files[f] \in Document
         /\ \A event \in SessionEvents : event \in SessionNews
         /\ \A doc \in Document : doc.text \in Nat /\ doc.canon \in Nat
  <1>1. LastText \in Nat
    <2>1. "edit" \in Kind /\ Budget \in [Kind -> Nat]
      BY DesktopAssumption DEF Kind
    <2>2. Budget["edit"] \in Nat /\ left.each["edit"] \in Nat /\ left.each["edit"] <= Budget["edit"]
      BY <2>1 DEF Types, Left
    <2>. QED  BY <2>2 DEF LastText
  <1>2. \A doc \in Document : doc.text \in Nat /\ doc.canon \in Nat
    BY DEF Document
  <1>3. Typing \subseteq Nat
    <2>1. \A s \in saves : s.doc.text \in Nat
      BY <1>2 DEF Types, SaveCall
    <2>. QED  BY <2>1 DEF Typing
  <1>4. \A event \in SessionEvents : event \in SessionNews
    BY DEF SessionEvents, Types, CoordinationNews
  <1>. QED  BY <1>1, <1>2, <1>3, <1>4 DEF Types

LEMMA LastInNat ==
  ASSUME Types'
  PROVE  LastText' \in Nat
  <1>1. "edit" \in Kind /\ Budget \in [Kind -> Nat]
    BY DesktopAssumption DEF Kind
  <1>2. Budget["edit"] \in Nat /\ left'.each["edit"] \in Nat /\ left'.each["edit"] <= Budget["edit"]
    BY <1>1 DEF Types, Left
  <1>. QED  BY <1>2 DEF LastText

LEMMA CalmKeeps ==
  ASSUME Inv, Inv', Documents, Calm
  PROVE  Documents'
  <1>1. Open /\ News /\ Agreement /\ Types /\ Types'
    BY DEF Documents, Inv
  <1>2. Canon' = Canon /\ files'[store'.file] = files[store.file]
    BY DEF Calm, Canon
  <1>3. ASSUME NEW c \in Caller  PROVE
          /\ calls'[c] # None /\ calls'[c].event # None => calls[c] # None /\ calls[c].event = calls'[c].event
          /\ calls[c] # None /\ calls[c].event # None => calls'[c] # None /\ calls[c].event = calls'[c].event
          /\ calls[c] # None => Brings(calls[c])
          /\ Continues(c)
    <2>1. Continues(c)
      BY DEF Calm
    <2>2. calls[c] # None => Brings(calls[c])
      BY <1>1 DEF Open
    <2>. QED  BY <2>1, <2>2 DEF Continues, Plain, Bare
  <1>4. ASSUME NEW c \in Caller, calls'[c] # None  PROVE Brings(calls'[c])
    <2>1. calls[c] # None => Brings(calls[c])
      BY <1>3
    <2>. QED  BY <1>3, <1>4, <2>1 DEF Continues, Bare, Brings
  <1>. DEFINE old == calls["window"]
              new == calls'["window"]
  <1>5. /\ new # None /\ (new.kind = "open" \/ new.to = "nobody") => ~Shown
        /\ Opening(new) => Opening(old) /\ new.file = old.file /\ new.epoch = old.epoch /\ new.doc = old.doc
                           /\ (new.to = "page" <=> old.to = "page")
        /\ Loading(old) => Loading(new)
        /\ Choosing(new) => Choosing(old) /\ new.doc = old.doc
        /\ Choosing(old) => Choosing(new) \/ ~Shown
        /\ new # None /\ new.doc # None /\ new.kind # "open" =>
             new.doc.canon = Canon \/ (old # None /\ old.doc # None /\ old.kind # "open" /\ new.doc = old.doc)
    <2>1. Continues("window")
      BY <1>3, Callers
    <2>2. old # None /\ (old.kind = "open" \/ old.to = "nobody") => ~Shown
      BY <1>1 DEF Open
    <2>3. CASE new = old
      BY <2>2, <2>3
    <2>4. CASE Plain(old) /\ Bare(new) /\ (new # None /\ (new.kind = "open" \/ new.to = "nobody") => ~Shown)
      <3>1. old # None => (Choosing(old) => ~Shown) /\ ~Loading(old)
        BY <2>2, <2>4 DEF Plain
      <3>2. ~Choosing(new) /\ ~Opening(new) /\ (new # None => new.doc = None)
        BY <2>4 DEF Bare, Choosing, Opening
      <3>3. Loading(old) => old # None
        BY DEF Loading
      <3>4. Choosing(old) => old # None
        BY DEF Choosing
      <3>. QED  BY <2>4, <3>1, <3>2, <3>3, <3>4
    <2>5. CASE /\ old # None /\ new # None
               /\ new.kind = old.kind /\ new.to = old.to /\ new.file = old.file /\ new.epoch = old.epoch /\ new.event = old.event
               /\ (Opening(new) <=> Opening(old)) /\ (Loading(new) <=> Loading(old)) /\ Brings(new)
               /\ \/ new.doc = old.doc
                  \/ new.kind \notin {"open", "choose"} /\ new.doc # None /\ new.doc.canon = Canon
      <3>1. Opening(new) => new.kind = "open"
        BY DEF Opening
      <3>2. (Choosing(new) <=> new.kind = "choose" /\ new.doc # None) /\ (Choosing(old) <=> old.kind = "choose" /\ old.doc # None)
        BY <2>5 DEF Choosing
      <3>. QED  BY <2>2, <2>5, <3>1, <3>2
    <2>. QED  BY <2>1, <2>3, <2>4, <2>5 DEF Continues
  <1>. HIDE DEF old, new
  <1>6. Announced' <=> Announced
    <2>1. (\E c \in Caller : calls'[c] # None /\ calls'[c].event # None /\ calls'[c].event.doc.canon = Canon)
          <=> (\E c \in Caller : calls[c] # None /\ calls[c].event # None /\ calls[c].event.doc.canon = Canon)
      BY <1>3
    <2>. QED  BY <1>2, <2>1 DEF Announced, Calm
  <1>7. Open'
    <2>1. Opening(new) => new.file = store.file /\ new.epoch = store.epoch
      BY <1>1, <1>5 DEF Open, old
    <2>. QED  BY <1>1, <1>4, <1>5, <2>1 DEF Open, Calm, new
  <1>8. News'
    <2>1. \A event \in SessionEvents' :
            event.epoch <= store'.epoch /\ (event.epoch = store'.epoch => event.doc.canon <= Canon')
      BY <1>1, <1>2 DEF News, Calm
    <2>2. Loading(new) \/ app'.published <= store'.revision
      BY <1>1, <1>5 DEF News, Calm, old
    <2>3. \A c \in Caller : calls'[c] # None /\ calls'[c].event # None =>
            /\ calls'[c].event.epoch = store'.epoch /\ calls'[c].event.doc.canon <= Canon'
            /\ app'.published < calls'[c].event.revision /\ calls'[c].event.revision <= store'.revision
      <3>1. \A c \in Caller : calls'[c] # None /\ calls'[c].event # None => Pending(calls'[c].event)
        BY <1>1, <1>3 DEF News
      <3>. QED  BY <1>2, <3>1 DEF Pending, Calm
    <2>4. calls'["window"] = None \/ calls'["desktop"] = None
          \/ calls'["window"].event = None \/ calls'["desktop"].event = None
      BY <1>1, <1>3, Callers DEF News
    <2>5. new # None /\ new.doc # None /\ new.kind # "open" => new.doc.canon <= Canon
      <3>1. files[store.file].canon <= files[store.file].canon \/ new = None \/ new.doc = None \/ new.doc.canon # Canon
        <4>1. new # None /\ new.doc # None => new.doc \in Document
          BY <1>1, Callers DEF Types, CommandCall, new
        <4>. QED  BY <4>1 DEF Document, Canon
      <3>. QED  BY <1>1, <1>5, <3>1 DEF News, old, Canon
    <2>. QED  BY <1>2, <2>1, <2>2, <2>3, <2>4, <2>5 DEF News, Pending, new
  <1>9. Agreement'
    <2>. SUFFICES ASSUME ~crossed'  PROVE Agreement'
      BY DEF Agreement
    <2>1. ~crossed
      BY DEF Calm
    <2>2. /\ LastText \in Nat /\ LastText' \in Nat /\ LastText <= LastText' /\ Typing' = Typing
          /\ (\A f \in File : files[f].text \in Nat) /\ files' = files
      BY <1>1, TextsInNat, LastInNat DEF Calm
    <2>3. \A f \in File : files'[f].text <= LastText'
      BY <1>1, <2>1, <2>2 DEF Agreement
    <2>4. ASSUME Opening(new), new.to = "page"  PROVE
            new.doc.text = files[store.file].text /\ new.doc.config = files[store.file].config /\ Follows(new.doc)
      BY <1>1, <1>5, <2>1, <2>4 DEF Agreement, old
    <2>5. Choosing(new) => new.doc.config = files[store.file].config
      BY <1>1, <1>5, <2>1 DEF Agreement, old
    <2>6. ASSUME Shown  PROVE
            /\ page.doc.text <= LastText' /\ (\A text \in Typing : text <= page.doc.text)
            /\ page.doc.text = files[store.file].text \/ page.doc.text \in Typing
            /\ page.doc.config = files[store.file].config \/ Choosing(new)
            /\ Follows(page.doc)
      <3>1. page.doc.text \in Nat
        BY <1>1, <2>6, TextsInNat DEF Types, Page, Inv, Stages, Shown
      <3>. QED  BY <1>1, <1>5, <2>1, <2>2, <2>6, <3>1 DEF Agreement, old
    <2>. QED  BY <1>2, <1>6, <2>3, <2>4, <2>5, <2>6 DEF Agreement, Follows, Calm, new
  <1>. QED  BY <1>7, <1>8, <1>9 DEF Documents

-----------------------------------------------------------------------------
(* Such steps, of the calls first.                                          *)

\* The answer is published a second time first.
LEMMA CallPublishes ==
  ASSUME NEW call \in CommandCall, NEW state \in State
  PROVE  LET new == [call EXCEPT !.stage = "publishing", !.ok = TRUE, !.state = state] IN
         /\ new \in CommandCall
         /\ new.stage = "publishing" /\ new.ok = TRUE /\ new.state = state
         /\ new.kind = call.kind /\ new.to = call.to /\ new.file = call.file /\ new.epoch = call.epoch
         /\ new.doc = call.doc /\ new.event = call.event /\ new.revision = call.revision
  BY ZenonT(20) DEF CommandCall

\* A call that has not found a document has none.
Early(call) == call.stage = "asked" \/ (call.stage = "working" /\ call.kind # "open")

LEMMA EarlyIsBare ==
  ASSUME Inv, Documents, NEW c \in Caller, calls[c] # None, Early(calls[c])
  PROVE  /\ calls[c] \in CommandCall /\ calls[c].event = None /\ calls[c].doc = None
         /\ Plain(calls[c]) /\ Bare(calls[c]) /\ (calls[c].kind = "open" => ~calls[c].ok)
         /\ (calls[c].kind = "open" \/ calls[c].to = "nobody") /\ c = "window" => ~Shown
  <1>1. calls[c] \in CommandCall /\ Sound(calls[c]) /\ Brings(calls[c])
    BY CallFound DEF Documents, Open
  <1>2. calls[c].doc = None /\ calls[c].event = None
    BY <1>1 DEF Brings, Sound, Early
  <1>3. ~Opening(calls[c]) /\ ~Choosing(calls[c]) /\ ~Loading(calls[c]) /\ (calls[c].kind = "open" => ~calls[c].ok)
    BY <1>1, <1>2 DEF Opening, Choosing, Loading, Sound, Early
  <1>. QED  BY <1>1, <1>2, <1>3 DEF Plain, Bare, Documents, Open

\* Only one call moves.
LEMMA OneContinues ==
  ASSUME NEW c \in Caller, Continues(c), \A d \in Caller \ {c} : calls'[d] = calls[d]
  PROVE  \A d \in Caller : Continues(d)
  BY DEF Continues

LEMMA BareBecomes ==
  ASSUME Inv, Documents, NEW c \in Caller, calls[c] # None, Plain(calls[c]),
         NEW call \in CommandCall, Bare(call), call.kind = calls[c].kind, call.to = calls[c].to, Becomes(c, call)
  PROVE  \A d \in Caller : Continues(d)
  <1>1. calls'[c] = call /\ \A d \in Caller \ {c} : calls'[d] = calls[d]
    BY BecomesRow DEF Inv, Types
  <1>2. (call.kind = "open" \/ call.to = "nobody") /\ c = "window" => ~Shown
    BY DEF Documents, Open
  <1>3. Continues(c)
    BY <1>1, <1>2 DEF Continues
  <1>. QED  BY <1>1, <1>3, OneContinues

LEMMA BareAnswered ==
  ASSUME Inv, Documents, NEW c \in Caller, calls[c] # None, Plain(calls[c]),
         NEW call \in CommandCall, Bare(call), call.kind = calls[c].kind, call.to = calls[c].to, Answered(c, call),
         call.stage # "working"
  PROVE  \A d \in Caller : Continues(d)
  <1>. DEFINE new == calls'[c]
  <1>1. /\ \A d \in Caller \ {c} : calls'[d] = calls[d]
        /\ \/ new = None
           \/ /\ new.stage = "answered" /\ new.kind = call.kind /\ new.to = call.to
              /\ new.ok = call.ok /\ new.doc = call.doc /\ new.event = call.event
    BY AnsweredRow DEF Inv, Types
  <1>2. call # None
    BY DesktopAssumption
  <1>3. Bare(new)
    BY <1>1, <1>2 DEF Bare, Opening
  <1>4. (call.kind = "open" \/ call.to = "nobody") /\ c = "window" => ~Shown
    BY DEF Documents, Open
  <1>5. Continues(c)
    BY <1>1, <1>3, <1>4 DEF Continues
  <1>. QED  BY <1>1, <1>5, OneContinues

\* A call without a document ends with an answer.
LEMMA ToldContinues ==
  ASSUME Inv, Documents, NEW c \in Caller, calls[c] # None, Early(calls[c]),
         Refused(c) \/ Answered(c, [calls[c] EXCEPT !.state = coord])
  PROVE  \A d \in Caller : Continues(d)
  <1>1. /\ calls[c] \in CommandCall /\ calls[c].event = None /\ calls[c].doc = None
        /\ Plain(calls[c]) /\ (calls[c].kind = "open" => ~calls[c].ok)
    BY EarlyIsBare
  <1>2. app.state \in State \cup {None} /\ coord \in State \cup {None}
    BY DEF Inv, Types, Memory
  <1>3. PICK state \in State \cup {None} : Answered(c, [calls[c] EXCEPT !.state = state])
    BY <1>2 DEF Refused
  <1>. DEFINE call == [calls[c] EXCEPT !.state = state]
              new == calls'[c]
  <1>4. /\ call \in CommandCall /\ call.kind = calls[c].kind /\ call.to = calls[c].to
        /\ call.doc = None /\ call.event = None /\ call.ok = calls[c].ok
    BY <1>1, CallTold
  <1>5. Answered(c, call)
    BY <1>3
  <1>. HIDE DEF call
  <1>6. /\ \A d \in Caller \ {c} : calls'[d] = calls[d]
        /\ \/ new = None
           \/ /\ new.stage = "answered" /\ new.kind = call.kind /\ new.to = call.to
              /\ new.ok = call.ok /\ new.doc = call.doc /\ new.event = call.event
    BY <1>4, <1>5, AnsweredRow DEF Inv, Types
  <1>7. Bare(new)
    BY <1>1, <1>4, <1>6 DEF Bare, Opening
  <1>8. (call.kind = "open" \/ call.to = "nobody") /\ c = "window" => ~Shown
    BY <1>4 DEF Documents, Open
  <1>9. Continues(c)
    BY <1>1, <1>6, <1>7, <1>8 DEF Continues
  <1>. QED  BY <1>6, <1>9, OneContinues

\* It is committed and still to be published.
LEMMA PublishesContinue ==
  ASSUME Inv, Documents, NEW c \in Caller, calls[c] # None, Early(calls[c]), calls[c].kind # "open", coord' \in State,
         Becomes(c, [calls[c] EXCEPT !.stage = "publishing", !.ok = TRUE, !.state = coord'])
  PROVE  \A d \in Caller : Continues(d)
  <1>1. calls[c] \in CommandCall /\ calls[c].event = None /\ calls[c].doc = None /\ Plain(calls[c])
    BY EarlyIsBare
  <1>2. PICK state \in State : Becomes(c, [calls[c] EXCEPT !.stage = "publishing", !.ok = TRUE, !.state = state])
    OBVIOUS
  <1>. DEFINE call == [calls[c] EXCEPT !.stage = "publishing", !.ok = TRUE, !.state = state]
  <1>3. /\ call \in CommandCall /\ call.kind = calls[c].kind /\ call.to = calls[c].to
        /\ call.doc = None /\ call.event = None
    BY <1>1, CallPublishes
  <1>4. Becomes(c, call)
    BY <1>2
  <1>. HIDE DEF call
  <1>5. Bare(call)
    BY <1>3 DEF Bare, Opening
  <1>. QED  BY <1>1, <1>3, <1>4, <1>5, BareBecomes

LEMMA AllContinue ==
  ASSUME calls' = calls
  PROVE  \A c \in Caller : Continues(c)
  BY DEF Continues

\* What else happens in such a step.
LEMMA UsedText ==
  ASSUME Types, UNCHANGED left \/ \E kind \in Kind : Used(kind)
  PROVE  LastText <= LastText'
  <1>1. "edit" \in Kind /\ Budget \in [Kind -> Nat] /\ left.each \in [Kind -> Nat]
    BY DesktopAssumption DEF Kind, Types, Left
  <1>2. Budget["edit"] \in Nat /\ left.each["edit"] \in Nat
    BY <1>1
  <1>3. CASE UNCHANGED left
    BY <1>2, <1>3 DEF LastText
  <1>4. ASSUME NEW kind \in Kind, Used(kind)  PROVE LastText <= LastText'
    <2>1. left'.each = [left.each EXCEPT ![kind] = @ - 1] /\ left.each[kind] \in Nat
      BY <1>1, <1>4 DEF Used
    <2>2. left'.each["edit"] \in {left.each["edit"], left.each["edit"] - 1}
      BY <1>1, <2>1
    <2>. QED  BY <1>2, <2>2 DEF LastText
  <1>. QED  BY <1>3, <1>4

LEMMA RestsCalm ==
  ASSUME Inv, Documents, UNCHANGED <<life, documents, saves, page, crossed>>, app'.published = app.published,
         SessionEvents' = SessionEvents, UNCHANGED left \/ \E kind \in Kind : Used(kind),
         \A c \in Caller : Continues(c)
  PROVE  Calm
  <1>1. LastText <= LastText'
    BY UsedText DEF Inv
  <1>2. store.closed => life.phase \in Ended \cup {"stopping"}
    BY DEF Documents, Open
  <1>. QED  BY <1>1, <1>2 DEF Calm, documents, Shown, Typing

LEMMA SessionEventsStay ==
  ASSUME UNCHANGED events
  PROVE  SessionEvents' = SessionEvents
  BY DEF SessionEvents

\* A commit says nothing of a document.
LEMMA CommitCalm ==
  ASSUME NEW change, NEW a, Commit(change, a)
  PROVE  SessionEvents' = SessionEvents /\ (a.published = app.published /\ a \in Memory => app'.published = app.published)
  <1>1. events' \subseteq events \cup Emitted(a, Advanced(change)) /\ events \subseteq events'
    BY DEF Commit, Emit
  <1>2. \A event \in Emitted(a, Advanced(change)) : event.kind # "session"
    BY DEF Emitted, CoordinationEvent
  <1>3. a \in Memory => Published(a, Advanced(change)).published = a.published
    BY DEF Published, Memory
  <1>. QED  BY <1>1, <1>2, <1>3 DEF SessionEvents, Commit

-----------------------------------------------------------------------------
(* The actions that are such steps.                                         *)

LEMMA AsksCalm ==
  ASSUME Inv, Documents, NEW call, call.to = "page", call.doc = None, call.event = None, ~Opening(call),
         call.kind = "open" => ~Shown, calls["window"] = None, Becomes("window", call),
         UNCHANGED <<life, documents, app, saves, events, page, crossed>>, \E kind \in Kind : Used(kind)
  PROVE  Calm
  <1>1. calls'["window"] = call /\ \A d \in Caller \ {"window"} : calls'[d] = calls[d]
    BY Callers DEF Becomes, Inv, Types
  <1>2. Bare(call) /\ Plain(calls["window"])
    BY DEF Bare, Plain
  <1>3. Continues("window")
    BY <1>1, <1>2 DEF Continues
  <1>4. \A c \in Caller : Continues(c)
    BY <1>1, <1>3, OneContinues, Callers
  <1>. QED  BY <1>4, RestsCalm, SessionEventsStay

LEMMA AskingCalm ==
  ASSUME Inv, Documents, Inv', Asking
  PROVE  Calm
  <1>. DEFINE call == calls'["window"]
  <1>1. /\ calls["window"] = None /\ \E asked : Becomes("window", asked)
        /\ UNCHANGED <<life, documents, app, saves, events, page, crossed>> /\ \E kind \in Kind : Used(kind)
    BY DEF Asking, AskOpen, AskCommand, AskRoster, AskGroups, Asks, Kind
  <1>2. Becomes("window", call)
    BY <1>1, Callers DEF Becomes, Inv, Types
  <1>3. /\ call.to = "page" /\ call.doc = None /\ call.event = None /\ call.stage = "asked" /\ call.ok = FALSE
        /\ call.kind = "open" => ~Shown
    <2>1. \A asked : Asks(asked) => call = asked
      BY Callers DEF Asks, Becomes, Inv, Types
    <2>2. CASE AskOpen
      <3>1. call = Call("open", "asked") /\ ~Shown
        BY <2>1, <2>2 DEF AskOpen, Shown
      <3>. QED  BY <3>1 DEF Call
    <2>3. ASSUME NEW kind \in Kind, AskCommand(kind)  PROVE <1>3
      <3>1. call = Call(kind, "asked") /\ kind # "open"
        BY <2>1, <2>3 DEF AskCommand
      <3>. QED  BY <3>1 DEF Call
    <2>4. CASE AskRoster
      <3>1. call = [Call("roster", "asked") EXCEPT !.seen = SeenRevision]
        BY <2>1, <2>4 DEF AskRoster
      <3>. QED  BY <3>1 DEF Call
    <2>5. CASE AskGroups
      <3>1. call = [Call("groups", "asked") EXCEPT !.seen = SeenRevision, !.durable = page.durable]
        BY <2>1, <2>5 DEF AskGroups
      <3>. QED  BY <3>1 DEF Call
    <2>. QED  BY <2>2, <2>3, <2>4, <2>5 DEF Asking
  <1>. HIDE DEF call
  <1>4. ~Opening(call)
    BY <1>3 DEF Opening
  <1>. QED  BY <1>1, <1>2, <1>3, <1>4, AsksCalm

\* Refused, answered, or committed: what the commands without a document do.
LEMMA CommandCalm ==
  ASSUME Inv, Documents, Inv', calls["window"] # None, Early(calls["window"]),
         UNCHANGED <<life, documents, saves, page, crossed>>,
         UNCHANGED left \/ \E kind \in Kind : Used(kind),
         \/ /\ Refused("window") \/ Answered("window", [calls["window"] EXCEPT !.state = coord])
            /\ app'.published = app.published /\ UNCHANGED events
         \/ /\ \E change : Commit(change, app)
            /\ calls["window"].kind # "open"
            /\ Becomes("window", [calls["window"] EXCEPT !.stage = "publishing", !.ok = TRUE, !.state = coord'])
  PROVE  Calm
  <1>1. CASE /\ Refused("window") \/ Answered("window", [calls["window"] EXCEPT !.state = coord])
             /\ app'.published = app.published /\ UNCHANGED events
    <2>1. \A c \in Caller : Continues(c)
      BY <1>1, ToldContinues, Callers
    <2>. QED  BY <1>1, <2>1, RestsCalm, SessionEventsStay
  <1>2. CASE /\ \E change : Commit(change, app)
             /\ calls["window"].kind # "open"
             /\ Becomes("window", [calls["window"] EXCEPT !.stage = "publishing", !.ok = TRUE, !.state = coord'])
    <2>1. coord' \in State /\ app \in Memory
      BY DEF Inv, Types
    <2>2. \A c \in Caller : Continues(c)
      BY <1>2, <2>1, PublishesContinue, Callers
    <2>3. SessionEvents' = SessionEvents /\ app'.published = app.published
      BY <1>2, <2>1, CommitCalm
    <2>. QED  BY <2>2, <2>3, RestsCalm
  <1>. QED  BY <1>1, <1>2

LEMMA OpenNothingCalm ==
  ASSUME Inv, Documents, Inv', OpenNothing
  PROVE  Calm
  <1>1. /\ calls["window"] # None /\ Early(calls["window"]) /\ Refused("window")
        /\ UNCHANGED <<life, documents, saves, page, crossed, left, events>> /\ app' = Captured(app)
    BY DEF OpenNothing, Waits, Early, histories
  <1>2. app'.published = app.published
    BY <1>1 DEF Captured, Inv, Types, Memory
  <1>. QED  BY <1>1, <1>2, CommandCalm

LEMMA BroadcastCalm ==
  ASSUME Inv, Documents, Inv', StartBroadcast \/ EndBroadcast \/ ChangeRoster
  PROVE  Calm
  <1>1. calls["window"] # None /\ Early(calls["window"]) /\ calls["window"].kind # "open"
    BY DEF StartBroadcast, EndBroadcast, ChangeRoster, Waits, Early
  <1>2. UNCHANGED <<life, documents, saves, page, crossed, left>>
    BY DEF StartBroadcast, EndBroadcast, ChangeRoster, histories
  <1>3. \/ /\ Refused("window") \/ Answered("window", [calls["window"] EXCEPT !.state = coord])
           /\ app'.published = app.published /\ UNCHANGED events
        \/ /\ \E change : Commit(change, app)
           /\ Becomes("window", [calls["window"] EXCEPT !.stage = "publishing", !.ok = TRUE, !.state = coord'])
    <2>1. CASE StartBroadcast
      BY <2>1 DEF StartBroadcast
    <2>2. CASE EndBroadcast
      BY <2>2 DEF EndBroadcast
    <2>3. CASE ChangeRoster
      BY <2>3 DEF ChangeRoster
    <2>. QED  BY <2>1, <2>2, <2>3
  <1>. QED  BY <1>1, <1>2, <1>3, CommandCalm

LEMMA CommandsCalm ==
  ASSUME Inv, Documents, Inv', SessionCommand \/ TerminalCommand \/ TerminalRefused
  PROVE  Calm
  <1>1. ASSUME NEW kind \in {"session", "terminal"}, Command(kind)  PROVE Calm
    <2>1. calls["window"] # None /\ Early(calls["window"]) /\ calls["window"].kind # "open"
          /\ UNCHANGED <<life, documents, saves, page, crossed, left>>
      BY <1>1 DEF Command, Waits, Early, histories
    <2>2. \/ /\ Refused("window") \/ Answered("window", [calls["window"] EXCEPT !.state = coord])
             /\ app'.published = app.published /\ UNCHANGED events
          \/ /\ \E change : Commit(change, app)
             /\ Becomes("window", [calls["window"] EXCEPT !.stage = "publishing", !.ok = TRUE, !.state = coord'])
      BY <1>1 DEF Command
    <2>. QED  BY <2>1, <2>2, CommandCalm
  <1>2. CASE TerminalRefused
    <2>1. /\ calls["window"] # None /\ Early(calls["window"])
          /\ UNCHANGED <<life, documents, saves, page, crossed, left, events, app>>
          /\ Answered("window", [calls["window"] EXCEPT !.state = coord])
      BY <1>2 DEF TerminalRefused, Waits, Early, histories
    <2>. QED  BY <2>1, CommandCalm
  <1>. QED  BY <1>1, <1>2 DEF SessionCommand, TerminalCommand

LEMMA PlayersChangeCalm ==
  ASSUME Inv, Documents, PlayersChange
  PROVE  Calm
  <1>1. Commit(coord, app) /\ Used("player") /\ UNCHANGED <<life, documents, calls, saves, page, crossed>> /\ "player" \in Kind
    BY DEF PlayersChange, Kind
  <1>2. SessionEvents' = SessionEvents /\ app'.published = app.published
    BY <1>1, CommitCalm DEF Inv, Types
  <1>. QED  BY <1>1, <1>2, AllContinue, RestsCalm

LEMMA EditConfigFileCalm ==
  ASSUME Inv, Documents, NEW config \in Config, EditConfigFile(config)
  PROVE  Calm
  <1>1. Used("foreign") /\ UNCHANGED <<life, documents, app, calls, saves, events, page, crossed>> /\ "foreign" \in Kind
    BY DEF EditConfigFile, Kind
  <1>. QED  BY <1>1, SessionEventsStay, AllContinue, RestsCalm

\* A config was read, and is to be installed.
LEMMA CallReads ==
  ASSUME NEW call \in CommandCall, NEW config \in Config, NEW content \in Nat
  PROVE  LET new == [call EXCEPT !.stage = "working", !.config = config, !.content = content] IN
         /\ new \in CommandCall
         /\ new.stage = "working" /\ new.kind = call.kind /\ new.to = call.to
         /\ new.doc = call.doc /\ new.event = call.event
  BY ZenonT(20) DEF CommandCall

LEMMA ReadsCalm ==
  ASSUME Inv, Documents, calls["window"] # None, Early(calls["window"]), calls["window"].kind # "open",
         UNCHANGED <<life, documents, app, saves, events, page, crossed, left>>,
         NEW config \in Config, NEW content \in Nat,
         Becomes("window", [calls["window"] EXCEPT !.stage = "working", !.config = config, !.content = content])
  PROVE  Calm
  <1>. DEFINE w == calls["window"]
              call == [w EXCEPT !.stage = "working", !.config = config, !.content = content]
  <1>1. w \in CommandCall /\ w.event = None /\ w.doc = None /\ Plain(w)
    BY EarlyIsBare, Callers
  <1>2. call \in CommandCall /\ call.kind = w.kind /\ call.to = w.to /\ call.doc = None /\ call.event = None
    BY <1>1, CallReads
  <1>3. Becomes("window", call)
    OBVIOUS
  <1>. HIDE DEF call
  <1>4. Bare(call)
    BY <1>2 DEF Bare, Opening
  <1>5. \A c \in Caller : Continues(c)
    BY <1>1, <1>2, <1>3, <1>4, BareBecomes, Callers
  <1>. QED  BY <1>5, RestsCalm, SessionEventsStay

LEMMA StartLoadCalm ==
  ASSUME Inv, Documents, Inv', StartLoad
  PROVE  Calm
  <1>. DEFINE config == IF Opened THEN files[store.file].config ELSE None
  <1>1. /\ calls["window"] # None /\ Early(calls["window"]) /\ calls["window"].kind # "open"
        /\ UNCHANGED <<life, documents, app, saves, events, page, crossed>>
        /\ \/ Refused("window") /\ (UNCHANGED left \/ Used("failure"))
           \/ /\ config # None /\ UNCHANGED left
              /\ Becomes("window", [calls["window"] EXCEPT !.stage = "working", !.config = config, !.content = rosters[config]])
    BY DEF StartLoad, Waits, Early
  <1>2. CASE Refused("window") /\ (UNCHANGED left \/ Used("failure"))
    BY <1>1, <1>2, CommandCalm DEF Kind
  <1>3. CASE /\ config # None /\ UNCHANGED left
             /\ Becomes("window", [calls["window"] EXCEPT !.stage = "working", !.config = config, !.content = rosters[config]])
    <2>1. config \in Config
      <3>1. Opened /\ store.file \in File /\ files[store.file] \in Document
        BY <1>3 DEF Opened, Inv, Types, Store
      <3>. QED  BY <1>3, <3>1 DEF Document
    <2>2. rosters[config] \in Nat
      BY <2>1 DEF Inv, Types
    <2>. HIDE DEF config
    <2>. QED  BY <1>1, <1>3, <2>1, <2>2, ReadsCalm
  <1>. QED  BY <1>1, <1>2, <1>3

LEMMA ChooseConfigCalm ==
  ASSUME Inv, Documents, Inv', NEW config \in Config, NEW new \in BOOLEAN, ChooseConfig(config, new)
  PROVE  Calm
  <1>1. /\ calls["window"] # None /\ Early(calls["window"]) /\ calls["window"].kind # "open"
        /\ UNCHANGED <<life, documents, app, saves, events, page, crossed, left>>
        /\ \/ Refused("window")
           \/ Becomes("window", [calls["window"] EXCEPT !.stage = "working", !.config = config, !.content = rosters'[config]])
    BY DEF ChooseConfig, Waits, Early
  <1>2. PICK content \in Nat : content = rosters'[config]
    BY DEF Inv, Types
  <1>. QED  BY <1>1, <1>2, CommandCalm, ReadsCalm

\* A page that waits gets the answer.
LEMMA AnsweredToPage ==
  ASSUME calls \in [Caller -> CommandCall \cup {None}], NEW call \in CommandCall, Answered("window", call),
         calls'["window"] = None
  PROVE  call.to = "nobody"
  <1>1. call.to # "page"
    <2>. SUFFICES ASSUME call.to = "page"  PROVE FALSE
      OBVIOUS
    <2>. DEFINE new == [call EXCEPT !.stage = "answered"]
    <2>1. Becomes("window", new)
      BY DEF Answered
    <2>2. new \in CommandCall
      BY CallAnswered
    <2>. HIDE DEF new
    <2>. QED  BY <2>1, <2>2, BecomesRow, Callers, DesktopAssumption
  <1>. QED  BY <1>1 DEF CommandCall

LEMMA PublishCalm ==
  ASSUME Inv, Documents, Publish
  PROVE  Calm
  <1>. DEFINE w == calls["window"]
              new == calls'["window"]
  <1>1. /\ w # None /\ w.stage = "publishing" /\ w.kind \notin {"reset", "resolve", "groups"}
        /\ app' = Published(app, w.state) /\ Emit(Emitted(app, w.state)) /\ Answered("window", w)
        /\ UNCHANGED <<life, documents, saves, page, crossed, left>>
    BY DEF Publish, histories
  <1>2. w \in CommandCall /\ Sound(w) /\ Brings(w) /\ w.event = None
    BY <1>1, CallFound, Callers DEF Documents, Open, Sound
  <1>3. /\ \A d \in Caller \ {"window"} : calls'[d] = calls[d]
        /\ \/ new = None
           \/ /\ new \in CommandCall /\ new.stage = "answered" /\ new.kind = w.kind /\ new.to = w.to /\ new.file = w.file
              /\ new.epoch = w.epoch /\ new.ok = w.ok /\ new.doc = w.doc /\ new.event = w.event
    BY <1>1, <1>2, AnsweredRow, Callers DEF Inv, Types
  <1>4. new = None => w.to = "nobody"
    BY <1>1, <1>2, AnsweredToPage DEF Inv, Types
  <1>5. Continues("window")
    <2>1. CASE new = None
      <3>1. Plain(w) /\ Bare(new)
        BY <1>1, <1>2, <1>4, <2>1 DEF Plain, Bare, Loading
      <3>. QED  BY <2>1, <3>1 DEF Continues
    <2>2. CASE new # None
      <3>1. (Opening(new) <=> Opening(w)) /\ (Loading(new) <=> Loading(w)) /\ Brings(new)
        BY <1>1, <1>2, <1>3, <2>2 DEF Opening, Loading, Brings
      <3>. QED  BY <1>1, <1>3, <2>2, <3>1 DEF Continues
    <2>. QED  BY <2>1, <2>2
  <1>6. SessionEvents' = SessionEvents /\ app'.published = app.published
    <2>1. \A event \in Emitted(app, w.state) : event.kind # "session"
      BY DEF Emitted, CoordinationEvent
    <2>. QED  BY <1>1, <2>1 DEF Emit, SessionEvents, Published, Inv, Types, Memory
  <1>7. \A c \in Caller : Continues(c)
    BY <1>3, <1>5, OneContinues, Callers
  <1>. QED  BY <1>1, <1>6, <1>7, RestsCalm

\* A command that is not opening a file goes on with the document it has, or with the open one.
LEMMA BringsContinue ==
  ASSUME Inv, Documents, NEW c \in Caller, calls[c] # None, calls[c].kind # "open", NEW call \in CommandCall,
         call.kind = calls[c].kind, call.to = calls[c].to, call.file = calls[c].file, call.epoch = calls[c].epoch,
         call.event = calls[c].event,
         \/ call.doc = calls[c].doc
         \/ call.kind # "choose" /\ call.doc # None /\ call.doc.canon = Canon,
         \/ Becomes(c, call) /\ call.stage \notin {"asked", "working"} /\ (call.stage = "associated" \/ call.ok)
         \/ Answered(c, call) /\ Plain(calls[c]) /\ call.kind # "choose"
  PROVE  \A d \in Caller : Continues(d)
  <1>. DEFINE new == calls'[c]
  <1>1. CASE Becomes(c, call) /\ call.stage \notin {"asked", "working"} /\ (call.stage = "associated" \/ call.ok)
    <2>1. new = call /\ \A d \in Caller \ {c} : calls'[d] = calls[d]
      BY <1>1, BecomesRow DEF Inv, Types
    <2>2. ~Opening(new) /\ ~Loading(new) /\ ~Opening(calls[c]) /\ ~Loading(calls[c]) /\ Brings(new) /\ new # None
      BY <1>1, <2>1, DesktopAssumption DEF Opening, Loading, Brings
    <2>3. Continues(c)
      BY <2>1, <2>2 DEF Continues
    <2>. QED  BY <2>1, <2>3, OneContinues
  <1>2. CASE Answered(c, call) /\ Plain(calls[c]) /\ call.kind # "choose"
    <2>1. /\ \A d \in Caller \ {c} : calls'[d] = calls[d]
          /\ \/ new = None
             \/ /\ new \in CommandCall /\ new.stage = "answered" /\ new.kind = call.kind /\ new.to = call.to
                /\ new.file = call.file /\ new.epoch = call.epoch /\ new.doc = call.doc /\ new.event = call.event
      BY <1>2, AnsweredRow DEF Inv, Types
    <2>2. CASE new = None
      <3>1. Bare(new)
        BY <2>2 DEF Bare
      <3>2. Continues(c)
        BY <1>2, <2>2, <3>1 DEF Continues
      <3>. QED  BY <2>1, <3>2, OneContinues
    <2>3. CASE new # None
      <3>1. ~Opening(new) /\ ~Loading(new) /\ ~Opening(calls[c]) /\ ~Loading(calls[c]) /\ Brings(new)
        BY <1>2, <2>1, <2>3 DEF Opening, Loading, Brings
      <3>2. Continues(c)
        BY <2>1, <2>3, <3>1 DEF Continues
      <3>. QED  BY <2>1, <3>2, OneContinues
    <2>. QED  BY <2>2, <2>3
  <1>. QED  BY <1>1, <1>2

LEMMA InstallCalm ==
  ASSUME Inv, Documents, Inv', Install
  PROVE  Calm
  <1>. DEFINE w == calls["window"]
              change == [coord EXCEPT !.config = w.config, !.content = w.content]
              doc == IF w.kind = "load" /\ Opened THEN files[store.file] ELSE w.doc
              now == coord'
              call == [w EXCEPT !.stage = "publishing", !.ok = TRUE, !.state = now, !.doc = doc]
  <1>1. /\ w # None /\ w.kind \in {"load", "choose"}
        /\ UNCHANGED <<life, documents, saves, page, crossed, left>>
        /\ Commit(change, app) /\ Becomes("window", call)
    BY InstallsMeans DEF Install
  <1>2. w \in CommandCall /\ w.doc \in Document \cup {None} /\ now \in State
    BY <1>1, CallFound, Callers DEF Inv, Types, CommandCall
  <1>3. /\ doc \in Document \cup {None}
        /\ doc = w.doc \/ (w.kind # "choose" /\ doc # None /\ doc.canon = Canon)
    <2>1. CASE w.kind = "load" /\ Opened
      <3>1. doc = files[store.file] /\ doc \in Document
        BY <2>1 DEF Opened, Inv, Types, Store
      <3>. QED  BY <2>1, <3>1, DesktopAssumption DEF Canon
    <2>2. CASE ~(w.kind = "load" /\ Opened)
      BY <1>2, <2>2
    <2>. QED  BY <2>1, <2>2
  <1>4. SessionEvents' = SessionEvents /\ app'.published = app.published
    BY <1>1, CommitCalm DEF Inv, Types
  <1>. HIDE DEF doc, now, change
  <1>5. /\ call \in CommandCall /\ call.stage = "publishing" /\ call.ok /\ call.doc = doc
        /\ call.kind = w.kind /\ call.to = w.to /\ call.event = w.event /\ call.file = w.file /\ call.epoch = w.epoch
    BY <1>2, <1>3, ZenonT(20) DEF CommandCall
  <1>. HIDE DEF call
  <1>6. \A c \in Caller : Continues(c)
    BY <1>1, <1>3, <1>5, BringsContinue, Callers
  <1>. QED  BY <1>1, <1>4, <1>6, RestsCalm

\* Nothing to reset, or groups that are refused.
LEMMA UnchangedCalm ==
  ASSUME Inv, Documents, calls["window"] # None, Early(calls["window"]), calls["window"].kind \in {"reset", "groups"}, Opened,
         UNCHANGED <<life, documents, saves, page, crossed, left, events>>, app'.published = app.published,
         \/ Becomes("window", [calls["window"] EXCEPT !.stage = "publishing", !.ok = TRUE, !.state = coord,
                                 !.doc = files[store.file], !.revision = store.revision])
         \/ Answered("window", [calls["window"] EXCEPT !.state = coord, !.doc = files[store.file], !.revision = store.revision])
  PROVE  Calm
  <1>. DEFINE w == calls["window"]
              doc == files[store.file]
              revision == store.revision
              a == [w EXCEPT !.stage = "publishing", !.ok = TRUE, !.state = coord, !.doc = doc, !.revision = revision]
              b == [w EXCEPT !.state = coord, !.doc = doc, !.revision = revision]
  <1>1. w \in CommandCall /\ Plain(w) /\ coord \in State /\ revision \in Nat
    BY EarlyIsBare, Callers DEF Inv, Types, Store
  <1>2. doc \in Document /\ doc # None /\ doc.canon = Canon
    BY DesktopAssumption DEF Opened, Inv, Types, Store, Canon
  <1>3. Becomes("window", a) \/ Answered("window", b)
    OBVIOUS
  <1>. HIDE DEF doc, revision
  <1>4. /\ a \in CommandCall /\ a.stage = "publishing" /\ a.ok /\ a.doc = doc /\ a.kind = w.kind
        /\ a.to = w.to /\ a.event = w.event /\ a.file = w.file /\ a.epoch = w.epoch
        /\ b \in CommandCall /\ b.doc = doc /\ b.kind = w.kind
        /\ b.to = w.to /\ b.event = w.event /\ b.file = w.file /\ b.epoch = w.epoch
    <2>1. /\ a \in CommandCall /\ a.stage = "publishing" /\ a.ok /\ a.doc = doc /\ a.kind = w.kind
          /\ a.to = w.to /\ a.event = w.event /\ a.file = w.file /\ a.epoch = w.epoch
      BY <1>1, <1>2, ZenonT(20) DEF CommandCall
    <2>2. /\ b \in CommandCall /\ b.doc = doc /\ b.kind = w.kind
          /\ b.to = w.to /\ b.event = w.event /\ b.file = w.file /\ b.epoch = w.epoch
      BY <1>1, <1>2, ZenonT(20) DEF CommandCall
    <2>. QED  BY <2>1, <2>2
  <1>. HIDE DEF a, b
  <1>5. \A c \in Caller : Continues(c)
    <2>1. CASE Becomes("window", a)
      BY <1>2, <1>4, <2>1, BringsContinue, Callers
    <2>2. CASE Answered("window", b)
      BY <1>1, <1>2, <1>4, <2>2, BringsContinue, Callers
    <2>. QED  BY <1>3, <2>1, <2>2
  <1>. QED  BY <1>5, RestsCalm, SessionEventsStay

-----------------------------------------------------------------------------
(* The page, the saves and the lifecycle.                                   *)

LEMMA ReadingCalm ==
  ASSUME Inv, Documents, ReadCoordinator \/ GetRuntimeStatus
  PROVE  Calm
  <1>1. UNCHANGED <<life, documents, saves, page, crossed, left, calls, events>>
    BY DEF ReadCoordinator, GetRuntimeStatus, histories
  <1>2. app'.published = app.published
    BY DEF ReadCoordinator, GetRuntimeStatus, Published, Inv, Types, Memory
  <1>. QED  BY <1>1, <1>2, AllContinue, RestsCalm, SessionEventsStay

\* The page keeps its document when it takes a state, or the number of a save.
LEMMA PageCalm ==
  ASSUME Inv, Documents, UNCHANGED <<life, documents, app, calls, histories>>, SessionEvents' = SessionEvents,
         Typing' = Typing, page # None, page' # None,
         page'.file = page.file /\ page'.epoch = page.epoch /\ page'.doc = page.doc
  PROVE  Calm
  <1>1. LastText <= LastText'
    BY UsedText DEF histories, Inv
  <1>2. store.closed => life.phase \in Ended \cup {"stopping"}
    BY DEF Documents, Open
  <1>. QED  BY <1>1, <1>2, AllContinue DEF Calm, documents, histories, Shown

LEMMA AppliedCalm ==
  ASSUME page \in Page, NEW state
  PROVE  LET new == Applied(page, state) IN
         /\ new.file = page.file /\ new.epoch = page.epoch /\ new.doc = page.doc /\ new.durable = page.durable
         /\ DOMAIN new = DOMAIN page
  BY DEF Applied, Page

LEMMA TakeStatusCalm ==
  ASSUME Inv, Documents, Inv', TakeStatus
  PROVE  Calm
  <1>1. status # None /\ page' = Applied(page, status.state)
        /\ UNCHANGED <<life, documents, app, calls, histories, saves, events>>
    BY DEF TakeStatus, AtStatus
  <1>2. page # None /\ page \in Page
    BY <1>1, SaidRow
  <1>3. page' # None
    <2>1. page' \in Page
      BY <1>1, <1>2, SaidRow, AppliedRow
    <2>. QED  BY <2>1, DesktopAssumption
  <1>4. Typing' = Typing
    BY <1>1 DEF Typing
  <1>. QED  BY <1>1, <1>2, <1>3, <1>4, AppliedCalm, PageCalm, SessionEventsStay

LEMMA TakeCoordinationCalm ==
  ASSUME Inv, Documents, NEW event \in events, TakeCoordination(event)
  PROVE  Calm
  <1>1. /\ event.kind = "coordination" /\ events' = events \ {event} /\ page' = Applied(page, event.state)
        /\ UNCHANGED <<life, documents, app, calls, histories, saves>>
    BY DEF TakeCoordination
  <1>2. page \in Page /\ page # None /\ event.state \in State /\ coord \in State
    BY <1>1, SaidRow
  <1>3. page' # None
    <2>1. page' \in Page
      BY <1>1, <1>2, AppliedRow
    <2>. QED  BY <2>1, DesktopAssumption
  <1>4. Typing' = Typing /\ SessionEvents' = SessionEvents
    BY <1>1 DEF Typing, SessionEvents
  <1>. QED  BY <1>1, <1>2, <1>3, <1>4, AppliedCalm, PageCalm

LEMMA NumberSaveCalm ==
  ASSUME Inv, Documents, NEW s \in saves, NumberSave(s)
  PROVE  Calm
  <1>. DEFINE new == [s EXCEPT !.stage = "numbered", !.number = app.requested + 1]
  <1>1. /\ s.stage = "sent" /\ saves' = (saves \ {s}) \cup {new} /\ app' = [app EXCEPT !.requested = @ + 1]
        /\ UNCHANGED <<life, documents, calls, page, histories, events>>
    BY DEF NumberSave
  <1>2. s \in SaveCall /\ new.stage = "numbered" /\ new.live = s.live /\ new.doc = s.doc
    BY DEF Inv, Types, SaveCall
  <1>3. app'.published = app.published
    BY <1>1 DEF Inv, Types, Memory
  <1>. HIDE DEF new
  <1>4. Typing' = Typing
    <2>1. \A text : text \in Typing <=> \E t \in saves : t.live /\ t.stage # "kept" /\ t.doc.text = text
      BY DEF Typing
    <2>2. \A text : text \in Typing' <=> \E t \in saves' : t.live /\ t.stage # "kept" /\ t.doc.text = text
      BY DEF Typing
    <2>3. \A text : (\E t \in saves' : t.live /\ t.stage # "kept" /\ t.doc.text = text)
                    <=> (\E t \in saves : t.live /\ t.stage # "kept" /\ t.doc.text = text)
      BY <1>1, <1>2
    <2>. QED  BY <2>1, <2>2, <2>3 DEF Typing
  <1>5. LastText <= LastText'
    BY <1>1, UsedText DEF histories, Inv
  <1>6. store.closed => life.phase \in Ended \cup {"stopping"}
    BY DEF Documents, Open
  <1>. QED  BY <1>1, <1>3, <1>4, <1>5, <1>6, AllContinue, SessionEventsStay DEF Calm, documents, histories, Shown

LEMMA AnswerSaveCalm ==
  ASSUME Inv, Documents, NEW s \in saves, AnswerSave(s)
  PROVE  Calm
  <1>1. /\ s.stage = "kept" /\ saves' = saves \ {s}
        /\ UNCHANGED <<life, documents, calls, app, histories, events>>
        /\ page' = page \/ page' = [page EXCEPT !.durable = s.number, !.rendered = s.invocation]
    BY DEF AnswerSave
  <1>2. page \in Page /\ page # None
    BY <1>1 DEF Inv, Types, Listening
  <1>3. s \in SaveCall
    BY DEF Inv, Types
  <1>4. page' \in Page /\ page'.file = page.file /\ page'.epoch = page.epoch /\ page'.doc = page.doc
    BY <1>1, <1>2, <1>3 DEF Page, SaveCall
  <1>5. Typing' = Typing
    BY <1>1 DEF Typing
  <1>. QED  BY <1>1, <1>2, <1>4, <1>5, PageCalm, SessionEventsStay, DesktopAssumption

LEMMA LifecycleCalm ==
  ASSUME Inv, Documents, Inv', StartPlayer \/ ReadyDesktop \/ (\E r \in Resource : Release(r)) \/ ClearProcess \/ FinishRelease
  PROVE  Calm
  <1>1. /\ UNCHANGED <<files, calls, saves, page, crossed, events>>
        /\ UNCHANGED left \/ \E kind \in Kind : Used(kind)
    BY DEF StartPlayer, ReadyDesktop, Release, ClearProcess, FinishRelease, Fails, documents, histories, Kind
  <1>2. app'.published = app.published
    BY DEF StartPlayer, ReadyDesktop, Release, ClearProcess, FinishRelease, Inv, Types, Memory
  <1>3. /\ store'.file = store.file /\ store'.epoch = store.epoch /\ store'.revision = store.revision
        /\ store'.closed => life'.phase \in Ended \cup {"stopping"}
    <2>1. life \in Life /\ store \in Store /\ Lives /\ (store.closed => life.phase \in Ended \cup {"stopping"})
      BY DEF Inv, Types, Documents, Open
    <2>2. CASE StartPlayer \/ ReadyDesktop
      BY <2>1, <2>2 DEF StartPlayer, ReadyDesktop, documents, Ended, Life
    <2>3. ASSUME NEW r \in Resource, Release(r)  PROVE <1>3
      <3>1. life.phase = "stopping"
        BY <2>1, <2>3, DesktopAssumption DEF Release, Lives, Resource, Step
      <3>2. life'.phase = life.phase
        BY <2>1, <2>3 DEF Release, Missed, Life
      <3>3. store' = store \/ store' = [store EXCEPT !.closed = TRUE]
        BY <2>3 DEF Release
      <3>. QED  BY <2>1, <3>1, <3>2, <3>3 DEF Store
    <2>4. CASE ClearProcess
      BY <2>1, <2>4 DEF ClearProcess, documents, Life
    <2>5. CASE FinishRelease
      BY <2>1, <2>5 DEF FinishRelease, documents, Life, Ended
    <2>. QED  BY <2>2, <2>3, <2>4, <2>5
  <1>4. LastText <= LastText'
    BY <1>1, UsedText DEF Inv
  <1>. QED  BY <1>1, <1>2, <1>3, <1>4, AllContinue, SessionEventsStay DEF Calm, Shown, Typing

LEMMA StutterCalm ==
  ASSUME Inv, Documents, UNCHANGED vars
  PROVE  Calm
  <1>1. UNCHANGED <<life, documents, app, calls, saves, page, crossed, left, events>>
    BY DEF vars, histories
  <1>. QED  BY <1>1, AllContinue, SessionEventsStay, RestsCalm

-----------------------------------------------------------------------------
(* The commands that change the document.                                   *)

\* While the line is free nothing is being opened and no event is still to be published.
LEMMA NothingPending ==
  ASSUME Inv, LineFree
  PROVE  ~Loading(calls["window"]) /\ \A c \in Caller : calls[c] # None => calls[c].event = None
  <1>1. \A c \in Caller : ~HoldsLine(calls[c])
    BY DEF LineFree
  <1>2. \A c \in Caller : calls[c] # None => Sound(calls[c])
    BY DEF Inv, Stages
  <1>3. ASSUME NEW c \in Caller, calls[c] # None, calls[c].event # None  PROVE FALSE
    BY <1>1, <1>2, <1>3 DEF Sound, HoldsLine, OnLine
  <1>4. ~Loading(calls["window"])
    BY <1>1, Callers DEF Loading, HoldsLine, OnLine
  <1>. QED  BY <1>3, <1>4

\* Only the canonical part of the open document changes.
LEMMA MutatedRow ==
  ASSUME Types, Opened, Mutate
  PROVE  /\ store.file \in File /\ Canon \in Nat
         /\ Mutated[store.file].canon = Canon + 1 /\ Canon' = Canon + 1
         /\ files'[store'.file].text = files[store.file].text /\ files'[store'.file].config = files[store.file].config
         /\ \A f \in File : files'[f].text = files[f].text
         /\ store'.file = store.file /\ store'.epoch = store.epoch /\ store'.closed = store.closed
         /\ store'.revision = store.revision + 1 /\ store.revision \in Nat
  <1>. DEFINE old == files[store.file]
              new == [old EXCEPT !.canon = @ + 1]
  <1>1. store.file \in File /\ store \in Store /\ files \in [File -> Document]
    BY DEF Types, Store, Opened
  <1>2. old \in Document /\ new.canon = old.canon + 1 /\ new.text = old.text /\ new.config = old.config /\ old.canon \in Nat
    BY <1>1 DEF Document
  <1>3. Mutated = [files EXCEPT ![store.file] = new]
    BY DEF Mutated
  <1>. HIDE DEF new
  <1>4. Mutated[store.file] = new /\ \A f \in File : Mutated[f].text = files[f].text
    BY <1>1, <1>2, <1>3
  <1>5. files' = Mutated /\ store' = [store EXCEPT !.revision = store.revision + 1]
    BY DEF Mutate
  <1>6. /\ store'.file = store.file /\ store'.epoch = store.epoch /\ store'.closed = store.closed
        /\ store'.revision = store.revision + 1 /\ store.revision \in Nat
    BY <1>1, <1>5 DEF Store
  <1>. HIDE DEF Mutated
  <1>. QED  BY <1>1, <1>2, <1>4, <1>5, <1>6 DEF Canon

LEMMA MutatesDocuments ==
  ASSUME Inv, Documents, Inv', NEW c \in Caller, NEW old \in CommandCall, old.event = None,
         old.kind \in {"reset", "resolve", "groups"},
         c = "window" => calls[c] # None /\ old = calls[c], c = "desktop" => calls[c] = None,
         LineFree, MutateAndCommit(c, old),
         UNCHANGED <<life, saves, page, crossed>>, LastText <= LastText'
  PROVE  Documents'
  <1>. DEFINE now == coord'
              doc == Mutated[store.file]
              revision == store.revision + 1
              event == SessionEvent(doc)
              call == [old EXCEPT !.stage = "publishing", !.ok = TRUE, !.state = now, !.doc = doc,
                                  !.revision = revision, !.event = event]
              new == calls'["window"]
              w == calls["window"]
  <1>1. /\ Types /\ Types' /\ Opened /\ Mutate /\ Commit(coord, app) /\ Becomes(c, call)
        /\ Open /\ News /\ Agreement
    BY DEF MutateAndCommit, Inv, Documents
  <1>2. /\ store.file \in File /\ Canon \in Nat /\ doc.canon = Canon + 1 /\ Canon' = Canon + 1
        /\ files'[store'.file].text = files[store.file].text /\ files'[store'.file].config = files[store.file].config
        /\ \A f \in File : files'[f].text = files[f].text
        /\ store'.file = store.file /\ store'.epoch = store.epoch /\ store'.closed = store.closed
        /\ store'.revision = store.revision + 1 /\ store.revision \in Nat
    BY <1>1, MutatedRow
  <1>3. doc \in Document /\ event \in SessionNews /\ revision \in Nat /\ now \in State
    BY <1>1, MutateRow DEF Types
  <1>4. event.epoch = store.epoch /\ event.doc = doc /\ event.revision = revision
    BY DEF SessionEvent
  <1>5. SessionEvents' = SessionEvents /\ app'.published = app.published
    BY <1>1, CommitCalm DEF Types
  <1>6. ~Loading(w) /\ \A d \in Caller : calls[d] # None => calls[d].event = None
    BY NothingPending
  <1>. HIDE DEF now, doc, revision, event
  <1>7. /\ call \in CommandCall /\ call.stage = "publishing" /\ call.event = event /\ call.doc = doc
        /\ call.kind = old.kind /\ call.to = old.to
    BY <1>3, ZenonT(20) DEF CommandCall
  <1>. HIDE DEF call
  <1>8. calls'[c] = call /\ (\A d \in Caller \ {c} : calls'[d] = calls[d]) /\ call # None /\ event # None /\ doc # None
    BY <1>1, <1>3, <1>7, BecomesRow, DesktopAssumption DEF Types
  <1>9. Typing' = Typing /\ (Shown' <=> Shown)
    BY DEF Typing, Shown
  <1>10. Announced'
    BY <1>2, <1>4, <1>7, <1>8 DEF Announced
  <1>11. /\ Opening(new) => new = w
         /\ Choosing(new) => new = w
         /\ Choosing(w) => new = w \/ c = "window"
         /\ new = w \/ (c = "window" /\ new = call /\ w # None /\ old = w)
    BY <1>7, <1>8, Callers DEF Opening, Choosing
  <1>12. ~Choosing(w) \/ c = "desktop"
    BY Callers DEF Choosing
  <1>13. \A n \in Nat : n <= Canon => n <= Canon + 1
    BY <1>2
  <1>14. Open'
    <2>1. \A d \in Caller : calls'[d] # None => Brings(calls'[d])
      BY <1>1, <1>7, <1>8 DEF Open, Brings
    <2>2. new # None /\ (new.kind = "open" \/ new.to = "nobody") => ~Shown
      BY <1>1, <1>7, <1>11 DEF Open
    <2>3. Opening(new) => new.file = store.file /\ new.epoch = store.epoch
      BY <1>1, <1>11 DEF Open
    <2>. HIDE DEF new
    <2>. QED  BY <1>1, <1>2, <1>9, <2>1, <2>2, <2>3 DEF Open, new
  <1>15. News'
    <2>1. app.published <= store.revision /\ app.published \in Nat
      BY <1>1, <1>6 DEF News, Types, Memory
    <2>2. \A e \in SessionEvents' : e.epoch <= store'.epoch /\ (e.epoch = store'.epoch => e.doc.canon <= Canon')
      <3>1. ASSUME NEW e \in SessionEvents  PROVE e.epoch <= store.epoch /\ (e.epoch = store.epoch => e.doc.canon <= Canon + 1)
        <4>1. e.doc.canon \in Nat
          BY <1>1, TextsInNat DEF SessionNews
        <4>. QED  BY <1>1, <1>13, <4>1 DEF News
      <3>. QED  BY <1>2, <1>5, <3>1
    <2>3. \A d \in Caller : calls'[d] # None /\ calls'[d].event # None => d = c
      BY <1>6, <1>8
    <2>4. /\ event.epoch = store'.epoch /\ event.doc.canon <= Canon'
          /\ app'.published < event.revision /\ event.revision <= store'.revision
      BY <1>2, <1>4, <1>5, <2>1 DEF revision
    <2>5. calls'["window"] = None \/ calls'["desktop"] = None
          \/ calls'["window"].event = None \/ calls'["desktop"].event = None
      BY <2>3, Callers
    <2>6. new # None /\ new.doc # None /\ new.kind # "open" => new.doc.canon <= Canon'
      <3>1. CASE new = w
        <4>1. new # None /\ new.doc # None => new.doc.canon \in Nat
          <5>1. new # None => new \in CommandCall
            BY <1>1, Callers DEF Types
          <5>. QED  BY <5>1 DEF CommandCall, Document
        <4>. QED  BY <1>1, <1>2, <1>13, <3>1, <4>1 DEF News
      <3>2. CASE new = call
        BY <1>2, <1>7, <3>2
      <3>. QED  BY <1>11, <3>1, <3>2
    <2>7. app'.published <= store'.revision
      BY <1>2, <1>5, <2>1
    <2>8. \A d \in Caller : calls'[d] # None /\ calls'[d].event # None =>
             /\ calls'[d].event.epoch = store'.epoch /\ calls'[d].event.doc.canon <= Canon'
             /\ app'.published < calls'[d].event.revision /\ calls'[d].event.revision <= store'.revision
      BY <1>7, <1>8, <2>3, <2>4
    <2>. HIDE DEF new
    <2>. QED  BY <2>2, <2>5, <2>6, <2>7, <2>8 DEF News, Pending, new
  <1>16. Agreement'
    <2>. SUFFICES ASSUME ~crossed'  PROVE Agreement'
      BY DEF Agreement
    <2>1. ~crossed
      OBVIOUS
    <2>2. \A f \in File : files'[f].text <= LastText'
      BY <1>1, <1>2, <2>1, TextsInNat, LastInNat DEF Agreement
    <2>3. ASSUME Opening(new), new.to = "page"  PROVE
            LET d == new.doc IN
            d.text = files'[store'.file].text /\ d.config = files'[store'.file].config /\ d.canon <= Canon'
      <3>1. new = w
        BY <1>11, <2>3
      <3>2. new.doc.canon \in Nat
        <4>1. w # None /\ w.kind = "open" /\ (w.stage = "working" \/ w.ok)
          BY <2>3, <3>1 DEF Opening
        <4>2. w \in CommandCall /\ w.doc # None
          BY <4>1, CallFound, Callers DEF Sound
        <4>. QED  BY <3>1, <4>2 DEF CommandCall, Document
      <3>. QED  BY <1>1, <1>2, <1>13, <2>1, <2>3, <3>1, <3>2 DEF Agreement, Follows
    <2>4. Choosing(new) => new.doc.config = files'[store'.file].config
      BY <1>1, <1>2, <1>11, <2>1 DEF Agreement
    <2>5. ASSUME Shown  PROVE
            /\ page.doc.text <= LastText' /\ (\A text \in Typing : text <= page.doc.text)
            /\ page.doc.text = files'[store'.file].text \/ page.doc.text \in Typing
            /\ page.doc.config = files'[store'.file].config \/ Choosing(new)
            /\ page.doc.canon <= Canon'
      <3>1. page.doc \in Document
        BY <1>1, <2>5 DEF Types, Page, Inv, Stages, Shown
      <3>2. page.doc.text \in Nat /\ page.doc.canon \in Nat /\ LastText \in Nat /\ LastText' \in Nat
        BY <1>1, <3>1, TextsInNat, LastInNat
      <3>3. Choosing(w) => Choosing(new)
        BY <1>11, <1>12, Callers
      <3>. QED  BY <1>1, <1>2, <1>13, <2>1, <2>5, <3>2, <3>3 DEF Agreement, Follows
    <2>. HIDE DEF new
    <2>. QED  BY <1>9, <1>10, <2>2, <2>3, <2>4, <2>5 DEF Agreement, Follows, new
  <1>. QED  BY <1>14, <1>15, <1>16 DEF Documents

LEMMA ResetDocuments ==
  ASSUME Inv, Documents, Inv', ResetCommandState
  PROVE  Documents'
  <1>. DEFINE w == calls["window"]
  <1>1. /\ w # None /\ w.kind = "reset" /\ w.stage = "asked" /\ Early(w) /\ LineFree
        /\ UNCHANGED <<life, saves, page, crossed, left>>
    BY DEF ResetCommandState, Waits, Early, histories
  <1>2. w \in CommandCall /\ w.event = None
    BY <1>1, CallFound, Callers
  <1>3. CASE MutateAndCommit("window", w)
    BY <1>1, <1>2, <1>3, MutatesDocuments, Callers, UsedText DEF Inv
  <1>4. CASE /\ Opened
             /\ Becomes("window", [w EXCEPT !.stage = "publishing", !.ok = TRUE, !.state = coord,
                                       !.doc = files[store.file], !.revision = store.revision])
             /\ UNCHANGED <<coord, documents, app, events>>
    BY <1>1, <1>4, UnchangedCalm, CalmKeeps
  <1>5. CASE Answered("window", [w EXCEPT !.state = coord]) /\ UNCHANGED <<coord, documents, app, events>>
    BY <1>1, <1>5, CommandCalm, CalmKeeps
  <1>. QED  BY <1>3, <1>4, <1>5 DEF ResetCommandState

LEMMA ReplaceTerminalGroupsDocuments ==
  ASSUME Inv, Documents, Inv', ReplaceTerminalGroups
  PROVE  Documents'
  <1>. DEFINE w == calls["window"]
  <1>1. /\ w # None /\ w.kind = "groups" /\ w.stage = "asked" /\ Early(w) /\ LineFree
        /\ UNCHANGED <<life, saves, page, crossed, left>>
    BY DEF ReplaceTerminalGroups, Waits, Early, histories
  <1>2. w \in CommandCall /\ w.event = None
    BY <1>1, CallFound, Callers
  <1>3. CASE MutateAndCommit("window", w)
    BY <1>1, <1>2, <1>3, MutatesDocuments, Callers, UsedText DEF Inv
  <1>4. CASE /\ Opened /\ UNCHANGED documents /\ app' = Captured(app) /\ UNCHANGED <<coord, events>>
             /\ Answered("window", [w EXCEPT !.state = coord, !.doc = files[store.file], !.revision = store.revision])
    <2>1. app'.published = app.published
      BY <1>4 DEF Captured, Inv, Types, Memory
    <2>. QED  BY <1>1, <1>4, <2>1, UnchangedCalm, CalmKeeps
  <1>. QED  BY <1>3, <1>4 DEF ReplaceTerminalGroups

LEMMA ResolveDocuments ==
  ASSUME Inv, Documents, Inv', NEW c \in Caller, Resolve(c)
  PROVE  Documents'
  <1>. DEFINE call == IF c = "window" THEN calls[c] ELSE Call("resolve", "asked")
  <1>1. /\ LineFree /\ UNCHANGED <<life, saves, page, crossed>>
        /\ UNCHANGED left \/ \E kind \in Kind : Used(kind)
        /\ c = "window" => calls[c] # None /\ calls[c].kind = "resolve" /\ calls[c].stage = "asked"
        /\ c = "desktop" => calls[c] = None
    BY DEF Resolve, Waits, Kind
  <1>2. /\ call \in CommandCall /\ call.event = None /\ call.kind = "resolve"
        /\ c = "window" => calls[c] # None /\ call = calls[c]
    <2>1. CASE c = "window"
      BY <1>1, <2>1, CallFound
    <2>2. CASE c # "window"
      BY <2>2, FreshCall
    <2>. QED  BY <2>1, <2>2
  <1>3. \/ coord.onAir /\ MutateAndCommit(c, call)
        \/ /\ coord.onAir /\ Commit(coord, app)
           /\ Becomes(c, [call EXCEPT !.stage = "publishing", !.ok = TRUE, !.state = coord'])
           /\ UNCHANGED documents
        \/ Answered(c, [call EXCEPT !.state = coord]) /\ UNCHANGED <<coord, documents, app, events>>
    BY DEF Resolve
  <1>4. CASE MutateAndCommit(c, call)
    <2>1. LastText <= LastText'
      BY <1>1, UsedText DEF Inv
    <2>. HIDE DEF call
    <2>. QED  BY <1>1, <1>2, <1>4, <2>1, MutatesDocuments
  <1>5. CASE /\ Commit(coord, app)
             /\ Becomes(c, [call EXCEPT !.stage = "publishing", !.ok = TRUE, !.state = coord'])
             /\ UNCHANGED documents
    <2>1. CASE c = "window"
      <3>1. Early(calls["window"])
        BY <1>1, <2>1 DEF Early
      <3>. QED  BY <1>1, <1>2, <1>5, <2>1, <3>1, CommandCalm, CalmKeeps
    <2>2. CASE c = "desktop"
      <3>1. PICK state \in State : Becomes(c, [Call("resolve", "asked") EXCEPT !.stage = "publishing", !.ok = TRUE, !.state = state])
        <4>1. coord' \in State
          BY DEF Inv, Types
        <4>. QED  BY <1>5, <2>2, <4>1
      <3>. DEFINE new == [Call("resolve", "asked") EXCEPT !.stage = "publishing", !.ok = TRUE, !.state = state]
      <3>2. new.doc = None /\ new.event = None /\ new.kind = "resolve"
        BY DEF Call
      <3>3. calls'[c] = new /\ \A d \in Caller \ {c} : calls'[d] = calls[d]
        BY <3>1 DEF Becomes, Inv, Types
      <3>. HIDE DEF new
      <3>4. Bare(new) /\ Plain(calls[c])
        BY <1>1, <2>2, <3>2 DEF Bare, Plain, Opening
      <3>5. Continues(c)
        BY <2>2, <3>3, <3>4 DEF Continues
      <3>6. \A d \in Caller : Continues(d)
        BY <3>3, <3>5, OneContinues
      <3>7. SessionEvents' = SessionEvents /\ app'.published = app.published
        BY <1>5, CommitCalm DEF Inv, Types
      <3>8. Calm
        BY <1>1, <1>5, <3>6, <3>7, RestsCalm
      <3>. QED  BY <3>8, CalmKeeps
    <2>. QED  BY <2>1, <2>2, Callers
  <1>6. CASE Answered(c, [call EXCEPT !.state = coord]) /\ UNCHANGED <<coord, documents, app, events>>
    <2>1. CASE c = "window"
      <3>1. Early(calls["window"])
        BY <1>1, <2>1 DEF Early
      <3>. QED  BY <1>1, <1>2, <1>6, <2>1, <3>1, CommandCalm, CalmKeeps
    <2>2. CASE c = "desktop"
      <3>1. calls' = calls
        BY <1>1, <1>6, <2>2 DEF Answered, Becomes, Inv, Types
      <3>2. Calm
        BY <1>1, <1>6, <3>1, AllContinue, SessionEventsStay, RestsCalm
      <3>. QED  BY <3>2, CalmKeeps
    <2>. QED  BY <2>1, <2>2, Callers
  <1>. QED  BY <1>3, <1>4, <1>5, <1>6

\* The call ends; its event goes out, as nothing newer has been published.
LEMMA SpentDocuments ==
  ASSUME Inv, Documents, Inv', NEW c \in Caller, calls[c] # None, calls[c].stage = "publishing",
         calls[c].kind \in {"reset", "resolve", "groups"}, Answered(c, [calls[c] EXCEPT !.event = None]),
         UNCHANGED <<life, documents, saves, page, histories>>,
         \/ calls[c].event = None /\ app'.published = app.published /\ SessionEvents' = SessionEvents
         \/ /\ calls[c].event # None /\ app'.published = calls[c].event.revision
            /\ SessionEvents' = IF page = None THEN SessionEvents ELSE SessionEvents \cup {calls[c].event}
  PROVE  Documents'
  <1>. DEFINE old == calls[c]
              call == [old EXCEPT !.event = None]
              end == calls'[c]
  <1>0. Answered(c, call)
    OBVIOUS
  <1>1. old \in CommandCall /\ Open /\ News /\ Agreement /\ Types /\ Types'
    BY CallFound DEF Documents, Inv
  <1>2. /\ call \in CommandCall /\ call.event = None /\ call.kind = old.kind /\ call.to = old.to /\ call.file = old.file
        /\ call.epoch = old.epoch /\ call.ok = old.ok /\ call.doc = old.doc
    BY <1>1, CallSpent
  <1>. HIDE DEF call
  <1>3. /\ \A d \in Caller \ {c} : calls'[d] = calls[d]
        /\ \/ end = None
           \/ /\ end \in CommandCall /\ end.stage = "answered" /\ end.kind = old.kind /\ end.to = old.to
              /\ end.file = old.file /\ end.epoch = old.epoch /\ end.doc = old.doc /\ end.event = None
    BY <1>0, <1>1, <1>2, AnsweredRow DEF Types
  <1>4. ~Opening(old) /\ ~Opening(end) /\ ~Loading(old) /\ ~Loading(end) /\ ~Choosing(old) /\ ~Choosing(end)
        /\ (end # None => Brings(end))
    BY <1>3 DEF Opening, Loading, Choosing, Brings
  <1>5. CASE calls[c].event = None /\ app'.published = app.published /\ SessionEvents' = SessionEvents
    <2>1. Plain(old) /\ (end = None => Bare(end))
      BY <1>4, <1>5 DEF Plain, Bare
    <2>2. Continues(c)
      BY <1>3, <1>4, <1>5, <2>1 DEF Continues
    <2>3. \A d \in Caller : Continues(d)
      BY <1>3, <2>2, OneContinues
    <2>4. Calm
      BY <1>5, <2>3, RestsCalm DEF histories
    <2>. QED  BY <2>4, CalmKeeps
  <1>6. CASE /\ calls[c].event # None /\ app'.published = calls[c].event.revision
             /\ SessionEvents' = IF page = None THEN SessionEvents ELSE SessionEvents \cup {calls[c].event}
    <2>. DEFINE event == calls[c].event
                w == calls["window"]
                new == calls'["window"]
    <2>1. Pending(event) /\ event \in SessionNews
      BY <1>1, <1>6 DEF News, CommandCall
    <2>2. \A d \in Caller : calls'[d] # None => calls'[d].event = None
      <3>1. \A d \in Caller \ {c} : calls[d] # None => calls[d].event = None
        BY <1>1, <1>6, Callers DEF News
      <3>. QED  BY <1>3, <3>1
    <2>3. Canon' = Canon /\ (Shown' <=> Shown) /\ Typing' = Typing /\ LastText' = LastText
      BY DEF Canon, Shown, Typing, LastText, documents, histories
    <2>4. ~Loading(w) => ~Loading(new)
      BY <1>3, <1>4, Callers
    <2>5. /\ Opening(new) <=> Opening(w)
          /\ Opening(new) => new = w
          /\ Choosing(new) <=> Choosing(w)
          /\ Choosing(new) => new = w
      BY <1>3, <1>4, Callers
    <2>6. /\ new # None => w # None /\ new.kind = w.kind /\ new.to = w.to /\ new.doc = w.doc
      BY <1>3, Callers
    <2>7. page # None /\ Announced => Announced'
      <3>1. SUFFICES ASSUME page # None, Announced  PROVE Announced'
        OBVIOUS
      <3>2. SessionEvents' = SessionEvents \cup {event}
        BY <1>6, <3>1
      <3>3. event.epoch = store.epoch
        BY <2>1 DEF Pending
      <3>4. \A d \in Caller : calls[d] # None /\ calls[d].event # None => calls[d].event = event
        BY <1>1, <1>6, Callers DEF News
      <3>. QED  BY <2>3, <3>1, <3>2, <3>3, <3>4 DEF Announced, documents
    <2>8. Open'
      <3>1. \A d \in Caller : calls'[d] # None => Brings(calls'[d])
        BY <1>1, <1>3, <1>4 DEF Open
      <3>2. new # None /\ (new.kind = "open" \/ new.to = "nobody") => ~Shown
        BY <1>1, <2>6 DEF Open
      <3>3. Opening(new) => new.file = store.file /\ new.epoch = store.epoch
        BY <1>1, <2>5 DEF Open
      <3>. HIDE DEF new
      <3>. QED  BY <1>1, <2>3, <3>1, <3>2, <3>3 DEF Open, new, documents
    <2>9. News'
      <3>1. \A e \in SessionEvents' : e.epoch <= store.epoch /\ (e.epoch = store.epoch => e.doc.canon <= Canon)
        <4>1. event.epoch = store.epoch /\ event.doc.canon <= Canon /\ store.epoch \in Nat
          BY <1>1, <2>1 DEF Pending, Types, Store
        <4>. QED  BY <1>1, <1>6, <4>1 DEF News
      <3>2. app'.published <= store.revision
        BY <1>6, <2>1 DEF Pending
      <3>3. new # None /\ new.doc # None /\ new.kind # "open" => new.doc.canon <= Canon
        BY <1>1, <2>6 DEF News
      <3>4. calls'["window"] = None \/ calls'["desktop"] = None
            \/ calls'["window"].event = None \/ calls'["desktop"].event = None
        BY <2>2, Callers
      <3>. HIDE DEF new
      <3>. QED  BY <2>2, <2>3, <3>1, <3>2, <3>3, <3>4 DEF News, new, documents
    <2>10. Agreement'
      <3>. SUFFICES ASSUME ~crossed'  PROVE Agreement'
        BY DEF Agreement
      <3>1. ~crossed
        BY DEF histories
      <3>2. Opening(new) /\ new.to = "page" =>
              /\ LET d == w.doc IN
                 d.text = files[store.file].text /\ d.config = files[store.file].config /\ Follows(d)
              /\ new = w /\ page # None
        <4>1. w # None /\ w.to = "page" => page # None
          BY DEF Inv, Listening
        <4>2. Opening(w) => w # None
          BY DEF Opening
        <4>. QED  BY <1>1, <2>5, <3>1, <4>1, <4>2 DEF Agreement
      <3>3. Shown => page # None
        BY DEF Shown
      <3>4. \A doc : page # None /\ Follows(doc) => doc.canon <= Canon /\ (doc.canon = Canon \/ Announced')
        BY <2>7 DEF Follows
      <3>5. Choosing(new) => new.doc.config = files[store.file].config
        BY <1>1, <2>5, <3>1 DEF Agreement
      <3>. HIDE DEF new
      <3>. QED  BY <1>1, <2>3, <2>5, <3>1, <3>2, <3>3, <3>4, <3>5 DEF Agreement, Follows, documents, new
    <2>. QED  BY <2>8, <2>9, <2>10 DEF Documents
  <1>. QED  BY <1>5, <1>6

\* publishSessionState takes an event that is still pending.
LEMMA PublishesPending ==
  ASSUME Types, NEW a \in Memory, a.published = app.published, NEW event \in SessionNews, Pending(event)
  PROVE  /\ EmittedSession(a, event) = {event}
         /\ PublishedSession(a, event) \in Memory /\ PublishedSession(a, event).published = event.revision
  <1>1. event.revision > a.published /\ event.revision \in Nat
    BY DEF Pending, SessionNews, Types, Memory
  <1>. QED  BY <1>1 DEF EmittedSession, PublishedSession, Memory

\* The events about a document that a step emits.
LEMMA EmitRow ==
  ASSUME NEW news, NEW more, \A event \in more : event.kind # "session", \A event \in news : event.kind = "session",
         Emit(more \cup news)
  PROVE  SessionEvents' = IF page = None THEN SessionEvents ELSE SessionEvents \cup news
  <1>1. events' = IF page = None THEN events ELSE events \cup (more \cup news)
    BY DEF Emit
  <1>. QED  BY <1>1 DEF SessionEvents

LEMMA FinishMutationDocuments ==
  ASSUME Inv, Documents, Inv', NEW c \in Caller, FinishMutation(c)
  PROVE  Documents'
  <1>. DEFINE call == calls[c]
              state == call.state
              event == call.event
              a == IF StrictlyNewer(app, state) THEN [app EXCEPT !.state = state] ELSE app
              b == AcceptedRevision(a, call.revision)
              more == IF StrictlyNewer(app, state) THEN {CoordinationEvent(state)} ELSE {}
              news == IF event = None THEN {} ELSE EmittedSession(b, event)
  <1>1. /\ calls[c] # None /\ call.stage = "publishing" /\ call.kind \in {"reset", "resolve"}
        /\ app' = (IF event = None THEN b ELSE PublishedSession(b, event))
        /\ Emit(more \cup news) /\ Answered(c, [calls[c] EXCEPT !.event = None])
        /\ UNCHANGED <<life, documents, saves, page, histories>>
    BY DEF FinishMutation
  <1>2. state \in State /\ event \in SessionNews \cup {None} /\ call.revision \in Nat /\ app \in Memory /\ Types
    BY <1>1, CallFound DEF Sound, Inv, Types
  <1>3. a \in Memory /\ a.published = app.published
    <2>1. [app EXCEPT !.state = state] \in Memory /\ [app EXCEPT !.state = state].published = app.published
      BY <1>2 DEF Memory
    <2>. QED  BY <1>2, <2>1
  <1>. HIDE DEF a
  <1>4. b \in Memory /\ b.published = app.published
    BY <1>2, <1>3 DEF AcceptedRevision, Memory
  <1>. HIDE DEF b
  <1>5. \A e \in more : e.kind # "session"
    BY DEF CoordinationEvent
  <1>. HIDE DEF more
  <1>6. CASE event = None
    <2>1. news = {} /\ app'.published = app.published
      BY <1>1, <1>4, <1>6
    <2>2. SessionEvents' = SessionEvents
      <3>1. \A e \in news : e.kind = "session"
        BY <2>1
      <3>. QED  BY <1>1, <1>5, <2>1, <3>1, EmitRow
    <2>. QED  BY <1>1, <1>6, <2>1, <2>2, SpentDocuments
  <1>7. CASE event # None
    <2>1. Pending(event) /\ event \in SessionNews
      BY <1>1, <1>2, <1>7 DEF Documents, News
    <2>2. news = {event} /\ app'.published = event.revision
      BY <1>1, <1>2, <1>4, <1>7, <2>1, PublishesPending
    <2>3. SessionEvents' = IF page = None THEN SessionEvents ELSE SessionEvents \cup {event}
      <3>1. \A e \in news : e.kind = "session"
        BY <2>1, <2>2 DEF SessionNews
      <3>. QED  BY <1>1, <1>5, <2>2, <3>1, EmitRow
    <2>. QED  BY <1>1, <1>7, <2>2, <2>3, SpentDocuments
  <1>. QED  BY <1>6, <1>7

LEMMA FinishGroupsDocuments ==
  ASSUME Inv, Documents, Inv', FinishGroups
  PROVE  Documents'
  <1>. DEFINE call == calls["window"]
              state == call.state
              event == call.event
              a == AcceptedRevision(app, call.revision)
              b == PublishedSession(a, event)
              news == EmittedSession(a, event)
              more == Emitted(b, state)
  <1>1. /\ call # None /\ call.stage = "publishing" /\ call.kind = "groups"
        /\ app' = Published(b, state) /\ Emit(news \cup more)
        /\ Answered("window", [call EXCEPT !.event = None])
        /\ UNCHANGED <<life, documents, saves, page, histories>>
    BY DEF FinishGroups
  <1>2. event \in SessionNews /\ event # None /\ call.revision \in Nat /\ app \in Memory /\ Types
    BY <1>1, CallFound, Callers, DesktopAssumption DEF Sound, Inv, Types
  <1>3. a \in Memory /\ a.published = app.published
    BY <1>2 DEF AcceptedRevision, Memory
  <1>4. Pending(event)
    BY <1>1, <1>2, Callers DEF Documents, News
  <1>. HIDE DEF a
  <1>5. news = {event} /\ b \in Memory /\ b.published = event.revision
    BY <1>2, <1>3, <1>4, PublishesPending
  <1>. HIDE DEF b, news
  <1>6. app'.published = event.revision
    BY <1>1, <1>5 DEF Published, Memory
  <1>7. \A e \in more : e.kind # "session"
    BY DEF Emitted, CoordinationEvent
  <1>. HIDE DEF more
  <1>8. SessionEvents' = IF page = None THEN SessionEvents ELSE SessionEvents \cup {event}
    <2>1. \A e \in news : e.kind = "session"
      BY <1>2, <1>5 DEF SessionNews
    <2>2. Emit(more \cup news)
      BY <1>1 DEF Emit
    <2>. QED  BY <1>5, <1>7, <2>1, <2>2, EmitRow
  <1>. QED  BY <1>1, <1>2, <1>6, <1>8, SpentDocuments, Callers

-----------------------------------------------------------------------------
(* Opening a document, and naming a config in it.                           *)

LEMMA OpenFileDocuments ==
  ASSUME Inv, Documents, Inv', NEW f \in File, NEW new \in BOOLEAN, OpenFile(f, new)
  PROVE  Documents'
  <1>. DEFINE w == calls["window"]
              epoch == store'.epoch
              doc == files'[f]
              call == [w EXCEPT !.stage = "working", !.file = f, !.epoch = epoch, !.doc = doc]
              now == calls'["window"]
  <1>1. /\ Types /\ Types' /\ Open /\ News /\ Agreement /\ LineFree
        /\ w # None /\ w.kind = "open" /\ w.stage = "asked" /\ Early(w) /\ ~store.closed
        /\ UNCHANGED <<life, app, saves, events, page, left, crossed>>
        /\ files' = (IF new THEN [files EXCEPT ![f] = Starter] ELSE files)
        /\ store' = [store EXCEPT !.file = f, !.epoch = @ + 1, !.revision = 0]
        /\ Becomes("window", call)
    BY DEF OpenFile, Waits, Inv, Documents, histories, Early
  <1>2. w \in CommandCall /\ w.event = None /\ ~Shown
    BY <1>1, EarlyIsBare, Callers
  <1>3. /\ store'.file = f /\ store'.epoch = store.epoch + 1 /\ store'.revision = 0 /\ store'.closed = store.closed
        /\ store.epoch \in Nat /\ epoch \in Nat /\ doc \in Document
    <2>1. store \in Store
      BY <1>1 DEF Types
    <2>2. doc \in Document
      BY <1>1 DEF Types
    <2>. QED  BY <1>1, <2>1, <2>2, StoreOpens DEF Store
  <1>4. \A g \in File : files'[g].text = files[g].text \/ files'[g].text = 0
    BY <1>1 DEF Types, Starter
  <1>5. epoch = store'.epoch /\ doc = files'[f]
    OBVIOUS
  <1>. HIDE DEF epoch, doc
  <1>6. /\ call \in CommandCall /\ call.stage = "working" /\ call.file = f /\ call.doc = doc /\ call.epoch = epoch
        /\ call.kind = w.kind /\ call.to = w.to /\ call.event = w.event
    BY <1>2, <1>3, ZenonT(20) DEF CommandCall
  <1>. HIDE DEF call
  <1>7. now = call /\ (\A d \in Caller \ {"window"} : calls'[d] = calls[d]) /\ call # None
    BY <1>1, <1>6, BecomesRow, Callers, DesktopAssumption DEF Types
  <1>8. Typing' = Typing /\ (Shown' <=> Shown) /\ LastText' = LastText /\ LastText \in Nat
    BY <1>1, TextsInNat DEF Typing, Shown, LastText
  <1>9. \A d \in Caller : calls'[d] # None => calls'[d].event = None
    <2>1. \A d \in Caller : calls[d] # None => calls[d].event = None
      BY <1>1, NothingPending
    <2>. QED  BY <1>2, <1>6, <1>7, <2>1
  <1>10. Open'
    <2>1. \A d \in Caller : calls'[d] # None => Brings(calls'[d])
      BY <1>1, <1>6, <1>7 DEF Open, Brings
    <2>. HIDE DEF now
    <2>. QED  BY <1>1, <1>2, <1>3, <1>5, <1>6, <1>7, <1>8, <2>1 DEF Open, now
  <1>11. News'
    <2>1. \A e \in SessionEvents' : e.epoch <= store'.epoch /\ e.epoch # store'.epoch
      <3>1. \A e \in SessionEvents : e.epoch \in Nat /\ e.epoch <= store.epoch
        BY <1>1, TextsInNat DEF News, SessionNews
      <3>2. SessionEvents' = SessionEvents
        BY <1>1 DEF SessionEvents
      <3>. QED  BY <1>3, <3>1, <3>2
    <2>2. Loading(now)
      BY <1>1, <1>6, <1>7 DEF Loading
    <2>3. now.kind = "open"
      BY <1>1, <1>6, <1>7
    <2>4. calls'["window"] = None \/ calls'["desktop"] = None
          \/ calls'["window"].event = None \/ calls'["desktop"].event = None
      BY <1>9, Callers
    <2>. HIDE DEF now
    <2>. QED  BY <1>9, <2>1, <2>2, <2>3, <2>4 DEF News, now
  <1>12. Agreement'
    <2>. SUFFICES ASSUME ~crossed'  PROVE Agreement'
      BY DEF Agreement
    <2>1. \A g \in File : files'[g].text <= LastText'
      BY <1>1, <1>4, <1>8 DEF Agreement
    <2>2. now.doc.canon \in Nat /\ now.doc = files'[store'.file] /\ now.doc.canon = Canon'
      BY <1>3, <1>5, <1>6, <1>7 DEF Document, Canon
    <2>3. ~Choosing(now)
      BY <1>1, <1>6, <1>7 DEF Choosing
    <2>. HIDE DEF now
    <2>. QED  BY <1>2, <1>8, <2>1, <2>2, <2>3 DEF Agreement, Follows, now
  <1>. QED  BY <1>10, <1>11, <1>12 DEF Documents

\* Afterwards the revisions of the older document do not count.
LEMMA FinishOpenDocuments ==
  ASSUME Inv, Documents, Inv', FinishOpen
  PROVE  Documents'
  <1>. DEFINE w == calls["window"]
              a == Reordered(Captured(app))
              new == calls'["window"]
  <1>1. /\ Types /\ Types' /\ Open /\ News /\ Agreement /\ w # None /\ w.kind = "open" /\ w.stage = "working"
        /\ UNCHANGED <<life, documents, saves, page, left, crossed>>
    BY DEF FinishOpen, Works, Inv, Documents
  <1>2. /\ w \in CommandCall /\ w.event = None /\ w.doc # None /\ w.doc \in Document
    BY <1>1, CallFound, Callers DEF Sound, CommandCall
  <1>3. a \in Memory /\ a.published = 0
    <2>1. app \in Memory /\ store'.revision \in Nat
      BY <1>1 DEF Types, Store
    <2>. QED  BY <2>1 DEF Reordered, Captured, Memory
  <1>4. /\ \A d \in Caller \ {"window"} : calls'[d] = calls[d]
        /\ app'.published = 0 /\ SessionEvents' = SessionEvents
        /\ \/ new = None /\ w.to = "nobody"
           \/ /\ new # None /\ new.stage \notin {"asked", "working"} /\ new.kind = "open" /\ new.ok /\ new.event = None
              /\ new.to = w.to /\ new.file = w.file /\ new.epoch = w.epoch /\ new.doc = w.doc
    <2>1. CASE /\ app' = a /\ UNCHANGED <<coord, events>>
               /\ Answered("window", [w EXCEPT !.ok = TRUE])
      <3>. DEFINE call == [w EXCEPT !.ok = TRUE]
      <3>1. /\ call \in CommandCall /\ call.event = None /\ call.to = w.to /\ call.kind = w.kind /\ call.ok = TRUE
            /\ call.file = w.file /\ call.doc = w.doc /\ call.epoch = w.epoch
        BY <1>2, CallOk
      <3>2. Answered("window", call)
        BY <2>1
      <3>. HIDE DEF call
      <3>3. /\ \A d \in Caller \ {"window"} : calls'[d] = calls[d]
            /\ \/ new = None
               \/ /\ new \in CommandCall /\ new.stage = "answered" /\ new.kind = call.kind /\ new.to = call.to
                  /\ new.file = call.file /\ new.epoch = call.epoch /\ new.doc = call.doc /\ new.event = call.event
                  /\ new.ok = call.ok
        BY <1>1, <3>1, <3>2, AnsweredRow, Callers DEF Types
      <3>4. new = None => w.to = "nobody"
        BY <1>1, <3>1, <3>2, AnsweredToPage DEF Types
      <3>. QED  BY <1>1, <1>3, <2>1, <3>1, <3>3, <3>4, SessionEventsStay, DesktopAssumption
    <2>2. CASE /\ Commit([coord EXCEPT !.config = None, !.content = 0], a)
               /\ Becomes("window", [w EXCEPT !.stage = "publishing", !.ok = TRUE, !.state = coord'])
      <3>1. PICK state \in State : Becomes("window", [w EXCEPT !.stage = "publishing", !.ok = TRUE, !.state = state])
        BY <1>1, <2>2 DEF Types
      <3>. DEFINE call == [w EXCEPT !.stage = "publishing", !.ok = TRUE, !.state = state]
      <3>2. /\ call \in CommandCall /\ call.stage = "publishing" /\ call.ok = TRUE /\ call.kind = w.kind /\ call.to = w.to
            /\ call.file = w.file /\ call.epoch = w.epoch /\ call.doc = w.doc /\ call.event = w.event
        BY <1>2, CallPublishes
      <3>3. Becomes("window", call)
        BY <3>1
      <3>. HIDE DEF call
      <3>4. new = call /\ \A d \in Caller \ {"window"} : calls'[d] = calls[d]
        BY <1>1, <3>2, <3>3, BecomesRow, Callers DEF Types
      <3>5. SessionEvents' = SessionEvents /\ app'.published = 0
        BY <1>3, <2>2, CommitCalm DEF Commit, Published, Memory
      <3>. QED  BY <1>1, <1>2, <3>2, <3>4, <3>5, DesktopAssumption
    <2>. QED  BY <2>1, <2>2 DEF FinishOpen
  <1>5. /\ Canon' = Canon /\ Typing' = Typing /\ (Shown' <=> Shown) /\ LastText' = LastText
        /\ files' = files /\ store' = store
    BY <1>1 DEF Canon, Typing, Shown, LastText, documents
  <1>6. ~Shown /\ Opening(w)
    BY <1>1 DEF Open, Opening
  <1>7. Announced' <=> Announced
    <2>1. \A d \in Caller : (calls'[d] # None /\ calls'[d].event # None <=> calls[d] # None /\ calls[d].event # None)
                            /\ (calls[d] # None /\ calls[d].event # None => calls'[d] = calls[d])
      BY <1>2, <1>4
    <2>. QED  BY <1>4, <1>5, <2>1 DEF Announced
  <1>8. Open'
    <2>1. \A d \in Caller : calls'[d] # None => Brings(calls'[d])
      BY <1>1, <1>4 DEF Open, Brings
    <2>. HIDE DEF new
    <2>2. Opening(new) => new.file = store.file /\ new.epoch = store.epoch
      BY <1>1, <1>4, <1>6 DEF Open, Opening
    <2>. QED  BY <1>1, <1>5, <1>6, <2>1, <2>2 DEF Open, new
  <1>9. News'
    <2>1. 0 <= store.revision
      BY <1>1 DEF Types, Store
    <2>2. ASSUME NEW d \in Caller, calls'[d] # None, calls'[d].event # None  PROVE
            /\ calls'[d].event.epoch = store.epoch /\ calls'[d].event.doc.canon <= Canon
            /\ 0 < calls'[d].event.revision /\ calls'[d].event.revision <= store.revision
      <3>1. calls'[d] = calls[d] /\ calls[d] \in CommandCall
        BY <1>1, <1>2, <1>4, <2>2 DEF Types
      <3>2. Pending(calls[d].event) /\ calls[d].event \in SessionNews
        BY <1>1, <2>2, <3>1 DEF News, CommandCall
      <3>. QED  BY <1>1, <3>1, <3>2 DEF Pending, SessionNews, Types, Memory
    <2>3. calls'["window"] = None \/ calls'["desktop"] = None
          \/ calls'["window"].event = None \/ calls'["desktop"].event = None
      BY <1>4
    <2>4. new # None => new.kind = "open"
      BY <1>4
    <2>. HIDE DEF new
    <2>. QED  BY <1>1, <1>4, <1>5, <2>1, <2>2, <2>3, <2>4 DEF News, Pending, new
  <1>10. Agreement'
    <2>1. ~Choosing(new)
      BY <1>4 DEF Choosing
    <2>2. Opening(new) => new # None
      BY DEF Opening
    <2>3. new # None => new.to = w.to /\ new.doc = w.doc
      BY <1>4
    <2>. HIDE DEF new, w
    <2>. QED  BY <1>1, <1>5, <1>6, <1>7, <2>1, <2>2, <2>3 DEF Agreement, Follows, new, w
  <1>. QED  BY <1>8, <1>9, <1>10 DEF Documents

LEMMA AssociateDocuments ==
  ASSUME Inv, Documents, Inv', Associate
  PROVE  Documents'
  <1>. DEFINE w == calls["window"]
              now == calls'["window"]
  <1>1. /\ w # None /\ w.kind = "choose" /\ w.stage = "working" /\ Early(w)
        /\ UNCHANGED <<life, app, saves, events, page, crossed>>
        /\ UNCHANGED left \/ \E kind \in Kind : Used(kind)
    BY DEF Associate, Works, Early, Kind
  <1>2. CASE Refused("window") /\ UNCHANGED documents
    BY <1>1, <1>2, CommandCalm, CalmKeeps
  <1>3. CASE /\ Opened
             /\ files' = [files EXCEPT ![store.file].config = w.config]
             /\ store' = [store EXCEPT !.revision = @ + 1]
             /\ Becomes("window", [w EXCEPT !.stage = "associated", !.doc = files'[store.file]])
    <2>. DEFINE doc == files'[store.file]
                old == files[store.file]
                revision == store.revision + 1
                call == [w EXCEPT !.stage = "associated", !.doc = doc]
    <2>1. /\ Types /\ Types' /\ Open /\ News /\ Agreement
          /\ w \in CommandCall /\ w.event = None /\ w.doc = None /\ w.config \in Config
          /\ store.file \in File /\ store \in Store /\ files \in [File -> Document]
      BY <1>1, <1>3, EarlyIsBare, CallFound, Callers DEF Documents, Inv, Opened, Types, Store, Sound
    <2>2. /\ doc \in Document /\ doc # None /\ doc.text = old.text /\ doc.canon = old.canon
          /\ \A f \in File : files'[f].text = files[f].text
      <3>. DEFINE new == [old EXCEPT !.config = w.config]
      <3>1. files' = [files EXCEPT ![store.file] = new] /\ old \in Document
        BY <1>3, <2>1
      <3>2. new \in Document /\ new.text = old.text /\ new.canon = old.canon
        BY <2>1, <3>1 DEF Document
      <3>. HIDE DEF new
      <3>. QED  BY <2>1, <3>1, <3>2, DesktopAssumption
    <2>3. /\ store'.file = store.file /\ store'.epoch = store.epoch /\ store'.closed = store.closed
          /\ store'.revision = store.revision + 1 /\ store.revision \in Nat
      BY <1>3, <2>1 DEF Store
    <2>4. Becomes("window", call) /\ files'[store'.file] = doc
      BY <1>3, <2>3
    <2>. HIDE DEF doc, revision
    <2>5. /\ call \in CommandCall /\ call.stage = "associated" /\ call.doc = doc /\ call.kind = "choose"
          /\ call.to = w.to /\ call.event = None
      BY <1>1, <2>1, <2>2, ZenonT(20) DEF CommandCall
    <2>. HIDE DEF call
    <2>6. now = call /\ (\A d \in Caller \ {"window"} : calls'[d] = calls[d]) /\ call # None
      BY <2>1, <2>4, <2>5, BecomesRow, Callers, DesktopAssumption DEF Types
    <2>7. /\ Typing' = Typing /\ (Shown' <=> Shown) /\ Canon' = Canon /\ Canon \in Nat /\ SessionEvents' = SessionEvents
          /\ LastText <= LastText' /\ app.published \in Nat
      BY <1>1, <2>1, <2>2, <2>4, UsedText, TextsInNat DEF Typing, Shown, Canon, SessionEvents, Types, Memory
    <2>8. /\ \A d \in Caller : calls'[d] # None /\ calls'[d].event # None => calls[d] # None /\ calls'[d] = calls[d]
          /\ \A d \in Caller : calls[d] # None /\ calls[d].event # None => calls'[d] = calls[d]
      BY <2>1, <2>5, <2>6
    <2>9. Announced' <=> Announced
      BY <2>3, <2>7, <2>8 DEF Announced
    <2>10. Open'
      <3>1. \A d \in Caller : calls'[d] # None => Brings(calls'[d])
        BY <2>1, <2>5, <2>6 DEF Open, Brings
      <3>2. ~Opening(now)
        BY <2>5, <2>6 DEF Opening
      <3>3. now.to = "nobody" => ~Shown
        BY <1>1, <2>1, <2>5, <2>6 DEF Open
      <3>4. now.kind = "choose"
        BY <2>5, <2>6
      <3>. HIDE DEF now
      <3>. QED  BY <1>1, <2>1, <2>3, <2>7, <3>1, <3>2, <3>3, <3>4 DEF Open, now
    <2>11. News'
      <3>1. app.published <= store.revision
        BY <1>1, <2>1 DEF News, Loading
      <3>2. ASSUME NEW d \in Caller, calls'[d] # None, calls'[d].event # None  PROVE
              /\ calls'[d].event.epoch = store'.epoch /\ calls'[d].event.doc.canon <= Canon'
              /\ app'.published < calls'[d].event.revision /\ calls'[d].event.revision <= store'.revision
        <4>1. Pending(calls[d].event) /\ calls[d] # None /\ calls'[d] = calls[d] /\ calls[d].event \in SessionNews
          BY <2>1, <2>8, <3>2 DEF News, Types, CommandCall
        <4>. QED  BY <1>1, <2>3, <2>7, <4>1 DEF Pending, SessionNews
      <3>3. calls'["window"] = None \/ calls'["desktop"] = None
            \/ calls'["window"].event = None \/ calls'["desktop"].event = None
        BY <2>5, <2>6
      <3>4. now.doc.canon <= Canon'
        BY <2>2, <2>5, <2>6, <2>7 DEF Canon
      <3>5. \A e \in SessionEvents' : e.epoch <= store'.epoch /\ (e.epoch = store'.epoch => e.doc.canon <= Canon')
        BY <2>1, <2>3, <2>7 DEF News
      <3>6. app'.published <= store'.revision
        BY <1>1, <2>3, <2>7, <3>1
      <3>. HIDE DEF now
      <3>. QED  BY <3>2, <3>3, <3>4, <3>5, <3>6 DEF News, Pending, now
    <2>12. Agreement'
      <3>. SUFFICES ASSUME ~crossed'  PROVE Agreement'
        BY DEF Agreement
      <3>1. ~crossed
        BY <1>1
      <3>2. \A f \in File : files'[f].text <= LastText'
        BY <2>1, <2>2, <2>7, <3>1, TextsInNat, LastInNat DEF Agreement
      <3>3. Choosing(now) /\ ~Opening(now)
        BY <2>2, <2>5, <2>6 DEF Choosing, Opening
      <3>4. now.doc = doc
        BY <2>5, <2>6
      <3>5. ASSUME Shown  PROVE
              /\ page.doc.text <= LastText' /\ (\A text \in Typing : text <= page.doc.text)
              /\ page.doc.text = doc.text \/ page.doc.text \in Typing
              /\ Follows(page.doc)
        <4>1. page.doc \in Document
          BY <2>1, <3>5 DEF Types, Page, Inv, Stages, Shown
        <4>2. page.doc.text \in Nat /\ LastText \in Nat /\ LastText' \in Nat
          BY <2>1, <4>1, TextsInNat, LastInNat
        <4>. QED  BY <2>1, <2>2, <2>7, <3>1, <3>5, <4>2 DEF Agreement
      <3>. HIDE DEF now
      <3>. QED  BY <1>1, <2>4, <2>7, <2>9, <3>2, <3>3, <3>4, <3>5 DEF Agreement, Follows, now
    <2>. QED  BY <2>10, <2>11, <2>12 DEF Documents
  <1>. QED  BY <1>2, <1>3 DEF Associate

-----------------------------------------------------------------------------
(* The edits of the page and their saves.                                   *)

LEMMA EditDocuments ==
  ASSUME Inv, Documents, Inv', Edit
  PROVE  Documents'
  <1>. DEFINE text == Budget["edit"] - left.each["edit"] + 1
              doc == [page.doc EXCEPT !.text = text]
              invocation == page.invocation + 1
              new == [page EXCEPT !.doc = doc, !.invocation = invocation]
              save == [doc |-> page'.doc, invocation |-> page'.invocation, stage |-> "sent", number |-> 0, live |-> TRUE]
  <1>1. /\ Types /\ Types' /\ Open /\ News /\ Agreement
        /\ page # None /\ page.file # None /\ Used("edit") /\ page' = new /\ saves' = saves \cup {save}
        /\ page \in Page /\ page.doc # None
        /\ UNCHANGED <<life, documents, app, calls, events, crossed>>
    BY DEF Edit, Inv, Types, Stages, Documents
  <1>2. /\ page.doc \in Document /\ invocation \in Nat /\ text \in Nat
        /\ text = LastText + 1 /\ LastText \in Nat /\ LastText' = LastText + 1
    <2>1. /\ "edit" \in Kind /\ Budget["edit"] \in Nat /\ left.each \in [Kind -> Nat] /\ left.each["edit"] \in Nat
          /\ left.each["edit"] <= Budget["edit"]
      BY <1>1, DesktopAssumption DEF Kind, Types, Left
    <2>2. left'.each["edit"] = left.each["edit"] - 1
      BY <1>1, <2>1 DEF Used
    <2>. QED  BY <1>1, <2>1, <2>2 DEF Page, LastText
  <1>. HIDE DEF text, invocation
  <1>3. doc \in Document /\ doc.text = text /\ doc.config = page.doc.config /\ doc.canon = page.doc.canon
    BY <1>2 DEF Document
  <1>. HIDE DEF doc
  <1>4. page'.doc = doc /\ page'.file = page.file /\ page'.epoch = page.epoch
    BY <1>1, <1>2, <1>3 DEF Page
  <1>5. save.doc.text = text /\ save.live /\ save.stage = "sent"
    BY <1>3, <1>4
  <1>6. page' # None
    BY <1>1, <1>2, <1>3, DesktopAssumption DEF Page
  <1>. HIDE DEF new, save
  <1>7. Shown /\ Shown'
    BY <1>1, <1>4, <1>6 DEF Shown
  <1>8. Typing' = Typing \cup {text}
    <2>1. Typing' \subseteq Typing \cup {text}
      BY <1>1, <1>5 DEF Typing
    <2>2. Typing \subseteq Typing'
      BY <1>1 DEF Typing
    <2>3. text \in Typing'
      BY <1>1, <1>5 DEF Typing
    <2>. QED  BY <2>1, <2>2, <2>3
  <1>9. Canon' = Canon /\ SessionEvents' = SessionEvents /\ (Announced' <=> Announced)
    BY <1>1 DEF Canon, SessionEvents, Announced, documents
  <1>10. Open'
    BY <1>1, <1>4, <1>7 DEF Open, documents
  <1>11. News'
    BY <1>1, <1>9 DEF News, Pending, documents
  <1>12. Agreement'
    <2>. SUFFICES ASSUME ~crossed'  PROVE Agreement'
      BY DEF Agreement
    <2>1. ~crossed
      BY <1>1
    <2>2. \A f \in File : files'[f].text <= LastText'
      BY <1>1, <1>2, <2>1, TextsInNat DEF Agreement, documents
    <2>3. \A t \in Typing' : t <= text
      <3>1. \A t \in Typing : t \in Nat /\ t <= page.doc.text
        BY <1>1, <1>7, <2>1, TextsInNat DEF Agreement
      <3>2. page.doc.text <= LastText /\ page.doc.text \in Nat
        BY <1>1, <1>2, <1>7, <2>1, TextsInNat DEF Agreement
      <3>. QED  BY <1>2, <1>8, <3>1, <3>2
    <2>4. page'.doc.text \in Typing' /\ page'.doc.text <= LastText' /\ page'.doc.text = text
      BY <1>2, <1>3, <1>4, <1>8
    <2>5. page.doc.config = files[store.file].config \/ Choosing(calls["window"])
      BY <1>1, <1>7, <2>1 DEF Agreement
    <2>6. Follows(page.doc)
      BY <1>1, <1>7, <2>1 DEF Agreement
    <2>7. ~(Opening(calls["window"]) /\ calls["window"].to = "page")
      BY <1>1, <1>7 DEF Open, Opening
    <2>8. Choosing(calls["window"]) => calls["window"].doc.config = files[store.file].config
      BY <1>1, <2>1 DEF Agreement
    <2>9. page'.doc.config = page.doc.config /\ page'.doc.canon = page.doc.canon
      BY <1>3, <1>4
    <2>. QED  BY <1>1, <1>9, <2>2, <2>3, <2>4, <2>5, <2>6, <2>7, <2>8, <2>9 DEF Agreement, Follows, documents
  <1>. QED  BY <1>10, <1>11, <1>12 DEF Documents

\* A save that nobody waits for says nothing of what the page has sent.
LEMMA KeepSaveDocuments ==
  ASSUME Inv, Documents, Inv', NEW s \in saves, KeepSave(s)
  PROVE  Documents'
  <1>1. /\ Types /\ Types' /\ Listening /\ Open /\ News /\ Agreement /\ s.stage = "numbered" /\ s \in SaveCall
        /\ UNCHANGED <<life, app, calls, events, page, left>>
    BY DEF KeepSave, Inv, Types, Documents
  <1>2. s.live => s.doc.text \in Typing /\ Shown
    BY <1>1 DEF Typing, Open
  <1>3. CASE ~Opened /\ saves' = saves \ {s} /\ UNCHANGED <<documents, crossed>>
    <2>1. ~s.live
      <3>. SUFFICES ASSUME s.live  PROVE FALSE
        OBVIOUS
      <3>1. Up /\ page.file = store.file /\ page.file # None
        BY <1>1, <1>2 DEF Shown, Open, Listening
      <3>2. life.phase \in Ended \cup {"stopping"}
        BY <1>1, <1>3, <3>1 DEF Opened, Open
      <3>. QED  BY <3>1, <3>2 DEF Up, Ended
    <2>2. Typing' = Typing
      BY <1>3, <2>1 DEF Typing
    <2>3. Calm
      <3>1. LastText <= LastText'
        BY <1>1, UsedText
      <3>2. store.closed => life.phase \in Ended \cup {"stopping"}
        BY <1>1 DEF Open
      <3>. QED  BY <1>1, <1>3, <2>2, <3>1, <3>2, AllContinue, SessionEventsStay DEF Calm, documents, Shown
    <2>. QED  BY <2>3, CalmKeeps
  <1>4. CASE Opened
    <2>. DEFINE old == files[store.file]
                canon == old.canon
                doc == [s.doc EXCEPT !.canon = canon]
                number == EffectiveRevision(s.number)
                revision == store'.revision
                new == [s EXCEPT !.stage = "kept", !.number = revision]
    <2>1. /\ files' = [files EXCEPT ![store.file] = doc] /\ store' = [store EXCEPT !.revision = number]
          /\ saves' = (saves \ {s}) \cup (IF s.live THEN {new} ELSE {})
          /\ crossed' = (crossed \/ ~s.live \/ s.doc.text < files[store.file].text \/ s.doc.config # files[store.file].config)
      BY <1>4 DEF KeepSave
    <2>2. /\ store \in Store /\ store.file \in File /\ files \in [File -> Document] /\ s.doc \in Document /\ canon \in Nat
          /\ number \in Nat /\ store.revision \in Nat /\ store.revision <= number /\ old \in Document
      BY <1>1, <1>4 DEF Types, Store, Opened, Document, SaveCall, EffectiveRevision
    <2>. HIDE DEF canon, number
    <2>3. doc \in Document /\ doc.config = s.doc.config /\ doc.text = s.doc.text /\ doc.canon = canon
      BY <2>2 DEF Document
    <2>. HIDE DEF doc
    <2>4. files'[store.file] = doc /\ \A f \in File \ {store.file} : files'[f] = files[f]
      BY <2>1, <2>2, <2>3
    <2>5. store'.file = store.file /\ store'.epoch = store.epoch /\ store'.closed = store.closed /\ revision = number
      BY <2>1, <2>2 DEF Store
    <2>. HIDE DEF revision
    <2>6. new.stage = "kept"
      BY <1>1 DEF SaveCall
    <2>. HIDE DEF new
    <2>7. /\ Canon' = Canon /\ Canon \in Nat /\ SessionEvents' = SessionEvents
          /\ (Shown' <=> Shown) /\ LastText' = LastText /\ LastText \in Nat
      BY <1>1, <2>2, <2>3, <2>4, <2>5, TextsInNat DEF Canon, canon, SessionEvents, Shown, LastText
    <2>8. Typing' \subseteq Typing /\ (\A text \in Typing : text \in Typing' \/ (s.live /\ text = s.doc.text))
      <3>1. Typing' \subseteq Typing
        BY <2>1, <2>6 DEF Typing
      <3>2. ASSUME NEW t \in saves, t.live, t.stage # "kept"  PROVE t.doc.text \in Typing' \/ (s.live /\ t.doc.text = s.doc.text)
        <4>1. CASE t = s
          BY <3>2, <4>1
        <4>2. CASE t # s
          <5>1. t \in saves'
            BY <2>1, <3>2, <4>2
          <5>. QED  BY <3>2, <5>1 DEF Typing
        <4>. QED  BY <4>1, <4>2
      <3>. QED  BY <3>1, <3>2 DEF Typing
    <2>9. Announced' <=> Announced
      BY <1>1, <2>5, <2>7 DEF Announced
    <2>10. Open'
      <3>1. Typing' # {} => Shown
        BY <1>1, <2>8 DEF Open
      <3>. QED  BY <1>1, <2>5, <2>7, <3>1 DEF Open
    <2>11. News'
      <3>1. ASSUME NEW c \in Caller, calls[c] # None, calls[c].event # None  PROVE
              /\ calls[c].event.epoch = store.epoch /\ calls[c].event.doc.canon <= Canon
              /\ app.published < calls[c].event.revision /\ calls[c].event.revision <= number
        <4>1. Pending(calls[c].event) /\ calls[c].event.revision \in Nat
          BY <1>1, <3>1 DEF News, Types, CommandCall, SessionNews
        <4>. QED  BY <2>2, <4>1 DEF Pending
      <3>2. Loading(calls["window"]) \/ app.published <= number
        <4>1. app.published \in Nat
          BY <1>1 DEF Types, Memory
        <4>. QED  BY <1>1, <2>2, <4>1 DEF News
      <3>. QED  BY <1>1, <2>5, <2>7, <3>1, <3>2 DEF News, Pending, revision
    <2>12. Agreement'
      <3>. SUFFICES ASSUME ~crossed'  PROVE Agreement'
        BY DEF Agreement
      <3>1. ~crossed /\ s.live /\ ~(s.doc.text < old.text) /\ doc.config = old.config /\ doc.text = s.doc.text
        BY <2>1, <2>3
      <3>2. /\ page.doc.text <= LastText /\ (\A text \in Typing : text <= page.doc.text)
            /\ page.doc.text = old.text \/ page.doc.text \in Typing
            /\ page.doc.config = old.config \/ Choosing(calls["window"])
            /\ Follows(page.doc)
        BY <1>1, <1>2, <3>1 DEF Agreement
      <3>3. page.doc \in Document
        BY <1>1, <1>2, <3>1 DEF Types, Page, Inv, Stages, Shown
      <3>4. s.doc.text \in Nat /\ page.doc.text \in Nat /\ old.text \in Nat
        BY <2>2, <3>3, TextsInNat, <1>1
      <3>5. s.doc.text <= page.doc.text
        BY <1>2, <3>1, <3>2
      <3>6. \A f \in File : files'[f].text <= LastText
        <4>1. doc.text <= LastText
          BY <2>7, <3>1, <3>2, <3>4, <3>5
        <4>. QED  BY <1>1, <2>4, <3>1, <4>1 DEF Agreement
      <3>7. page.doc.text = doc.text \/ page.doc.text \in Typing'
        <4>1. CASE page.doc.text = old.text
          BY <3>1, <3>4, <3>5, <4>1
        <4>2. CASE page.doc.text \in Typing
          BY <2>8, <3>1, <4>2
        <4>. QED  BY <3>2, <4>1, <4>2
      <3>8. ~(Opening(calls["window"]) /\ calls["window"].to = "page")
        BY <1>1, <1>2, <3>1 DEF Open, Opening
      <3>9. Choosing(calls["window"]) => calls["window"].doc.config = old.config
        BY <1>1, <3>1 DEF Agreement
      <3>. HIDE DEF old
      <3>. QED  BY <1>1, <2>4, <2>5, <2>7, <2>8, <2>9, <3>1, <3>2, <3>6, <3>7, <3>8, <3>9 DEF Agreement, Follows
    <2>. QED  BY <2>10, <2>11, <2>12 DEF Documents
  <1>. QED  BY <1>3, <1>4 DEF KeepSave

-----------------------------------------------------------------------------
(* What the page is told.                                                   *)

\* Nobody listens any more.
LEMMA ForgottenDocuments ==
  ASSUME Inv, Documents, Inv', saves' = Forgotten, calls' = [calls EXCEPT !["window"] = Deaf(@)],
         events' = {}, page' = None \/ page'.file = None, UNCHANGED <<documents, app, crossed>>,
         life'.phase = life.phase \/ life'.phase = "stopping", LastText <= LastText'
  PROVE  Documents'
  <1>. DEFINE w == calls["window"]
              new == [w EXCEPT !.to = "nobody"]
              now == calls'["window"]
  <1>1. Types /\ Types' /\ Open /\ News /\ Agreement
    BY DEF Inv, Documents
  <1>2. /\ calls'["desktop"] = calls["desktop"]
        /\ \/ now = None /\ (w = None \/ w.stage = "answered")
           \/ /\ now # None /\ w # None /\ now.to = "nobody" /\ now.kind = w.kind /\ now.stage = w.stage /\ now.file = w.file
              /\ now.epoch = w.epoch /\ now.ok = w.ok /\ now.doc = w.doc /\ now.event = w.event
    <2>1. Becomes("window", Deaf(w))
      BY DEF Becomes
    <2>2. CASE w = None \/ w.stage = "answered"
      <3>1. Deaf(w) = None
        BY <2>2 DEF Deaf
      <3>. QED  BY <1>1, <2>1, <2>2, <3>1, BecomesRow, Callers DEF Types
    <2>3. CASE ~(w = None \/ w.stage = "answered")
      <3>1. /\ new \in CommandCall /\ new.to = "nobody" /\ new.kind = w.kind /\ new.stage = w.stage /\ new.file = w.file
            /\ new.epoch = w.epoch /\ new.ok = w.ok /\ new.doc = w.doc /\ new.event = w.event
        BY <2>3, CallFound, CallDeaf, Callers
      <3>2. Deaf(w) = new
        BY <2>3 DEF Deaf
      <3>. HIDE DEF new
      <3>3. now = new /\ calls'["desktop"] = calls["desktop"] /\ new # None
        BY <1>1, <2>1, <3>1, <3>2, BecomesRow, Callers, DesktopAssumption DEF Types
      <3>. QED  BY <2>3, <3>1, <3>3
    <2>. QED  BY <2>2, <2>3
  <1>3. ~Shown' /\ Typing' = {} /\ SessionEvents' = {} /\ Canon' = Canon
    <2>1. \A t \in saves' : ~t.live
      BY ForgottenRow
    <2>. QED  BY <2>1 DEF Shown, Typing, SessionEvents, Canon, documents
  <1>4. /\ Opening(now) => Opening(w)
        /\ Loading(w) => Loading(now)
        /\ Choosing(now) => Choosing(w) /\ now.doc = w.doc
        /\ now # None => now.to = "nobody"
        /\ now # None => w # None /\ now.event = w.event /\ now.kind = w.kind /\ now.doc = w.doc
    BY <1>2 DEF Opening, Loading, Choosing
  <1>5. Open'
    <2>1. \A d \in Caller : calls'[d] # None => Brings(calls'[d])
      BY <1>1, <1>2, Callers DEF Open, Brings
    <2>2. Opening(now) => now.file = store.file /\ now.epoch = store.epoch
      BY <1>1, <1>2, <1>4 DEF Open, Opening
    <2>. HIDE DEF now
    <2>. QED  BY <1>1, <1>3, <2>1, <2>2 DEF Open, now, documents
  <1>6. News'
    <2>1. \A d \in Caller : calls'[d] # None /\ calls'[d].event # None => Pending(calls'[d].event)
      BY <1>1, <1>2, Callers DEF News
    <2>2. now # None /\ now.doc # None /\ now.kind # "open" => now.doc.canon <= Canon
      BY <1>1, <1>4 DEF News
    <2>3. now = None \/ calls'["desktop"] = None \/ now.event = None \/ calls'["desktop"].event = None
      BY <1>1, <1>2, <1>4 DEF News
    <2>4. Loading(now) \/ app.published <= store.revision
      BY <1>1, <1>4 DEF News
    <2>. HIDE DEF now
    <2>. QED  BY <1>3, <2>1, <2>2, <2>3, <2>4 DEF News, Pending, now, documents
  <1>7. Agreement'
    <2>. SUFFICES ASSUME ~crossed'  PROVE Agreement'
      BY DEF Agreement
    <2>1. \A f \in File : files'[f].text <= LastText'
      BY <1>1, TextsInNat, LastInNat DEF Agreement, documents
    <2>2. Choosing(now) => now.doc.config = files[store.file].config
      BY <1>1, <1>4 DEF Agreement
    <2>3. ~(Opening(now) /\ now.to = "page")
      BY <1>4 DEF Opening
    <2>. HIDE DEF now
    <2>. QED  BY <1>3, <2>1, <2>2, <2>3 DEF Agreement, now, documents
  <1>. QED  BY <1>5, <1>6, <1>7 DEF Documents

LEMMA LoadPageDocuments ==
  ASSUME Inv, Documents, Inv', LoadPage
  PROVE  Documents'
  <1>1. /\ saves' = Forgotten /\ calls' = [calls EXCEPT !["window"] = Deaf(@)] /\ events' = {}
        /\ page' = Blank /\ UNCHANGED <<life, documents, app, crossed>>
        /\ UNCHANGED left \/ \E kind \in Kind : Used(kind)
    BY DEF LoadPage, Kind
  <1>2. LastText <= LastText'
    BY <1>1, UsedText DEF Inv
  <1>3. page'.file = None
    BY <1>1 DEF Blank
  <1>. QED  BY <1>1, <1>2, <1>3, ForgottenDocuments

LEMMA ShutdownDocuments ==
  ASSUME Inv, Documents, Inv', Shutdown
  PROVE  Documents'
  <1>1. /\ saves' = Forgotten /\ calls' = [calls EXCEPT !["window"] = Deaf(@)] /\ events' = {}
        /\ page' = None /\ UNCHANGED <<documents, app, crossed>> /\ Used("shutdown")
        /\ life' = [life EXCEPT !.phase = "stopping", !.at = "access", !.preserve = FALSE, !.failed = {}]
    BY DEF Shutdown
  <1>2. LastText <= LastText'
    BY <1>1, UsedText DEF Inv, Kind
  <1>3. life'.phase = "stopping"
    BY <1>1 DEF Inv, Types, Life
  <1>. QED  BY <1>1, <1>2, <1>3, ForgottenDocuments

LEMMA TakeSessionDocuments ==
  ASSUME Inv, Documents, Inv', NEW event \in events, TakeSession(event)
  PROVE  Documents'
  <1>. DEFINE new == [page EXCEPT !.doc = event.doc, !.durable = event.revision]
              w == calls["window"]
  <1>1. /\ Types /\ Open /\ News /\ Agreement
        /\ event.kind = "session" /\ events' = events \ {event} /\ event \in SessionNews
        /\ page \in Page /\ page # None
        /\ UNCHANGED <<life, documents, app, calls, saves, left>>
        /\ \/ /\ TakesSession(event) /\ page' = new
              /\ crossed' = (crossed \/ event.epoch # page.epoch \/ Crosses(event.doc))
           \/ /\ ~TakesSession(event) /\ page' = page
              /\ crossed' = (crossed \/ IF page.file = None THEN w # None
                                        ELSE event.epoch = page.epoch /\ event.doc.canon > page.doc.canon)
    BY SaidRow DEF TakeSession, Inv, Documents
  <1>2. new.doc = event.doc /\ new.file = page.file /\ new.epoch = page.epoch /\ new # None
    <2>1. new \in Page
      BY <1>1 DEF SessionNews, Page
    <2>. QED  BY <1>1, <2>1, DesktopAssumption DEF Page
  <1>. HIDE DEF new
  <1>3. (Shown' <=> Shown) /\ page'.file = page.file /\ page'.epoch = page.epoch
    BY <1>1, <1>2 DEF Shown
  <1>4. /\ SessionEvents' = SessionEvents \ {event} /\ event \in SessionEvents
        /\ Canon' = Canon /\ Typing' = Typing /\ LastText' = LastText
    BY <1>1 DEF SessionEvents, Canon, Typing, LastText, documents
  <1>5. Announced /\ ~(event.epoch = store.epoch /\ event.doc.canon = Canon) => Announced'
    BY <1>1, <1>4 DEF Announced, documents
  <1>6. Open'
    BY <1>1, <1>3, <1>4 DEF Open, documents
  <1>7. News'
    BY <1>1, <1>4 DEF News, Pending, documents
  <1>8. Agreement'
    <2>. SUFFICES ASSUME ~crossed'  PROVE Agreement'
      BY DEF Agreement
    <2>1. ~crossed
      BY <1>1
    <2>2. ~(Opening(w) /\ w.to = "page")
      <3>. SUFFICES ASSUME Opening(w)  PROVE FALSE
        OBVIOUS
      <3>1. w # None /\ ~Shown
        BY <1>1 DEF Open, Opening
      <3>. QED  BY <1>1, <3>1 DEF Shown, TakesSession
    <2>3. ASSUME Shown  PROVE
            /\ page'.doc.text <= LastText /\ (\A text \in Typing : text <= page'.doc.text)
            /\ page'.doc.text = files[store.file].text \/ page'.doc.text \in Typing
            /\ page'.doc.config = files[store.file].config \/ Choosing(w)
            /\ page'.doc.canon <= Canon /\ (page'.doc.canon = Canon \/ Announced')
      <3>1. /\ page.doc.text <= LastText /\ (\A text \in Typing : text <= page.doc.text)
            /\ page.doc.text = files[store.file].text \/ page.doc.text \in Typing
            /\ page.doc.config = files[store.file].config \/ Choosing(w)
            /\ page.doc.canon <= Canon /\ (page.doc.canon = Canon \/ Announced)
            /\ page.epoch = store.epoch /\ page.file # None /\ page.file = store.file
        BY <1>1, <2>1, <2>3 DEF Agreement, Follows, Open, Shown
      <3>2. page.doc \in Document /\ event.doc \in Document /\ store.file \in File
        BY <1>1, <2>3, <3>1 DEF Page, Inv, Stages, Shown, SessionNews
      <3>3. page.doc.canon \in Nat /\ event.doc.canon \in Nat /\ Canon \in Nat
        BY <1>1, <3>2, TextsInNat DEF Canon
      <3>4. CASE ~TakesSession(event)
        <4>1. page' = page /\ ~(event.epoch = page.epoch /\ event.doc.canon > page.doc.canon)
          BY <1>1, <3>1, <3>4
        <4>2. page.doc.canon = Canon \/ Announced'
          BY <1>5, <3>1, <3>3, <4>1
        <4>. QED  BY <3>1, <4>1, <4>2
      <3>5. CASE TakesSession(event)
        <4>1. page'.doc = event.doc /\ event.epoch = store.epoch /\ ~Crosses(event.doc)
          BY <1>1, <1>2, <3>1, <3>5
        <4>2. /\ event.doc.text = page.doc.text /\ ~(event.doc.canon < page.doc.canon)
              /\ event.doc.config \in {page.doc.config, files[store.file].config}
          BY <4>1 DEF Crosses
        <4>3. event.doc.canon <= Canon
          BY <1>1, <1>4, <4>1 DEF News
        <4>4. event.doc.canon = Canon \/ Announced'
          BY <1>5, <3>1, <3>3, <4>2, <4>3
        <4>. QED  BY <3>1, <4>1, <4>2, <4>3, <4>4
      <3>. QED  BY <3>4, <3>5
    <2>4. Choosing(w) => w.doc.config = files[store.file].config
      BY <1>1, <2>1 DEF Agreement
    <2>5. \A f \in File : files[f].text <= LastText
      BY <1>1, <2>1 DEF Agreement
    <2>. QED  BY <1>1, <1>3, <1>4, <2>2, <2>3, <2>4, <2>5 DEF Agreement, Follows, documents
  <1>. QED  BY <1>6, <1>7, <1>8 DEF Documents

\* loadSession: the page shows the document it is answered with, which is the open one.
LEMMA TakeOpenedDocuments ==
  ASSUME Inv, Documents, Inv', TakeOpened
  PROVE  Documents'
  <1>. DEFINE w == calls["window"]
              now == calls'["window"]
              new == [page EXCEPT !.file = w.file, !.epoch = w.epoch, !.doc = w.doc, !.durable = 0, !.rendered = 0, !.invocation = 0]
              load == Call("load", "asked")
  <1>1. /\ Types /\ Open /\ News /\ Agreement /\ w # None /\ w.stage = "answered" /\ w.kind = "open"
        /\ UNCHANGED <<life, documents, app, saves, events, left, crossed>>
        /\ \/ w.ok /\ page' = new /\ (Becomes("window", None) \/ Becomes("window", load))
           \/ ~w.ok /\ page' = page /\ Becomes("window", None)
    BY DEF TakeOpened, Inv, Documents, histories
  <1>2. /\ w \in CommandCall /\ Sound(w) /\ w.event = None /\ w.to = "page" /\ page # None /\ page \in Page /\ ~Shown
    BY <1>1, CallFound, Callers DEF Inv, Listening, Sound, Types, Open
  <1>3. load \in CommandCall /\ load.doc = None /\ load.event = None /\ load.kind = "load" /\ load.to = "page" /\ load # None
    <2>1. load \in CommandCall
      BY DEF Call, CommandCall
    <2>2. load.doc = None /\ load.event = None /\ load.kind = "load" /\ load.to = "page"
      BY DEF Call
    <2>. HIDE DEF load
    <2>. QED  BY <2>1, <2>2, DesktopAssumption
  <1>. HIDE DEF load
  <1>4. (now = None \/ now = load) /\ (~w.ok => now = None) /\ \A d \in Caller \ {"window"} : calls'[d] = calls[d]
    BY <1>1, <1>3, BecomesRow, Callers DEF Types
  <1>5. CASE ~w.ok
    <2>1. page' = page /\ now = None /\ Plain(w) /\ Bare(now)
      BY <1>1, <1>2, <1>4, <1>5 DEF Plain, Bare, Loading, Choosing
    <2>2. Continues("window")
      BY <2>1 DEF Continues
    <2>3. \A d \in Caller : Continues(d)
      BY <1>4, <2>2, OneContinues, Callers
    <2>4. Calm
      BY <1>1, <2>1, <2>3, RestsCalm, SessionEventsStay
    <2>. QED  BY <2>4, CalmKeeps
  <1>6. CASE w.ok
    <2>1. /\ page' = new /\ w.file \in File /\ w.doc \in Document /\ w.epoch \in Nat
          /\ w.file = store.file /\ w.epoch = store.epoch
      BY <1>1, <1>2, <1>6 DEF Sound, CommandCall, Open, Opening
    <2>2. new \in Page /\ new.file = w.file /\ new.epoch = w.epoch /\ new.doc = w.doc
      BY <1>2, <2>1 DEF Page
    <2>. HIDE DEF new
    <2>3. /\ page' # None /\ page'.file = store.file /\ page'.epoch = store.epoch /\ page'.doc = w.doc /\ store.file # None
      BY <2>1, <2>2, DesktopAssumption
    <2>4. /\ Typing = {} /\ Typing' = {} /\ Canon' = Canon /\ LastText' = LastText /\ SessionEvents' = SessionEvents
      BY <1>1, <1>2 DEF Open, Typing, Canon, LastText, SessionEvents, documents
    <2>5. \A d \in Caller : /\ calls'[d] # None /\ calls'[d].event # None => calls[d] # None /\ calls'[d] = calls[d]
                            /\ calls[d] # None /\ calls[d].event # None => calls'[d] = calls[d]
      BY <1>2, <1>3, <1>4
    <2>6. Announced' <=> Announced
      BY <1>1, <2>4, <2>5 DEF Announced, documents
    <2>7. ~Opening(now) /\ ~Choosing(now) /\ (now # None => now.kind # "open" /\ now.to # "nobody" /\ now.doc = None)
      BY <1>3, <1>4 DEF Opening, Choosing
    <2>8. Open'
      <3>1. \A d \in Caller : calls'[d] # None => Brings(calls'[d])
        BY <1>1, <1>3, <1>4 DEF Open, Brings
      <3>. HIDE DEF now
      <3>. QED  BY <1>1, <2>3, <2>4, <2>7, <3>1 DEF Open, now, documents
    <2>9. News'
      <3>1. app.published <= store.revision
        BY <1>1 DEF News, Loading
      <3>2. \A d \in Caller : calls'[d] # None /\ calls'[d].event # None => Pending(calls'[d].event)
        BY <1>1, <2>5 DEF News
      <3>3. now = None \/ calls'["desktop"] = None \/ now.event = None \/ calls'["desktop"].event = None
        BY <1>3, <1>4
      <3>. HIDE DEF now
      <3>. QED  BY <1>1, <2>4, <2>7, <3>1, <3>2, <3>3 DEF News, Pending, now, documents
    <2>10. Agreement'
      <3>. SUFFICES ASSUME ~crossed'  PROVE Agreement'
        BY DEF Agreement
      <3>1. /\ w.doc.text = files[store.file].text /\ w.doc.config = files[store.file].config /\ Follows(w.doc)
            /\ \A f \in File : files[f].text <= LastText
        BY <1>1, <1>2, <1>6 DEF Agreement, Opening
      <3>2. w.doc.text <= LastText
        BY <2>1, <3>1
      <3>. HIDE DEF now
      <3>. QED  BY <1>1, <2>3, <2>4, <2>6, <2>7, <3>1, <3>2 DEF Agreement, Follows, now, documents
    <2>. QED  BY <2>8, <2>9, <2>10 DEF Documents
  <1>. QED  BY <1>5, <1>6

\* The answers of the other commands.
LEMMA TakeAnswerDocuments ==
  ASSUME Inv, Documents, Inv', TakeAnswer
  PROVE  Documents'
  <1>. DEFINE w == calls["window"]
              now == calls'["window"]
              state == IF w.kind = "reset" THEN None ELSE w.state
              taken == w.doc # None /\ page.file # None /\ (w.ok \/ w.kind = "groups")
              shown == Applied(page, state)
              doc == IF taken THEN w.doc ELSE shown.doc
              durable == IF taken /\ w.revision > shown.durable THEN w.revision ELSE shown.durable
              new == [shown EXCEPT !.doc = doc, !.durable = durable]
  <1>1. /\ Types /\ Open /\ News /\ Agreement /\ w # None /\ w.stage = "answered" /\ w.kind # "open"
        /\ page' = new /\ crossed' = (crossed \/ (taken /\ Crosses(w.doc))) /\ Becomes("window", None)
        /\ UNCHANGED <<life, documents, app, saves, events, left>>
    BY DEF TakeAnswer, Inv, Documents
  <1>2. /\ w \in CommandCall /\ Sound(w) /\ w.event = None /\ w.to = "page" /\ page # None /\ page \in Page
        /\ state \in State \cup {None} /\ coord \in State
        /\ w.doc \in Document \cup {None} /\ w.revision \in Nat
    BY <1>1, CallFound, Callers DEF Inv, Listening, Sound, Types
  <1>3. shown \in Page /\ shown.file = page.file /\ shown.epoch = page.epoch /\ shown.doc = page.doc
    BY <1>2, AppliedRow, AppliedCalm
  <1>4. /\ taken <=> w.doc # None /\ page.file # None /\ (w.ok \/ w.kind = "groups")
        /\ doc = IF taken THEN w.doc ELSE page.doc
    BY <1>3
  <1>5. doc \in Document \cup {None} /\ durable \in Nat
    BY <1>2, <1>3, <1>4 DEF Page
  <1>. HIDE DEF taken, shown, doc, durable
  <1>6. new \in Page /\ new.doc = doc /\ new.file = page.file /\ new.epoch = page.epoch /\ new # None
    <2>1. new \in Page /\ new.doc = doc /\ new.file = page.file /\ new.epoch = page.epoch
      BY <1>3, <1>5 DEF Page
    <2>. QED  BY <2>1, DesktopAssumption
  <1>. HIDE DEF new
  <1>7. /\ (Shown' <=> Shown) /\ page'.doc = doc /\ page'.file = page.file /\ page'.epoch = page.epoch
    BY <1>1, <1>2, <1>6 DEF Shown
  <1>8. now = None /\ \A d \in Caller \ {"window"} : calls'[d] = calls[d]
    BY <1>1, BecomesRow, Callers DEF Types
  <1>9. /\ Typing' = Typing /\ Canon' = Canon /\ LastText' = LastText /\ SessionEvents' = SessionEvents
    BY <1>1 DEF Typing, Canon, LastText, SessionEvents, documents
  <1>10. \A d \in Caller : /\ calls'[d] # None /\ calls'[d].event # None => calls[d] # None /\ calls'[d] = calls[d]
                           /\ calls[d] # None /\ calls[d].event # None => calls'[d] = calls[d]
    BY <1>2, <1>8
  <1>11. Announced' <=> Announced
    BY <1>1, <1>9, <1>10 DEF Announced, documents
  <1>12. ~Opening(now) /\ ~Choosing(now) /\ ~Loading(w)
    BY <1>1, <1>8 DEF Opening, Choosing, Loading
  <1>13. Open'
    <2>1. \A d \in Caller : calls'[d] # None => Brings(calls'[d])
      BY <1>1, <1>8 DEF Open
    <2>. HIDE DEF now
    <2>. QED  BY <1>1, <1>7, <1>8, <1>9, <1>12, <2>1 DEF Open, now, documents
  <1>14. News'
    <2>1. app.published <= store.revision
      BY <1>1, <1>12 DEF News
    <2>2. \A d \in Caller : calls'[d] # None /\ calls'[d].event # None => Pending(calls'[d].event)
      BY <1>1, <1>10 DEF News
    <2>. HIDE DEF now
    <2>. QED  BY <1>1, <1>8, <1>9, <2>1, <2>2 DEF News, Pending, now, documents
  <1>15. Agreement'
    <2>. SUFFICES ASSUME ~crossed'  PROVE Agreement'
      BY DEF Agreement
    <2>1. ~crossed /\ ~(taken /\ Crosses(w.doc))
      BY <1>1
    <2>2. ASSUME Shown  PROVE
            /\ doc.text <= LastText /\ (\A text \in Typing : text <= doc.text)
            /\ doc.text = files[store.file].text \/ doc.text \in Typing
            /\ doc.config = files[store.file].config /\ Follows(doc)
      <3>1. /\ page.doc.text <= LastText /\ (\A text \in Typing : text <= page.doc.text)
            /\ page.doc.text = files[store.file].text \/ page.doc.text \in Typing
            /\ page.doc.config = files[store.file].config \/ Choosing(w)
            /\ page.doc.canon <= Canon /\ (page.doc.canon = Canon \/ Announced)
            /\ page.file # None /\ page.file = store.file
            /\ Choosing(w) => w.doc.config = files[store.file].config
        BY <1>1, <2>1, <2>2 DEF Agreement, Follows, Open, Shown
      <3>2. Choosing(w) => taken
        <4>1. Brings(w)
          BY <1>1, Callers DEF Open
        <4>. QED  BY <1>1, <1>4, <3>1, <4>1 DEF Choosing, Brings
      <3>3. CASE ~taken
        BY <1>4, <3>1, <3>2, <3>3 DEF Follows
      <3>4. CASE taken
        <4>1. /\ doc = w.doc /\ doc.text = page.doc.text /\ ~(doc.canon < page.doc.canon)
              /\ doc.config \in {page.doc.config, files[store.file].config} /\ w.doc # None
          BY <1>4, <2>1, <3>4 DEF Crosses
        <4>2. doc.canon <= Canon
          BY <1>1, <4>1 DEF News
        <4>3. page.doc \in Document /\ doc \in Document /\ store.file \in File
          BY <1>1, <1>2, <2>2, <3>1, <4>1 DEF Page, Inv, Stages, Shown
        <4>4. page.doc.canon \in Nat /\ doc.canon \in Nat /\ Canon \in Nat
          BY <1>1, <4>3, TextsInNat DEF Canon
        <4>5. doc.canon = Canon \/ Announced
          BY <3>1, <4>1, <4>2, <4>4
        <4>. QED  BY <3>1, <4>1, <4>2, <4>5 DEF Follows
      <3>. QED  BY <3>3, <3>4
    <2>3. \A f \in File : files[f].text <= LastText
      BY <1>1, <2>1 DEF Agreement
    <2>. HIDE DEF now
    <2>. QED  BY <1>1, <1>7, <1>9, <1>11, <1>12, <2>2, <2>3 DEF Agreement, Follows, now, documents
  <1>. QED  BY <1>13, <1>14, <1>15 DEF Documents

-----------------------------------------------------------------------------
(* The documents in every state.                                            *)

LEMMA DocumentsInit == Init => Documents
  <1>. SUFFICES ASSUME Init  PROVE Documents
    OBVIOUS
  <1>1. Inv /\ Types
    BY InvInit DEF Inv
  <1>2. /\ \A c \in Caller : calls[c] = None
        /\ page = None /\ saves = {} /\ events = {} /\ store.closed = FALSE /\ store.revision = 0 /\ app.published = 0
        /\ \A f \in File : files[f].text = 0
    BY DEF Init, Starter
  <1>3. ~Shown /\ Typing = {} /\ SessionEvents = {} /\ LastText \in Nat
    BY <1>1, <1>2, TextsInNat DEF Shown, Typing, SessionEvents
  <1>4. ~Opening(calls["window"]) /\ ~Choosing(calls["window"])
    BY <1>2, Callers DEF Opening, Choosing
  <1>5. Open
    BY <1>2, <1>3, <1>4, Callers DEF Open
  <1>6. News
    BY <1>2, <1>3, Callers DEF News
  <1>7. Agreement
    <2>1. \A f \in File : files[f].text <= LastText
      BY <1>2, <1>3
    <2>. QED  BY <1>3, <1>4, <2>1 DEF Agreement
  <1>. QED  BY <1>5, <1>6, <1>7 DEF Documents

LEMMA DocumentsStep == Inv /\ Documents /\ [Next]_vars => Documents'
  <1>. SUFFICES ASSUME Inv, Documents, [Next]_vars  PROVE Documents'
    OBVIOUS
  <1>. Inv'
    BY InvStep
  <1>1. CASE Lifecycle
    BY <1>1, LifecycleCalm, CalmKeeps, ShutdownDocuments DEF Lifecycle
  <1>2. CASE Asking
    BY <1>2, AskingCalm, CalmKeeps
  <1>3. CASE \/ \E f \in File, new \in BOOLEAN : OpenFile(f, new)
             \/ OpenNothing \/ FinishOpen \/ StartLoad
             \/ \E config \in Config, new \in BOOLEAN : ChooseConfig(config, new)
             \/ Associate \/ Install \/ ChangeRoster
             \/ \E config \in Config : EditConfigFile(config)
    <2>1. CASE \/ OpenNothing \/ StartLoad \/ Install \/ ChangeRoster
               \/ \E config \in Config, new \in BOOLEAN : ChooseConfig(config, new)
               \/ \E config \in Config : EditConfigFile(config)
      BY <2>1, OpenNothingCalm, StartLoadCalm, InstallCalm, BroadcastCalm, ChooseConfigCalm, EditConfigFileCalm, CalmKeeps
    <2>2. CASE (\E f \in File, new \in BOOLEAN : OpenFile(f, new)) \/ FinishOpen \/ Associate
      BY <2>2, OpenFileDocuments, FinishOpenDocuments, AssociateDocuments
    <2>. QED  BY <1>3, <2>1, <2>2
  <1>4. CASE StartBroadcast \/ EndBroadcast \/ SessionCommand \/ TerminalCommand \/ TerminalRefused \/ Publish \/ PlayersChange
    BY <1>4, BroadcastCalm, CommandsCalm, PublishCalm, PlayersChangeCalm, CalmKeeps
  <1>5. CASE ResetCommandState \/ (\E c \in Caller : Resolve(c) \/ FinishMutation(c)) \/ ReplaceTerminalGroups \/ FinishGroups
    BY <1>5, ResetDocuments, ResolveDocuments, FinishMutationDocuments, ReplaceTerminalGroupsDocuments, FinishGroupsDocuments
  <1>6. CASE Saving
    BY <1>6, EditDocuments, NumberSaveCalm, KeepSaveDocuments, AnswerSaveCalm, CalmKeeps DEF Saving
  <1>7. CASE Showing
    <2>1. CASE ReadCoordinator \/ GetRuntimeStatus \/ TakeStatus \/ \E event \in events : TakeCoordination(event)
      BY <2>1, ReadingCalm, TakeStatusCalm, TakeCoordinationCalm, CalmKeeps
    <2>2. CASE LoadPage \/ (\E event \in events : TakeSession(event)) \/ TakeOpened \/ TakeAnswer
      BY <2>2, LoadPageDocuments, TakeSessionDocuments, TakeOpenedDocuments, TakeAnswerDocuments
    <2>. QED  BY <1>7, <2>1, <2>2 DEF Showing
  <1>8. CASE UNCHANGED vars
    BY <1>8, StutterCalm, CalmKeeps
  <1>. QED  BY <1>1, <1>2, <1>3, <1>4, <1>5, <1>6, <1>7, <1>8 DEF Next, Working

(* loadSession, autosave, publishSessionState and the answers of the        *)
(* commands: when everything has arrived the page shows the document of the *)
(* file the store has open, whatever order events, answers and the outcomes *)
(* of saves came in, unless an edit and another change overtook each other. *)
THEOREM DocumentsAlwaysAgree == Spec => []DocumentsAgree
  <1>1. Inv /\ Documents => DocumentsAgree
    <2>. SUFFICES ASSUME Inv, Documents, ~crossed, Quiet, page.file # None
                  PROVE  page.file = store.file /\ page.doc = files[store.file]
      BY DEF DocumentsAgree
    <2>1. Shown /\ Typing = {} /\ SessionEvents = {} /\ (\A c \in Caller : calls[c] = None) /\ Types
      BY DEF Quiet, Shown, Typing, SessionEvents, Inv
    <2>2. ~Announced /\ ~Choosing(calls["window"])
      BY <2>1, Callers DEF Announced, Choosing
    <2>3. page.file = store.file
      BY <2>1 DEF Documents, Open
    <2>4. /\ page.doc.text = files[store.file].text /\ page.doc.config = files[store.file].config
          /\ page.doc.canon = files[store.file].canon
      BY <2>1, <2>2 DEF Documents, Agreement, Follows, Canon
    <2>5. page.doc \in Document /\ files[store.file] \in Document
      BY <2>1, <2>3 DEF Types, Page, Inv, Stages, Shown
    <2>6. page.doc = files[store.file]
      BY <2>4, <2>5 DEF Document
    <2>. QED  BY <2>3, <2>6
  <1>2. Inv /\ Documents /\ [Next]_vars => (Inv /\ Documents)'
    BY InvStep, DocumentsStep
  <1>3. Init => Inv /\ Documents
    BY InvInit, DocumentsInit
  <1>. QED  BY <1>1, <1>2, <1>3, PTL DEF Spec
=============================================================================
