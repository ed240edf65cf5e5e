--------------------------- MODULE SessionDocument ---------------------------
(***************************************************************************)
(* What a session document is, and what saves, command states and group    *)
(* changes make of it: internal/domain/validate.go and the functions of    *)
(* internal/session that prepare the documents SessionStore queues and     *)
(* writes.  They are pure: a document and a request give a document, or a  *)
(* refusal.                                                                *)
(*                                                                         *)
(* A tree is the sequence of its nodes in the order validateTree visits    *)
(* them, each with its depth.  A text is its length, and the separator of  *)
(* two blocks is two bytes; "" is an absent id.  A name is its trimmed     *)
(* word with the numbers appended to it, and a group id a base with a      *)
(* number: that of a singleton group has its terminal for a base, of which *)
(* the code takes the digest.  What else is required of a name, a version  *)
(* or an unknown field is one flag, "sound".                               *)
(***************************************************************************)
EXTENDS Naturals, Sequences, SequencesExt

CONSTANTS
  Files,         \* documents a session file may hold
  Drafts,        \* documents the editor may send
  Proposals,     \* group sets the Overseer may ask for
  Rosters,       \* what a player config may hold
  Lower,         \* Lower[word]: the word in lower case
  Cut,           \* Cut[word]: as much of the word as leaves room for a number
  Objects,       \* fields a terminal of a file may be written with
  Fields,        \* the fields a terminal has
  Sorted,        \* the keys of Objects in the order of their bytes
  MaxBody, MaxTerminals, MaxNodes, MaxNodeDepth, MaxRosterEntries

ASSUME LimitsAssumption ==
  {MaxBody, MaxTerminals, MaxNodes, MaxNodeDepth, MaxRosterEntries} \subseteq Nat \ {0}

Ids(s) == {s[i].id : i \in DOMAIN s}
Distinct(s) == IsInjective([i \in DOMAIN s |-> s[i].id])
Get(s, id) == s[CHOOSE i \in DOMAIN s : s[i].id = id]

-----------------------------------------------------------------------------
(* Trees.                                                                   *)

Leaf(nodes, i) == i = Len(nodes) \/ nodes[i + 1].depth <= nodes[i].depth

\* A folder has nothing but children, a command its text and one behaviour, an entry its
\* text or blocks; a state change has a result to show.
ValidNode(nodes, i) ==
  LET n == nodes[i] IN
  /\ n.sound /\ n.depth <= MaxNodeDepth /\ n.text <= MaxBody
  /\ n.type = "folder" \/ Leaf(nodes, i)
  /\ n.type = "folder" => n.text = 0
  /\ n.type # "command" => n.behaviour = "ordinary"
  /\ n.type # "entry" => n.blocks = <<>>
  /\ n.behaviour # "invalid"
  /\ n.behaviour = "state-change" => n.text > 0

ValidTree(nodes) ==
  /\ nodes[1].id = "root" /\ nodes[1].type = "folder"
  /\ Len(nodes) <= MaxNodes /\ Distinct(nodes)
  /\ \A i \in DOMAIN nodes : ValidNode(nodes, i)

\* What has become of a command: the texts of its first execution.
ValidStates(t) ==
  \A c \in DOMAIN t.states :
    /\ c \in Ids(t.nodes) /\ Get(t.nodes, c).behaviour = "state-change"
    /\ t.states[c].sound

-----------------------------------------------------------------------------
(* Entries and the changes commands make to them.                           *)

Blocks(t) == FlattenSeq([i \in DOMAIN t.nodes |-> t.nodes[i].blocks])
Changing(t) == {n \in ToSet(t.nodes) : n.block # ""}

AuthoredTexts(t) ==
  [b \in {n.block : n \in Changing(t)} |-> (CHOOSE n \in Changing(t) : n.block = b).completed]

FrozenTexts(t) ==
  [b \in {t.states[c].block : c \in DOMAIN t.states} \ {""} |->
     t.states[CHOOSE c \in DOMAIN t.states : t.states[c].block = b].text]

Composed(entry, texts) ==
  FoldLeft(LAMBDA sum, b : sum + IF b.id \in DOMAIN texts THEN texts[b.id] ELSE b.text,
           2 * (Len(entry.blocks) - 1), entry.blocks)

\* validateComposedEntryText
Fits(t, texts) ==
  \A n \in ToSet(t.nodes) : n.blocks # <<>> => Composed(n, texts) <= MaxBody

\* validateTerminalEntryContent: every change has a block of its own, also that of a
\* completed command; the entries fit as they were written, with all commands completed,
\* and with those that are.
ValidContent(t) ==
  /\ \A n \in ToSet(t.nodes) : n.text > 0 => n.blocks = <<>>
  /\ Distinct(Blocks(t))
  /\ {n.block : n \in Changing(t)} \subseteq Ids(Blocks(t))
  /\ \A m, n \in Changing(t) : m.block = n.block => m = n
  /\ \A c \in DOMAIN t.states : t.states[c].block = Get(t.nodes, c).block
  /\ Fits(t, <<>>) /\ Fits(t, AuthoredTexts(t)) /\ Fits(t, FrozenTexts(t))

ValidTerminal(t) == t.sound /\ ValidTree(t.nodes) /\ ValidStates(t) /\ ValidContent(t)

\* effectiveTree: what players are shown.
Effective(t) ==
  [i \in DOMAIN t.nodes |->
     LET n == t.nodes[i] IN
     CASE n.id \in DOMAIN t.states -> [n EXCEPT !.text = t.states[n.id].result]
       [] n.blocks # <<>> -> [n EXCEPT !.text = Composed(n, FrozenTexts(t))]
       [] OTHER -> n]

-----------------------------------------------------------------------------
(* Groups and transitions.                                                  *)

\* strings.ToLower(strings.TrimSpace(name))
Normal(name) == <<Lower[Head(name)]>> \o Tail(name)
Names(groups) == {Normal(groups[i].name) : i \in DOMAIN groups}

Members(groups) == FlattenSeq([i \in DOMAIN groups |-> groups[i].members])

\* validateTerminalGroups; a document without groups is taken for an old one.
ValidGroups(d) ==
  d.groups # <<>> =>
    /\ Distinct(d.groups) /\ Cardinality(Names(d.groups)) = Len(d.groups)
    /\ \A i \in DOMAIN d.groups : d.groups[i].members # <<>>
    /\ IsInjective(Members(d.groups)) /\ ToSet(Members(d.groups)) = Ids(d.terminals)

Least(S) == CHOOSE k \in S : \A j \in S : k <= j

\* uniqueSingletonGroupID and uniqueSingletonGroupName: the first that nobody has.
FreeID(t, groups) ==
  LET k == Least({k \in 1 .. Len(groups) + 1 : <<t.id, k>> \notin Ids(groups)}) IN <<t.id, k>>

Numbered(name, k) == IF k = 1 THEN name ELSE <<Cut[Head(name)]>> \o Tail(name) \o <<k>>

\* Mutant of FreeName: names are compared as they are written.
FreeNameAsWritten(t, groups) ==
  LET used == {groups[i].name : i \in DOMAIN groups} IN
  Numbered(t.name, Least({k \in 1 .. Len(groups) + 1 : Numbered(t.name, k) \notin used}))

FreeName(t, groups) ==
  Numbered(t.name, Least({k \in 1 .. Len(groups) + 1 : Normal(Numbered(t.name, k)) \notin Names(groups)}))

\* EnsureTerminalGroups: a terminal of no group gets one of its own.
Ensured(d) ==
  [d EXCEPT !.groups =
     FoldLeft(LAMBDA groups, t :
                IF t.id \in ToSet(Members(groups)) THEN groups
                ELSE Append(groups, [id |-> FreeID(t, groups), name |-> FreeName(t, groups), members |-> <<t.id>>]),
              @, d.terminals)]

\* NormalizeTerminalGroups
Normalised(d) == IF d.groups = <<>> THEN Ensured(d) ELSE d

Transitions(d) ==
  UNION {{<<d.terminals[i].id, n.id, n.target>> :
            n \in {n \in ToSet(d.terminals[i].nodes) : n.behaviour = "transition"}} : i \in DOMAIN d.terminals}

GroupOf(groups, t) == groups[CHOOSE i \in DOMAIN groups : t \in ToSet(groups[i].members)]

Crossing(d) ==
  {x \in Transitions(d) : d.groups # <<>> /\ GroupOf(d.groups, x[1]) # GroupOf(d.groups, x[3])}

-----------------------------------------------------------------------------
(* Documents.                                                               *)

ValidSession(d) ==
  /\ d.sound /\ Len(d.terminals) <= MaxTerminals /\ Distinct(d.terminals)
  /\ \A i \in DOMAIN d.terminals : ValidTerminal(d.terminals[i])
  /\ \A x \in Transitions(d) : x[3] # x[1] /\ x[3] \in Ids(d.terminals)
  /\ ValidGroups(d)

\* contentNodeToProto and back: each variant carries its own fields only.
Contract(n) ==
  CASE n.type = "folder"  -> [n EXCEPT !.text = 0, !.blocks = <<>>, !.behaviour = "ordinary", !.target = "", !.block = ""]
    [] n.type = "command" -> [n EXCEPT !.blocks = <<>>, !.target = IF n.behaviour = "transition" THEN @ ELSE "",
                                       !.block = IF n.behaviour = "state-change" THEN @ ELSE ""]
    [] n.type = "entry"   -> [n EXCEPT !.behaviour = "ordinary", !.target = "", !.block = ""]

Contracted(nodes) == [i \in DOMAIN nodes |-> Contract(nodes[i])]

\* SessionFromProto of SessionToProto: what the window gets of a document.
Routed(d) == [d EXCEPT !.terminals = [i \in DOMAIN @ |-> [@[i] EXCEPT !.nodes = Contracted(@)]]]

\* verifySessionContract
Verified(d) == ValidSession(d) /\ ValidSession(Routed(d))

\* Results and events leave out a document that is not Verified.
Shown(d) == IF Verified(d) THEN <<Routed(d)>> ELSE <<>>

\* DecodeSession, and EncodeSession, which writes what it would read.
Readable(d) == ValidSession(Normalised(d))

\* encodeAcceptedSession
Encodable(d) == Verified(d) /\ Readable(d)

-----------------------------------------------------------------------------
(* Save.                                                                    *)

\* verifyAuthoredSession, with the command states cleared and without the groups.
Acceptable(draft) ==
  Verified(Normalised([draft EXCEPT !.groups = <<>>,
                                    !.terminals = [i \in DOMAIN @ |-> [@[i] EXCEPT !.states = <<>>]]]))

\* mergeCanonicalTerminalGroups: the groups of the document at hand with the terminals
\* that are left.
Regrouped(d, draft) ==
  LET left(g) == [g EXCEPT !.members = SelectSeq(@, LAMBDA t : t \in Ids(draft.terminals))] IN
  Ensured([draft EXCEPT !.groups =
             SelectSeq([i \in DOMAIN d.groups |-> left(d.groups[i])], LAMBDA g : g.members # <<>>)])

\* The states of the document at hand whose commands are left.
Carried(d, t) ==
  LET states == IF t.id \in Ids(d.terminals) THEN Get(d.terminals, t.id).states ELSE <<>> IN
  [c \in DOMAIN states \cap Ids(t.nodes) |-> states[c]]

\* mergeCanonicalSessionState
Merge(d, draft) ==
  LET carrying(t) == [t EXCEPT !.states = Carried(d, t)] IN
  [Regrouped(d, draft) EXCEPT !.terminals = [i \in DOMAIN @ |-> carrying(@[i])]]

TakesDraft(d, draft) ==
  /\ Acceptable(draft)
  /\ Crossing(Regrouped(d, draft)) \subseteq Transitions(d)
  /\ \A t \in ToSet(draft.terminals) : \A c \in DOMAIN Carried(d, t) :
       Get(t.nodes, c).behaviour = "state-change"
  /\ Encodable(Merge(d, draft))

-----------------------------------------------------------------------------
(* Command states.                                                          *)

WithStates(d, id, states) ==
  [d EXCEPT !.terminals = [i \in DOMAIN @ |-> IF @[i].id = id THEN [@[i] EXCEPT !.states = states] ELSE @[i]]]

Initial(t) == {n.id : n \in {n \in ToSet(t.nodes) : n.behaviour = "state-change"}} \ DOMAIN t.states

\* ExecuteCommandState freezes the texts as they are now.
Complete(d, t, c) ==
  LET n == Get(t.nodes, c) IN
  WithStates(d, t.id, [x \in DOMAIN t.states \cup {c} |->
    IF x # c THEN t.states[x] ELSE [result |-> n.text, block |-> n.block, text |-> n.completed, sound |-> TRUE]])

\* ResetCommandState, and ResetTerminalCommandStates for all of them.
Restore(d, t, commands) ==
  WithStates(d, t.id, [x \in DOMAIN t.states \ commands |-> t.states[x]])

-----------------------------------------------------------------------------
(* ReplaceTerminalGroups.                                                   *)

\* deriveTerminalGroupDiff
Affected(old, new) ==
  LET changed(gs, hs) == {g \in ToSet(gs) : \A h \in ToSet(hs) : h.id # g.id \/ h.members # g.members} IN
  UNION {ToSet(g.members) : g \in changed(old, new) \cup changed(new, old)}

\* rejectSingletonIdentityChurn
KeepsSingletons(old, new) ==
  \A g \in ToSet(old), h \in ToSet(new) : Len(g.members) = 1 /\ h.members = g.members => h.id = g.id

\* ValidateTerminalGroupReplacement
TakesGroups(d, groups) ==
  LET new == [d EXCEPT !.groups = groups] IN
  /\ ValidSession(new) /\ Crossing(new) = {} /\ KeepsSingletons(d.groups, groups)
  /\ groups # d.groups => Encodable(new)

-----------------------------------------------------------------------------
(* Trees the editor shows to players before they are saved.                 *)

\* validateLiveTerminal, validateLiveTerminalUpdate: with what is open.
WithTree(d, id, nodes) ==
  [d EXCEPT !.terminals = [i \in DOMAIN @ |-> IF @[i].id = id THEN [@[i] EXCEPT !.nodes = nodes] ELSE @[i]]]

TakesLive(d, id, nodes) == id \in Ids(d.terminals) /\ ValidSession(WithTree(d, id, nodes))

\* validateIsolatedLiveTerminal, when no session is open.
Isolated(t) == [sound |-> TRUE, terminals |-> <<t>>, groups |-> <<>>]

-----------------------------------------------------------------------------
(* The fields of a terminal in the file: keys with their values.  Go takes   *)
(* a key for a field in whatever case it is written, the last one counts.   *)

LastOf(object, K) ==
  LET at == {i \in DOMAIN object : object[i].key \in K} IN
  IF at = {} THEN 0 ELSE object[CHOOSE i \in at : \A j \in at : j <= i].value

Alike(field) == {key \in ToSet(Sorted) : Lower[key] = Lower[field]}

\* Terminal.UnmarshalJSON; what is missing is zero.
Known(object) == [f \in Fields |-> LastOf(object, Alike(f))]

\* extrasFrom: what no field is called exactly like.
Extras(object) ==
  [key \in {object[i].key : i \in DOMAIN object} \ Fields |-> LastOf(object, {key})]

\* marshalWithExtras, which sorts the keys.
WithExtras(known, extras) ==
  LET keys == SelectSeq(Sorted, LAMBDA k : k \in DOMAIN known \cup DOMAIN extras) IN
  [i \in DOMAIN keys |->
     [key |-> keys[i], value |-> IF keys[i] \in Fields THEN known[keys[i]] ELSE extras[keys[i]]]]

-----------------------------------------------------------------------------
(* Player configs.  A field of an entry may be missing or null in the file. *)

Given(field, fallback) == IF field.kind = "missing" THEN fallback ELSE field.value

\* playerConfigWire.canonical
Roster(file) ==
  [i \in DOMAIN file.roster |->
     LET e == file.roster[i] IN
     [e EXCEPT !.intelligence = Given(@, 1), !.perk = Given(@, FALSE)]]

ValidRoster(roster) ==
  /\ Len(roster) <= MaxRosterEntries /\ Distinct(roster)
  /\ \A i \in DOMAIN roster : roster[i].sound /\ roster[i].intelligence \in 1 .. 10

\* DecodePlayerConfig, which takes no unknown fields.
ReadableRoster(file) ==
  /\ file.sound
  /\ \A e \in ToSet(file.roster) : "null" \notin {e.intelligence.kind, e.perk.kind}
  /\ ValidRoster(Roster(file))

\* PlayerConfigFromProto of PlayerConfigToProto: every field is given.
ContractRoster(roster) ==
  [i \in DOMAIN roster |->
     [roster[i] EXCEPT !.intelligence = Given([kind |-> "given", value |-> @], 1),
                       !.perk = Given([kind |-> "given", value |-> @], FALSE)]]

\* EncodePlayerConfig, after the contract was verified.
WritableRoster(roster) == ValidRoster(roster) /\ ValidRoster(ContractRoster(roster))

Written(roster) ==
  [sound |-> TRUE,
   roster |-> [i \in DOMAIN roster |->
                 [roster[i] EXCEPT !.intelligence = [kind |-> "given", value |-> @],
                                   !.perk = [kind |-> "given", value |-> @]]]]

-----------------------------------------------------------------------------
(* Properties.                                                              *)

Held == {Normalised(file) : file \in {file \in Files : Readable(file)}}

SameGroup(groups, s, t) == \E g \in ToSet(groups) : {s, t} \subseteq ToSet(g.members)

\* A session file from before there were groups can be opened and saved, however its
\* terminals are called (NormalizeTerminalGroups).
OldFilesOpen ==
  \A file \in Files :
    file.groups = <<>> /\ ValidSession(file) => Encodable(Normalised(file))

\* A draft that is sound in itself is refused for one of three reasons only: a new
\* transition leaves its group, a completed command no longer changes what it changed, or
\* an entry has become too long for the texts that stand in it; a terminal that comes or
\* goes is none (mergeCanonicalSessionState).
RefusalsAreJustified ==
  \A d \in Held, draft \in Drafts :
    LET states(t) == Carried(d, t) IN
    Acceptable(draft) =>
      (TakesDraft(d, draft) <=>
         /\ \A x \in Transitions(draft) \ Transitions(d) : SameGroup(d.groups, x[1], x[3])
         /\ \A t \in ToSet(draft.terminals) :
              /\ \A c \in DOMAIN states(t) :
                   Get(t.nodes, c).behaviour = "state-change" /\ Get(t.nodes, c).block = states(t)[c].block
              /\ Fits(t, FrozenTexts([t EXCEPT !.states = states(t)])))

\* A save leaves alone what the editor does not own: terminals stay in their groups and in
\* order, new ones stand alone, what is completed stays as it was completed and nothing
\* else is; and neither saving it again nor saving what is open changes anything.
SavesLeaveTheRest ==
  \A d \in Held :
    /\ TakesDraft(d, d) /\ Merge(d, d) = d
    /\ \A draft \in {x \in Drafts : TakesDraft(d, x)} :
         LET m == Merge(d, draft) IN
         /\ TakesDraft(m, draft) /\ Merge(m, draft) = m
         /\ \A t \in Ids(m.terminals) :
              LET g == GroupOf(m.groups, t) IN
              IF t \in Ids(d.terminals)
              THEN LET h == GroupOf(d.groups, t) IN
                   /\ g.id = h.id /\ g.name = h.name
                   /\ g.members = SelectSeq(h.members, LAMBDA s : s \in Ids(m.terminals))
                   /\ LET old == Get(d.terminals, t).states
                          new == Get(m.terminals, t).states IN
                      /\ DOMAIN new = DOMAIN old \cap Ids(Get(m.terminals, t).nodes)
                      /\ \A c \in DOMAIN new : new[c] = old[c]
              ELSE g.members = <<t>> /\ Get(m.terminals, t).states = <<>>

\* Completing a command is refused only when its entry gets too long, changes what players
\* see of it and of the entry it is for and of nothing else, and is undone by its reset;
\* resetting a whole terminal is never refused (ExecuteCommandState, ResetCommandState).
CompletionsAreUndone ==
  \A d \in Held : \A t \in ToSet(d.terminals) :
    /\ Encodable(Restore(d, t, DOMAIN t.states))
    /\ \A c \in Initial(t) :
         LET m == Complete(d, t, c)
             u == Get(m.terminals, t.id)
             n == Get(t.nodes, c) IN
         /\ Encodable(m) <=> Fits(u, FrozenTexts(u))
         /\ Restore(m, u, {c}) = d
         /\ Get(Effective(u), c).text = n.text
         /\ \A i \in DOMAIN t.nodes :
              Effective(u)[i] # Effective(t)[i] => t.nodes[i] = n \/ n.block \in Ids(t.nodes[i].blocks)

\* Groups that are accepted hold every terminal once and both ends of every transition;
\* a terminal is reported as affected exactly if its group or its place in it is another,
\* and one that stays alone keeps its group (ValidateTerminalGroupReplacement).
RegroupingsAreExact ==
  \A d \in Held, groups \in Proposals \ {<<>>} : TakesGroups(d, groups) =>
    LET new == [d EXCEPT !.groups = groups]
        place(gs, t) == [id |-> GroupOf(gs, t).id, members |-> GroupOf(gs, t).members] IN
    /\ \A x \in Transitions(d) : SameGroup(groups, x[1], x[3])
    /\ \A t \in Ids(d.terminals) :
         /\ Cardinality({i \in DOMAIN groups : t \in ToSet(groups[i].members)}) = 1
         /\ t \in Affected(d.groups, groups) <=> place(groups, t) # place(d.groups, t)
         /\ GroupOf(groups, t).members = <<t>> /\ GroupOf(d.groups, t).members = <<t>> =>
              GroupOf(groups, t).id = GroupOf(d.groups, t).id
    /\ Merge(new, new) = new

\* What is read from a player config can be saved again and is read back as it was, in
\* whatever form the file had it.
RostersAreStable ==
  \A file \in {file \in Rosters : ReadableRoster(file)} :
    LET roster == Roster(file) IN
    /\ WritableRoster(roster) /\ ContractRoster(roster) = roster
    /\ ReadableRoster(Written(roster)) /\ Roster(Written(roster)) = roster

\* A tree that was shown live can be saved, whatever has been completed in its terminal,
\* unless a new transition leaves the group, and players see the tree that is saved
\* (validateLiveTerminal asks other things than Save).
LiveTreesCanBeSaved ==
  \A nodes \in {t.nodes : t \in UNION {ToSet(draft.terminals) : draft \in Drafts}} :
    \A d \in Held : \A t \in ToSet(d.terminals) :
      LET new   == WithTree(d, t.id, nodes)
          alone == Isolated([t EXCEPT !.nodes = nodes, !.states = <<>>]) IN
      /\ TakesLive(d, t.id, nodes) =>
           /\ Contracted(nodes) = nodes
           /\ TakesDraft(d, new) <=> Crossing(new) \subseteq Transitions(d)
           /\ TakesDraft(d, new) => Merge(d, new) = new
      /\ ValidSession(alone) => Acceptable(alone)

\* The window is sent every document that is held, and as it is, after it was opened, saved,
\* completed or regrouped: no field is lost on the way and no document left out.
WindowSeesWhatIsHeld ==
  \A d \in Held :
    /\ Shown(d) = <<d>>
    /\ \A draft \in Drafts : TakesDraft(d, draft) => Shown(Merge(d, draft)) = <<Merge(d, draft)>>
    /\ \A groups \in Proposals \ {<<>>} :
         LET new == [d EXCEPT !.groups = groups] IN TakesGroups(d, groups) => Shown(new) = <<new>>
    /\ \A t \in ToSet(d.terminals) : \A c \in Initial(t) :
         LET m == Complete(d, t, c) IN Encodable(m) => Shown(m) = <<m>>

\* Fields the program does not know survive being read and written, and so do the values
\* of those it knows, edited or not; an edit is lost exactly if the file has the field in
\* another case too, in one that sorts after its own, with another value (extrasFrom,
\* marshalWithExtras).
FieldsSurvive ==
  \A object \in Objects, f \in Fields, value \in {0, 1} :
    LET extras == Extras(object)
        edited == [Known(object) EXCEPT ![f] = value]
        again  == WithExtras(edited, extras)
        late   == {key \in Alike(f) \cap DOMAIN extras :
                     \E i, j \in DOMAIN Sorted : i < j /\ Sorted[i] = f /\ Sorted[j] = key} IN
    /\ Extras(again) = extras
    /\ late = {} => Known(again)[f] = value
    /\ late # {} => \E key \in late : Known(again)[f] = extras[key]
    /\ WithExtras(Known(again), Extras(again)) = again \/ late # {}

\* What is read, saved, completed, reset or regrouped is a document that can be saved and
\* read again, and holds what nobody asked to change.
SoundDocuments ==
  /\ OldFilesOpen /\ RefusalsAreJustified /\ SavesLeaveTheRest
  /\ CompletionsAreUndone /\ RegroupingsAreExact /\ RostersAreStable
  /\ LiveTreesCanBeSaved /\ WindowSeesWhatIsHeld /\ FieldsSurvive
=============================================================================
