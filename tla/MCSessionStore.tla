--------------------------- MODULE MCSessionStore ---------------------------
(* One file, two calls of SaveSession, one state-changing command.  The      *)
(* first call sends the document as it was opened, the second deletes the    *)
(* command.  For the contents of documents: two terminals with two commands  *)
(* and an entry of two blocks, in every combination of a tree, what has been *)
(* completed and a group set, valid or not; and 60 drafts of the editor.     *)
EXTENDS SessionStore, SessionDocument, TLC

CONSTANTS c1, g1, g2, k1, f1

MCStarter == [text |-> 0, commands |-> (c1 :> "stateful"), config |-> None,
              completed |-> {}, groups |-> g1, stamp |-> 0]

MCSaves == 1 .. 2

MCAuthored ==
  << [text |-> 0, commands |-> (c1 :> "stateful"), config |-> None],
     [text |-> 2, commands |-> (c1 :> "absent"), config |-> None] >>

-----------------------------------------------------------------------------
\* Words that differ in case only, and one that leaves no room for a number.
\* And the keys of a terminal, one field among them in three cases.
MCSorted == <<"HackLevel", "hackLevel", "hacklevel", "note">>
MCObjects ==
  UNION {[1 .. n -> [key : ToSet(MCSorted), value : 1 .. 2]] : n \in 0 .. 3}

MCLower ==
  [w \in {"vault", "Vault", "long", "lon"} \cup ToSet(MCSorted) |->
     CASE w = "Vault" -> "vault" [] w \in {"HackLevel", "hackLevel"} -> "hacklevel" [] OTHER -> w]
MCCut   == [w \in {"vault", "Vault", "long", "lon"} |-> IF w = "long" THEN "lon" ELSE w]

Node(id, depth, type) ==
  [id |-> id, depth |-> depth, type |-> type, sound |-> TRUE, text |-> 0, blocks |-> <<>>,
   behaviour |-> "ordinary", target |-> "", block |-> "", completed |-> 0]
Entry(id, blocks) == [Node(id, 3, "entry") EXCEPT !.blocks = blocks]
Change(id, text, block, completed) ==
  [Node(id, 2, "command") EXCEPT !.behaviour = "state-change", !.text = text, !.block = block, !.completed = completed]
Link(id, target) == [Node(id, 2, "command") EXCEPT !.behaviour = "transition", !.target = target]
Block(id, text) == [id |-> id, text |-> text]

\* root / dir / memo of two blocks, then the commands.
Tree(a, b, commands) ==
  <<Node("root", 1, "folder"), Node("dir", 2, "folder"), Entry("memo", <<Block("a", a), Block("b", b)>>)>> \o commands

T(id, name, nodes, states) == [id |-> id, name |-> name, sound |-> TRUE, nodes |-> nodes, states |-> states]

Frozen(result, block, text) == [result |-> result, block |-> block, text |-> text, sound |-> TRUE]

Usual == Tree(3, 0, <<Change("run", 1, "a", 0), Change("fix", 2, "b", 3)>>)
Trees ==
  {Usual,
   Tree(1, 1, <<Change("run", 1, "a", 2), Change("fix", 2, "", 0)>>),
   Tree(2, 1, <<Change("run", 3, "b", 1)>>),
   Tree(1, 3, <<Change("fix", 1, "b", 1)>>),
   Tree(1, 1, <<Change("run", 1, "a", 2), Change("fix", 1, "a", 2)>>),
   Tree(1, 1, <<Change("run", 0, "a", 2)>>),
   Tree(1, 1, <<Change("run", 1, "c", 2)>>),
   Tree(1, 1, <<Node("run", 2, "command"), Link("fix", "t2")>>),
   Tree(4, 4, <<>>),
   <<Node("root", 1, "folder"), Node("run", 2, "command"), Node("memo", 3, "entry")>>}

States ==
  {<<>>, "run" :> Frozen(1, "a", 0), "fix" :> Frozen(2, "b", 3),
   "run" :> Frozen(2, "a", 1) @@ "fix" :> Frozen(2, "b", 3), "fix" :> Frozen(2, "", 0)}

Second == {<<Node("root", 1, "folder")>>, <<Node("root", 1, "folder"), Link("go", "t1")>>}

G(id, name, members) == [id |-> id, name |-> name, members |-> members]
V(n) == <<n>>

Doc(terminals, groups) == [sound |-> TRUE, terminals |-> terminals, groups |-> groups]

MCProposals ==
  {<<>>,
   <<G(<<"t1", 1>>, V("vault"), <<"t1">>), G(<<"t2", 1>>, V("lon"), <<"t2">>)>>,
   <<G(<<"t3", 1>>, V("vault"), <<"t1">>), G(<<"t2", 1>>, V("Vault"), <<"t2">>)>>,
   <<G(<<"t3", 1>>, <<"lon", 2>>, <<"t1">>), G(<<"t2", 1>>, V("long"), <<"t2">>)>>,
   <<G(<<"t1", 1>>, V("vault"), <<"t1", "t2">>)>>,
   <<G(<<"t3", 1>>, V("vault"), <<"t2", "t1">>)>>,
   <<G(<<"t3", 1>>, V("vault"), <<"t2">>)>>}

MCFiles ==
  {Doc(<<T("t1", V("vault"), nodes, states), T("t2", V("long"), second, <<>>)>>, groups) :
     nodes \in Trees, states \in States, second \in Second, groups \in MCProposals}
  \cup {Doc(<<T("t1", V(m), Usual, <<>>), T("t2", V(n), <<Node("root", 1, "folder")>>, <<>>)>>, <<>>) :
     m \in DOMAIN MCCut, n \in DOMAIN MCCut}

MCDrafts ==
  {Doc(<<T("t1", V("vault"), nodes, <<>>)>> \o rest, <<>>) :
     nodes \in Trees,
     rest \in {<<>>} \cup {<<T("t2", V("long"), second, <<>>)>> : second \in Second}
              \cup {<<T("t3", V(n), <<Node("root", 1, "folder"), Link("go", "t1")>>, <<>>)>> : n \in {"Vault"}}
              \cup {<<T("t3", V(n), <<Node("root", 1, "folder")>>, <<>>), T("t2", V("long"), <<Node("root", 1, "folder")>>, <<>>)>>
                      : n \in {"Vault", "long"}}}

\* Entries with every form of the two fields an older file may lack.
MCRosters ==
  {[sound |-> TRUE,
    roster |-> <<[id |-> "c1", sound |-> TRUE, intelligence |-> [kind |-> "given", value |-> 10], perk |-> [kind |-> "missing", value |-> FALSE]],
                 [id |-> id, sound |-> TRUE, intelligence |-> [kind |-> k, value |-> n], perk |-> [kind |-> p, value |-> TRUE]]>>] :
     id \in {"c1", "c2"}, k \in {"given", "missing", "null"}, n \in {0, 1, 10, 11}, p \in {"given", "missing", "null"}}

\* Whatever was opened, saved, completed, reset and regrouped before: what the store holds
\* and writes is acceptable, nothing of it is lost by saving something else, and nothing
\* acceptable is refused without a reason (validate.go, mergeCanonicalSessionState).
DocumentsAreSound == epoch = 0 => SoundDocuments
=============================================================================
