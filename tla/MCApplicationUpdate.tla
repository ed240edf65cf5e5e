------------------------ MODULE MCApplicationUpdate ------------------------
EXTENDS ApplicationUpdate

Number(digits) == [numeric |-> TRUE, text |-> digits]
Word(letters) == [numeric |-> FALSE, text |-> letters]
Version(core, pre) == [core |-> core, pre |-> pre]

Beta == Word(<<2, 5>>)
Rc == Word(<<18>>)
Core == << <<2>>, <<1, 0>>, <<0>> >>

\* 2.9.0, 2.10.0-beta, -beta.2, -beta.11, -rc.1 and 2.10.0
MCAscending ==
  << Version(<< <<2>>, <<9>>, <<0>> >>, <<>>),
     Version(Core, <<Beta>>),
     Version(Core, <<Beta, Number(<<2>>)>>),
     Version(Core, <<Beta, Number(<<1, 1>>)>>),
     Version(Core, <<Rc, Number(<<1>>)>>),
     Version(Core, <<>>) >>

Asset(os, arch) == [target |-> [os |-> os, arch |-> arch], uploaded |-> TRUE, digest |-> TRUE]

Inventory ==
  << Asset("windows", "amd64"), Asset("windows", "arm64"), Asset("linux", "amd64"),
     Asset("linux", "arm64"), Asset("darwin", "arm64") >>

Release(i) ==
  [version |-> MCAscending[i], canonical |-> TRUE, draft |-> FALSE, published |-> TRUE,
   prerelease |-> MCAscending[i].pre # <<>>, assets |-> Inventory]

Sound == {Release(i) : i \in {1, 3, 4, 6}}
Damaged ==
  { [Release(6) EXCEPT !.draft = TRUE, !.assets = <<>>],
    [Release(6) EXCEPT !.prerelease = TRUE],
    [Release(6) EXCEPT !.assets = Tail(@)],
    [Release(6) EXCEPT !.assets[1] = Asset("windows", "arm64")],
    [Release(6) EXCEPT !.assets[1].digest = FALSE],
    [Release(1) EXCEPT !.canonical = FALSE] }

\* Up to three releases in any order, up to two with a damaged one, and one too many.
Lists ==
  UNION {[1 .. n -> Sound] : n \in 0 .. 3} \cup UNION {[1 .. n -> Sound \cup Damaged] : n \in 1 .. 2}
    \cup {[n \in 1 .. 4 |-> Release(n)]}

MCHistories ==
  [releases : Lists, pages : {<<"found", "found">>}]
    \cup [releases : {<<>>, <<Release(6), Release(4), Release(3)>>},
          pages : [1 .. 2 -> {"found", "missing", "failed"}]]

Build(i, target) ==
  LET files == [path \in DOMAIN Required(target) |-> [mode |-> Required(target)[path], content |-> path]] IN
  [identity |-> [version |-> MCAscending[i], target |-> target, sound |-> TRUE],
   regular |-> TRUE, orderly |-> TRUE, listed |-> files, files |-> files]

MCBuilds == [i \in DOMAIN MCAscending |-> [target \in ReleaseAssets |-> Build(i, target)]]

MCArchives ==
  UNION {
    LET good == Build(6, target)
        with(files) == [good EXCEPT !.listed = files, !.files = files] IN
    { good, Build(5, target),
      [good EXCEPT !.regular = FALSE], [good EXCEPT !.orderly = FALSE],
      [good EXCEPT !.identity.sound = FALSE],
      [good EXCEPT !.files["demo"].content = "other"],
      with([good.files EXCEPT !["demo"].content = "empty"]),
      with([good.files EXCEPT !["executable"].mode = "0444"]),
      with([path \in DOMAIN good.files \cup {"extra"} |-> good.files["demo"]]),
      with([path \in DOMAIN good.files \ {"icon"} |-> good.files[path]]) } : target \in ReleaseAssets}

MCTempDir == <<"tmp">>

MCHere == [unit |-> <<"apps", "terminal">>, recovery |-> <<"home", "support", "record">>]

MCLayouts ==
  [unit : {<<"apps", "terminal">>, <<"home">>, <<"tmp">>, <<"tmp", "helper">>, <<"tmp", "helper", "terminal">>},
   recovery : {<<"home", "support", "record">>, <<"apps", "terminal", "record">>, <<"tmp", "record">>}]

Linux == [os |-> "linux", arch |-> "amd64"]
=============================================================================
