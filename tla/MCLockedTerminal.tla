--------------------------- MODULE MCLockedTerminal ---------------------------
EXTENDS LockedTerminal, TLC

Word(i, c, s, t) == [id |-> i, column |-> c, start |-> s, text |-> t]

\* Two columns of two rows of six glyphs:  (ww(.)  ......   and   ()ww..  ..)[.(
Good ==
  [columns |-> << <<"(", "w", "w", "(", ".", ")",  ".", ".", ".", ".", ".", ".">>,
                  <<"(", ")", "w", "w", ".", ".",  ".", ".", ")", "[", ".", "(">> >>,
   words   |-> {Word("a", 1, 2, "war"), Word("b", 2, 3, "vault")},
   secret  |-> "vault"]

\* No candidate stands between delimiters: refused.
Plain == [Good EXCEPT !.columns[1][1] = "."]

MCBoards == {Good, Plain}

\* An ordinary filler, the first glyph of a span, and a letter.
MCAim == {<<1, 5>>, <<1, 4>>, <<2, 3>>}

MCFolder == {"root", "dir"}
Full   == [f \in MCFolder |-> IF f = "root" THEN <<"dir", "run">> ELSE <<"memo">>]
Bare   == [f \in MCFolder |-> <<>>]
MCDraft == [t \in Terminal |-> IF t \in Locked THEN {Full, Bare} ELSE {Bare}]

Sessions == Permutations(LogicalSession)
===============================================================================
