------------------------------ MODULE HackPuzzle ------------------------------
(***************************************************************************)
(* The hacking puzzle of internal/hack/hack.go: the board, the spans of    *)
(* delimiters that can be activated, what a guess and an activated span do *)
(* and which boards may be published.  A glyph is a letter, an ordinary    *)
(* filler or one of two pairs of delimiters; the text of a candidate is a  *)
(* model value, for only its equality with the secret matters.  Sizes are  *)
(* constants, so that a board of a few rows is a board.                    *)
(***************************************************************************)
EXTENDS Naturals, Sequences, FiniteSets, FiniteSetsExt

CONSTANTS
  RowWidth,         \* boardRowWidth
  WordLength,       \* letters of a candidate
  WordGap,          \* wordGap: free cells around a candidate when it is placed
  MinPatterns,      \* publishable: fewest valid spans
  MaxPatterns,      \* publishable: most valid spans
  MinRows,          \* publishable: fewest rows of each kind of glyph
  MaximumAttempts,  \* maximumAttempts
  Boards,           \* the boards an attempt at generation may come up with
  Nil

Opener == {"(", "["}
Closer == [o \in Opener |-> IF o = "(" THEN ")" ELSE "]"]
Delimiter == Opener \cup {")", "]"}
Glyph == Delimiter \cup {"w", "."}

ASSUME BoardAssumption ==
  /\ RowWidth \in Nat \ {0} /\ WordLength \in Nat \ {0} /\ MaximumAttempts \in Nat \ {0}
  /\ WordGap \in Nat /\ MinPatterns \in Nat /\ MaxPatterns \in Nat /\ MinRows \in Nat
  /\ \A b \in Boards :
       /\ b.columns \in Seq(Seq(Glyph)) /\ b.secret \in {w.text : w \in b.words}
       /\ \A w \in b.words : /\ w.column \in DOMAIN b.columns /\ w.start \in Nat \ {0}
                            /\ w.start + WordLength - 1 <= Len(b.columns[w.column])

-----------------------------------------------------------------------------
(* Spans of delimiters.  A span lies in one row and ends at the first      *)
(* closer of its kind; a letter inside interrupts it.                       *)

Row(i) == (i - 1) \div RowWidth

Span(text, i, j) ==
  /\ text[i] \in Opener /\ i < j /\ Row(i) = Row(j)
  /\ text[j] = Closer[text[i]]
  /\ \A k \in i + 1 .. j - 1 : text[k] # Closer[text[i]]

Interrupted(text, i, j) == \E k \in i + 1 .. j - 1 : text[k] = "w"

RowEnd(i) == RowWidth * (Row(i) + 1)
Starts(text) == {i \in DOMAIN text : text[i] \in Opener}

\* The end of a row, or of the text.
Ends(text, i) ==
  {j \in (i + 1 .. RowEnd(i)) \cap DOMAIN text : Span(text, i, j) /\ ~Interrupted(text, i, j)}

\* discoverPatternSpans; the identity of a span is its place on the board.
SpansOf(text, c) ==
  UNION {{[column |-> c, start |-> i, end |-> j] : j \in Ends(text, i)} : i \in Starts(text)}
Spans(columns) == UNION {SpansOf(columns[c], c) : c \in DOMAIN columns}

Cells(w) == w.start .. w.start + WordLength - 1

\* containsWord
InWord(words, c, i) == \E w \in words : w.column = c /\ i \in Cells(w)

-----------------------------------------------------------------------------
(* Generation.                                                              *)

\* What place leaves: candidates stay apart, and only they bring letters.
Placed(b) ==
  /\ \A v, w \in b.words : v # w /\ v.column = w.column =>
       \/ v.start + WordLength + WordGap <= w.start
       \/ w.start + WordLength + WordGap <= v.start
  /\ \A v, w \in b.words : v.text = w.text \/ v.id = w.id => v = w
  /\ \A c \in DOMAIN b.columns : \A i \in DOMAIN b.columns[c] :
       b.columns[c][i] = "w" <=> InWord(b.words, c, i)

\* The rendered rows, column after column, of these cells.
RowsOf(b, cells) ==
  LET height == 1 + Row(Len(b.columns[1])) IN
  {(x[1] - 1) * height + Row(x[2]) : x \in cells}

\* rowIntervalsOverlapPairwise
Overlap(R, S) ==
  /\ \E r \in R, s \in S : r <= s
  /\ \E r \in R, s \in S : s <= r

\* classifyFinalBoard and publishable
Publishable(b) ==
  LET spans == Spans(b.columns)
      cells == (DOMAIN b.columns) \X (1 .. Len(b.columns[1]))
      covered == {x \in cells : \E s \in spans : s.column = x[1] /\ x[2] \in s.start .. s.end}
      lone == {x \in cells : b.columns[x[1]][x[2]] \in Delimiter} \ covered
      words == {x \in cells : b.columns[x[1]][x[2]] = "w"}
      filler == {x \in cells : b.columns[x[1]][x[2]] = "."}
      kinds == <<RowsOf(b, words), RowsOf(b, covered), RowsOf(b, lone)>> IN
  /\ Cardinality(spans) \in MinPatterns .. MaxPatterns
  /\ Cardinality(lone) >= Cardinality(spans)
  /\ \E s \in spans : s.end > s.start + 1
  /\ \E c \in DOMAIN b.columns : \E i, j \in DOMAIN b.columns[c] :
       Span(b.columns[c], i, j) /\ Interrupted(b.columns[c], i, j)
  /\ \A k \in 1 .. 3 : Cardinality(kinds[k]) >= MinRows
  /\ Cardinality(RowsOf(b, filler)) >= MinRows
  /\ \A k, m \in 1 .. 3 : Overlap(kinds[k], kinds[m])

\* GenerateBoard gives up after placementTries attempts.
GenerateBoard(g) ==
  {Nil} \cup
  {[gen |-> g, columns |-> b.columns, words |-> b.words, secret |-> b.secret, used |-> {},
    left |-> MaximumAttempts, solved |-> FALSE, failed |-> FALSE] :
      b \in {b \in Boards : Placed(b) /\ Publishable(b)}}

\* What is kept of a board while it is played.
Candidates == UNION {b.words : b \in Boards}
PatternSpan == [column : Nat, start : Nat, end : Nat]
HackState ==
  [gen : Nat, columns : Seq(Seq(Glyph)), words : SUBSET Candidates, secret : {w.text : w \in Candidates},
   used : SUBSET PatternSpan, left : Nat, solved : BOOLEAN, failed : BOOLEAN]

-----------------------------------------------------------------------------
(* Play.  A target is <<"word", id>> or <<"cell", column, index>>; one that *)
(* names nothing leaves the puzzle as it is.                                *)

Playing(p) == p # Nil /\ ~p.solved /\ ~p.failed

Candidate(p, target) == {w \in p.words : target = <<"word", w.id>>}

\* validHackPreviewTarget; a filler may also be the first glyph of a span.
Filler(p, target) ==
  /\ target[1] = "cell"
  /\ target[2] \in DOMAIN p.columns /\ target[3] \in DOMAIN p.columns[target[2]]
  /\ ~InWord(p.words, target[2], target[3])

StartsSpan(p, target) ==
  \E s \in Spans(p.columns) : s.column = target[2] /\ s.start = target[3]

SpendAttempt(p) == [p EXCEPT !.left = @ - 1, !.failed = (p.left = 1)]

ApplyGuess(p, target) ==
  CASE Candidate(p, target) # {} ->
         IF \E w \in Candidate(p, target) : w.text = p.secret
         THEN [p EXCEPT !.solved = TRUE] ELSE SpendAttempt(p)
    [] Candidate(p, target) = {} /\ Filler(p, target) /\ ~StartsSpan(p, target) -> SpendAttempt(p)
    [] OTHER -> p

ForceSuccess(p) == [p EXCEPT !.solved = TRUE]

\* Mutant of Dotted: the glyph after the candidate goes with it.
DottedTooFar(p, w) ==
  [p EXCEPT !.words = @ \ {w},
            !.columns[w.column] = [i \in DOMAIN @ |-> IF i \in w.start .. w.start + WordLength THEN "." ELSE @[i]]]

\* dotCandidate
Dotted(p, w) ==
  [p EXCEPT !.words = @ \ {w},
            !.columns[w.column] = [i \in DOMAIN @ |-> IF i \in Cells(w) THEN "." ELSE @[i]]]

\* incorrectCandidateIDs
Decoys(p) == {w \in p.words : w.text # p.secret}

\* Mutant of ApplyPattern: a span that restored the attempts may be used again.
ApplyPatternAgain(p, s) ==
  IF s \notin Spans(p.columns) \/ s \in p.used THEN {}
  ELSE {[p EXCEPT !.left = MaximumAttempts]}
       \cup {Dotted([p EXCEPT !.used = @ \cup {s}], w) : w \in Decoys(p)}

\* A span acts once: it removes a decoy or restores the attempts.
ApplyPattern(p, s) ==
  IF s \notin Spans(p.columns) \/ s \in p.used THEN {}
  ELSE LET spent == [p EXCEPT !.used = @ \cup {s}] IN
       {[spent EXCEPT !.left = MaximumAttempts]} \cup {Dotted(spent, w) : w \in Decoys(p)}
=============================================================================
