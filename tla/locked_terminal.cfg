SPECIFICATION TerminalsSpec
CONSTANTS
  RowWidth = 6
  WordLength = 2
  WordGap = 1
  MinPatterns = 2
  MaxPatterns = 3
  MinRows = 2
  MaximumAttempts = 2
  Boards <- MCBoards
  Nil = Nil
  Terminal = {t1, t2}
  Locked = {t1}
  LogicalSession = {s1, s2}
  Folder <- MCFolder
  Entry = {"memo"}
  Command = {"run"}
  Draft <- MCDraft
  Aim <- MCAim
  MaxPage = 0
  MaxPuzzles = 2
SYMMETRY Sessions
INVARIANTS CursorIsValid AuditFollowsThePuzzles
PROPERTY PuzzlesStayFair
