SPECIFICATION OneSpec
CONSTANTS
  None = None
  Entities = {e1, e2}
  Wanted = 1
  MaxCalls = 6
  MaxDrafts = 3
  MaxTroubles = 1
  Types = {unit, child}
  Technologies = {tech}
  There = {unit, tech}
  Tabs = {t1, t2}
  MaxTexts = 2
  MaxEdits = 2
  MaxUpsets = 1
  Boards = {a, b}
  MaxLines = 2
  MaxBreaks = 1
SYMMETRY Alike
INVARIANTS AnswerHoldsItsRevision SaveIsWhatWasShown BusyIsAwaited EditsAddUp SavedWasWritten
PROPERTY NothingReplacedUnasked
CHECK_DEADLOCK FALSE
