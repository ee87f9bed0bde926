CONSTANTS
  Username = {"a", "b"}
  Caller = {c1, c2}
  Starting <- MCStarting
  SessionTTL = 2
  MaxEvents = 3
  MaxEdits = 2
  Edited = {1, 6}
  File <- MCFile
  Editor = {e1, e2}
  Bodies <- MCBodies
  Generals <- MCGenerals
  Notifies <- MCNotifies
  Subjects <- MCSubjects
  Upgraded = TRUE
SPECIFICATION Spec
INVARIANTS TypeOK AccountsSurvive NothingCrossesAccounts SeededOnce RulesEvaluable CacheFollows FiringExplained
PROPERTIES SessionKept
CHECK_DEADLOCK FALSE
SYMMETRY Symmetry
