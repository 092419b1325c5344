SPECIFICATION Spec
CONSTANTS
  Exercises <- PiscineExercises
  Concepts <- GoConcepts
  Limit = 4
  RowId = {1, 2, 3, 4}
  Instant = {0, 1, 2}
  InstantsOfDay = 2
  MaxPageLimit = 2
  MaxExportDays = 1
  MaxDepartures = 2
  Ghost = Ghost
  MaxRunes = 9
  AskedLimits = {1, 3}
INVARIANTS NamedAreReferenced ChoicesAreFair ChunksFit AnswerArrives WalkMissesDeparted ExportsMeet
CHECK_DEADLOCK FALSE
