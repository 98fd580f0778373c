\* Two workers, one respondent, two ids: every race between two requests.
SPECIFICATION FrozenSpec
CONSTANTS
  Keys <- MCKeys
  Values <- MCTwoValues
  EmptyValues = {}
  AsText <- MCAsText
  Rules <- MCRules
  Evaluate <- MCEvaluate
  Schemas <- MCPublished
  MaxEdits = 0
  NoCell = NoCell
  NoField = NoField
  NoRow = NoRow
  Gone = Gone
  NoTime = NoTime
  Nil = Nil
  Users = {u1}
  Workers = {w1, w2}
  ResponseIds = {r1, r2}
SYMMETRY Symmetry
INVARIANTS
  TypeOK
  OneDraft
  NoOrphanAnswers
  SensitiveAtRest
PROPERTIES
  RowsMoveOn
  SettledImmutable
  WholeWrites
