\* Two respondents, each with one request at a time.
SPECIFICATION SerialSpec
CONSTANTS
  Keys <- MCKeys
  Values <- MCTwoValues
  EmptyValues = {}
  AsText <- MCAsText
  Rules <- MCRules
  Evaluate <- MCEvaluate
  Schemas <- MCEitherPublished
  MaxEdits = 0
  NoCell = NoCell
  NoField = NoField
  NoRow = NoRow
  Gone = Gone
  NoTime = NoTime
  Nil = Nil
  Users = {u1, u2}
  Workers = {w1, w2}
  ResponseIds = {r1, r2}
SYMMETRY Symmetry
INVARIANTS
  SubmittedValid
PROPERTIES
  ImplementsContract
  
