\* A field of a draft survey becomes sensitive under its answers.
SPECIFICATION Spec
CONSTANTS
  Keys <- MCKeys
  Values <- MCOneValue
  EmptyValues = {}
  AsText <- MCAsText
  Rules <- MCRules
  Evaluate <- MCEvaluate
  Schemas <- MCMadeSensitive
  MaxEdits = 1
  NoCell = NoCell
  NoField = NoField
  NoRow = NoRow
  Gone = Gone
  NoTime = NoTime
  Nil = Nil
  Users = {u1}
  Workers = {w1, w2}
  ResponseIds = {r1}
INVARIANT
  SensitiveAtRest
