\* A request that loaded the draft acts after the submit.
SPECIFICATION FrozenSpec
CONSTANTS
  Keys <- MCOneKey
  Values <- MCOneValue
  EmptyValues = {}
  AsText <- MCAsText
  Rules <- MCRules
  Evaluate <- MCEvaluate
  Schemas <- MCOneField
  MaxEdits = 0
  NoCell = NoCell
  NoField = NoField
  NoRow = NoRow
  Gone = Gone
  NoTime = NoTime
  Nil = Nil
  Users = {u1}
  Workers = {w1, w2}
  ResponseIds = {r1, r2}
PROPERTY
  SubmittedImmutable
