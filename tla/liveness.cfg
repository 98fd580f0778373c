\* Fair workers on one response of two questions, of a survey that is edited and
\* frozen under it.
SPECIFICATION FairSpec
CONSTANTS
  Keys <- MCKeys
  Values <- MCOneValue
  EmptyValues = {}
  AsText <- MCAsText
  Rules <- MCRules
  Evaluate <- MCEvaluate
  Schemas <- MCEdited
  MaxEdits = 1
  NoCell = NoCell
  NoField = NoField
  NoRow = NoRow
  Gone = Gone
  NoTime = NoTime
  Nil = Nil
  Users = {u1}
  Workers = {w1, w2}
  ResponseIds = {r1}
PROPERTIES
  EveryRequestAnswered
  EventuallySettled
