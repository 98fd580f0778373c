\* Two workers at the responses of one respondent, while reports are made and an
\* analyst or an admin, or the respondent himself, reads.
SPECIFICATION ReadsSpec
CONSTANTS
  Keys <- MCKeys
  Values <- MCValues
  EmptyValues = {}
  AsText <- MCAsText
  Rules <- MCRules
  Evaluate <- MCEvaluate
  Schemas <- MCSchemas
  MaxEdits = 0
  NoCell = NoCell
  NoField = NoField
  NoRow = NoRow
  Gone = Gone
  NoTime = NoTime
  Nil = Nil
  Users = {u1}
  Workers = {w1, w2}
  ResponseIds = {r1, r2}
  Readers = {u1, u2}
  Redacted = Redacted
SYMMETRY Symmetry
INVARIANTS
  CountedAtLeastOnce
  ListComplete
  ExportFaithful
  ReadersSeeTheirShare
