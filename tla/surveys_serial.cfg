\* One request at a time about each survey.
SPECIFICATION SerialSpec
CONSTANTS
  Keys <- MCKeys
  Bodies <- MCBodies
  SurveyIds = {s1, s2, s3}
  TreeIds = {t1, t2, t3, t4}
  Workers = {w1, w2}
  NoSurvey = NoSurvey
  Nil = Nil
SYMMETRY Symmetry
PROPERTIES
  StatusMoves
  PublishedTreeFrozen
  WholeTreeCloned
