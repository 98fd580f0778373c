\* Two requests at once, about up to three surveys.
SPECIFICATION Spec
CONSTANTS
  Keys <- MCKeys
  Bodies <- MCOneKeyBodies
  SurveyIds = {s1, s2, s3}
  TreeIds = {t1, t2, t3, t4}
  Workers = {w1, w2}
  NoSurvey = NoSurvey
  Nil = Nil
SYMMETRY Symmetry
INVARIANTS
  TypeOK
  VersionsUnique
  VersionsContiguous
  PublishedIsDated
  KeysUnique
PROPERTIES
  FrozenForGood
