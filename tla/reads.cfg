\* One survey, one administrator, two readers, and the cache.
SPECIFICATION ReadsSpec
CONSTANTS
  Keys <- MCKeys
  Bodies <- MCBodies
  SurveyIds = {s1}
  TreeIds = {t1, t2, t3, t4}
  Workers = {w1}
  NoSurvey = NoSurvey
  Nil = Nil
  Readers = {r1, r2}
  NoEntry = NoEntry
INVARIANTS
  ReadsTypeOK
  PublishedReadIsFinal
  QuietEntryFresh
PROPERTIES
  EventuallyFresh
