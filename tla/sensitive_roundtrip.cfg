\* A number written to the encrypted column comes back as text.
SPECIFICATION Spec
CONSTANTS
  RuleTrees <- MCRuleTrees
  Depth <- MCDepth
  AnswerDicts <- MCAnswerDicts
  FieldQuestions <- MCFieldQuestions
  Answers <- MCAnswers
INVARIANTS
  SensitiveRoundTrip
