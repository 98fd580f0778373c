\* The logic engine and the field types, on every input of a small set.
SPECIFICATION Spec
CONSTANTS
  RuleTrees <- MCRuleTrees
  Depth <- MCDepth
  AnswerDicts <- MCAnswerDicts
  FieldQuestions <- MCFieldQuestions
  Answers <- MCAnswers
INVARIANTS
  CombinersAreBoolean
  NegatedOps
  AcceptedRaiseOnlyOnOrder
  AcceptedConfigsUsable
