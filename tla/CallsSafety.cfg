SPECIFICATION Spec
CONSTANTS
  c1 = c1
  c2 = c2
  Loads <- MCLoads
  Tokens = {1, 2}
  MaxDecisionChoices = 3
  MaxScoreLevels = 2
INVARIANTS VectorsMatch AnswersMatch UsageCounted LevelsAdapt TruncationHonest
