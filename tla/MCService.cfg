CONSTANTS
  Requests = {r1, r2, r3}
  Ids = {i1, i2}
  Creations <- MCCreations
  Cuts <- MCCuts
  Nothing = Nothing
  MaxNodes = 3
  MaxPipes = 3
  MaxMinutes = 2
  MaxCost = 1
  Never = 99
SPECIFICATION ServiceSpec
SYMMETRY Symmetry
CHECK_DEADLOCK FALSE
INVARIANTS ServiceTypeOK CreateAnswersHold AnswersNeverRunBack SolversGetValidInput
PROPERTY ImplementsStore
