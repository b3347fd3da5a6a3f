SPECIFICATION FairSpec
CONSTANTS
  None = None
  MaxAsked = 3
  MaxBackends = 3
  Kinds <- BothKinds
  MaxProcesses = 2
INVARIANT TypeOK
INVARIANT StartedHasSlot
INVARIANT AnswersTruthful
INVARIANT NoneLeftBehind
PROPERTY FirstAnswered
CHECK_DEADLOCK FALSE
