SPECIFICATION Spec
CONSTANTS
  MaxRounds = 3
INVARIANTS AnswerIsCurrent StaleReadersTakeOne
