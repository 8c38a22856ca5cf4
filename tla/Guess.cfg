SPECIFICATION FairSpec
CONSTANTS
  Answers <- ToSeven
  Upper = 7
  MaxInt = 15
  MaxRuns = 2
INVARIANTS AnswerInRange RangeHalves EndsOnAnswer BoundsStay
PROPERTIES GuessesComplete
CHECK_DEADLOCK FALSE
