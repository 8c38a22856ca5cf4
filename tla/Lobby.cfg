SPECIFICATION FairSpec
CONSTANTS
  c1 = c1
  c2 = c2
  c3 = c3
  NoClient = NoClient
  Clients <- Three
  MAX_PLAYER = 2
  Unreliable <- FirstTwo
  MallocFails = TRUE
  CreateFails = TRUE
INVARIANTS OwnNumber RoundEntry RecordOwned
PROPERTIES RoundStarts Answered
CHECK_DEADLOCK FALSE
