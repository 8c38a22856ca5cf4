SPECIFICATION FairSpec
CONSTANTS
  r1 = r1
  r2 = r2
  CallsFail <- AnyCall
  Quantities <- Amounts
  MaxItems = 1
  MayFork <- Bool
  WriterDigits <- Nine
  MaxDigits = 2
  Segments = 2
  MaxLetters = 2
  Riders <- TwoRiders
  Pids <- ThreePids
  MaxSockets = 2
  ExecFails <- Bool
  Sittings <- Exercises
INVARIANTS NothingLeft PinsHeld ShowsWhatWasGiven FrameFresh OwnTrack ZombiesReaped
PROPERTIES ProgramsEnd
CHECK_DEADLOCK FALSE
