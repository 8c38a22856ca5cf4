SPECIFICATION FairSpec
CONSTANTS
  c1 = c1
  c2 = c2
  c3 = c3
  Clients <- All
  Amount <- Mixed
  Times = 2
  MaxStarts = 2
INVARIANTS NoLostUpdate CriticalSection
PROPERTIES LeakStays RequestsAnswered
CHECK_DEADLOCK FALSE
