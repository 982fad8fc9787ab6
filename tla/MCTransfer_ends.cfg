SPECIFICATION FairSpec
CONSTANTS
  MaxRetries = 1
  MaxDownload = 3
  Grace = 2
  Window = 3
  Timeout = 5
  Speeds <- MCSpeeds
  Floors <- MCFloors
CHECK_DEADLOCK FALSE
INVARIANTS FileIsExact
PROPERTIES SecondAttemptIsSound Ends
