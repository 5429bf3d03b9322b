SPECIFICATION Spec
CONSTANTS
  TCP_WND = 2
  TCP_SND_BUF = 2
  TCP_MSS = 1
  TCP_WND_UPDATE_THRESHOLD = 2
  MaxUp = 2
  Down = 3
  Windows = {0, 9}
INVARIANTS StreamsIntact BuffersAgree NoAssertFails OrderlyEndLosesNothing
 
CHECK_DEADLOCK FALSE
