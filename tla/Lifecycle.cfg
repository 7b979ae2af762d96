SPECIFICATION FairSpec
CONSTANTS
  Poll = poll
  Users = {u1}
  MaxPid = 2
  MaxReqs = 2
  NoEntry = NoEntry
INVARIANTS
  TypeOK
  StopRemembered
  
PROPERTIES
  
  StopReported
  SuppressionLifts
