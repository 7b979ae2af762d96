SPECIFICATION FairSpec
CONSTANTS
  Ids = {ia, ib}
  EvictIds = {ia}
  Callers = {c1, c2, c3}
  Slots = {s1, s2}
  NoSlot = NoSlot
  NoId = NoId
INVARIANTS
  TypeOK
  CloseOnce
  CachedUsable
  OutcomeShared
  Accounted
  OneOwnedConnection
  Retained
PROPERTIES
  CallsReturn
  CloseDrains
