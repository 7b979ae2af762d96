SPECIFICATION Spec
CONSTANTS
  Ids = {ia}
  EvictIds = {ia}
  Callers = {c1, c2, c3}
  Slots = {s1, s2}
  NoSlot = NoSlot
  NoId = NoId
INVARIANT NoLeak
