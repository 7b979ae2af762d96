CONSTANTS
  None = None
  KeyOrder <- MCKeyOrder
  PageSize = 2
  Identity <- MCIdentity
  Stores = {"s1"}
  StoreLists <- MCStoreLists
  AppOf <- MCAppOf
  Internal = {}
  Hits = {"r1"}
  Base64 = {}
  Churn = {}
  MaxActs = 3
  MaxChanges = 0
  MaxRequests = 1
SPECIFICATION Spec
INVARIANT OverwriteIsForThatKey
CHECK_DEADLOCK FALSE
