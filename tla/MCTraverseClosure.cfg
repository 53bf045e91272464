SPECIFICATION Spec
CONSTANTS
  Nodes = {1, 2, 3, 4, 5, 6}
  Scope = {1, 2, 3, 4, 5}
  Members = {1, 2}
  Graphs <- MCGraphs
  Hidden <- MCHidden
  Start = 1
  Hops = {2, 6}
  MinHops = {0, 2}
  Limits = {1, 2, 4}
  LanePage = 2
  PageBudget = 12
  EdgeBudget = 5
  MaxExpire = 1
INVARIANTS UnionIsClosure
CHECK_DEADLOCK FALSE
