SPECIFICATION Spec
CONSTANTS
  Session = {s1, s2}
  c1 = c1
  c2 = c2
  n1 = n1
  n2 = n2
  Conn <- TwoConns
  Node <- TwoNodes
  Asked <- OneMoves
  AsOf = {}
  MaxRows = 4
  MaxTime = 1
  MaxCalls = 2
  None = None
  Open = Open
INVARIANTS IntervalsOrdered
CHECK_DEADLOCK FALSE
