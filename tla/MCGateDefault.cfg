\* An expired gate with default_action deny.
CONSTANTS
  c1 = c1  c2 = c2  c3 = c3  g1 = g1  g2 = g2
  NoDeadline = NoDeadline  BadDeadline = BadDeadline
  Callers = {c1, c2}
  GateOf <- GateOfTwo
  Gates = {g1}
  Opened <- WithDeadline
  LogFaults = {}
  Poll = 2
  Timeout = 3
  MaxNow = 5
  MaxRestarts = 0
SPECIFICATION FlowSpec
CHECK_DEADLOCK FALSE
PROPERTIES DefaultActionApplies
