\* Crashes between calls; every append reaches the file.
CONSTANTS
  c1 = c1  c2 = c2  c3 = c3  g1 = g1  g2 = g2
  NoDeadline = NoDeadline  BadDeadline = BadDeadline
  Callers = {c1, c2}
  GateOf <- GateOfEach
  Gates = {g1, g2}
  Opened <- SomeGates
  LogFaults = {}
  Poll = 1
  Timeout = 1
  MaxNow = 3
  MaxRestarts = 1
SPECIFICATION FlowSpec
CHECK_DEADLOCK FALSE
INVARIANTS FlowTypeOK Projection SleepersAreListed
PROPERTIES DenyStands LifecycleSpec
