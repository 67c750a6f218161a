\* Appends that fail unnoticed, crashes in the middle of one, and nobody who must act.
CONSTANTS
  c1 = c1  c2 = c2  c3 = c3  g1 = g1  g2 = g2
  NoDeadline = NoDeadline  BadDeadline = BadDeadline
  Callers = {c1, c2}
  GateOf <- GateOfTwo
  Gates = {g1}
  Opened <- DatedOrNot
  LogFaults = {"append", "torn"}
  Poll = 1
  Timeout = 2
  MaxNow = 3
  MaxRestarts = 1
SPECIFICATION FairFlowSpec
CHECK_DEADLOCK FALSE
INVARIANTS NoInventedVerdict ReplayIsLoop
PROPERTIES RetryEnds ResumeUnblocks
