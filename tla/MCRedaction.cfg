\* Events with protected, sensitive, nested and missing fields, at every level.
CONSTANTS
  Paths <- MCPaths
  SensitiveKeys = {"token"}
  DefaultFields <- MCDefaults
  Allowlists <- MCAllowlists
  Inputs <- MCInputs
SPECIFICATION Spec
CHECK_DEADLOCK FALSE
INVARIANTS RedactTypeOK ProtectedSurvives NothingLeaks EvidenceIsExact RefusedWithCause
