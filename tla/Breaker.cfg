CONSTANTS
  c1 = c1
  c2 = c2
  e1 = e1
  Callers <- MCCallers
  Endpoints <- MCEndpoints
  Global = Global
  Threshold = 2
  OpenFor = 2
  MaxAttempts = 2
SPECIFICATION Spec
INVARIANTS UpstreamSpared GlobalOpensForCause OneAnswerShown
PROPERTIES GlobalRecovers CallReturns
