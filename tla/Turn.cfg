SPECIFICATION TurnSpec
CONSTANTS
  MaxCallsPerReply = 2
  MaxMarkersPerReply = 1
  MaxMessageRunes = 2
  MaxSegments = 2
  Bytes = 3
  Slack = 1
  MinSentence = 2
  TimeoutMin = 1
  ClauseFallback = 3
  HardCap = 4
  FirstTexts <- ThreeFragments
  AgainTexts <- OneFragment
  MaxPiece = 3
  MaxPerReply = 1
  SmartSend = TRUE
  KeywordSend = TRUE
INVARIANTS StreamAgrees SentOnce WholeAnswers SegmentsHonest
CHECK_DEADLOCK FALSE
