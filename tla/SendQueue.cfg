CONSTANTS
  r1 = r1
  r2 = r2
  Replies <- MCReplies
  Parts = 2
  QueueSize = 2
  MaxAttempts = 3
  NoMsg = NoMsg
SPECIFICATION Spec
INVARIANTS FirstTriesInOrder DrainComplete
PROPERTIES EarlySettles ImplementsOutbox
