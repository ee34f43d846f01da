SPECIFICATION FairSpec
CONSTANTS
  Conn = {1, 2, 3}
  Channel = {1, 2}
  Pattern = {1, 2}
  Matches <- BothOrSecond
  KeyStage = 1
  ValueStage = 1
  Starts <- Some
CHECK_DEADLOCK FALSE
INVARIANT PresentReturnedOnce
INVARIANT NoStrayMessage
PROPERTY PublishEnds
