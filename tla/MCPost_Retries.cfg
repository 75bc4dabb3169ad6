\* The longest wait is that of the writes, as in the code.
CONSTANTS
  Pieces = 6
  TIMEOUT_DATA_SENT = 3
  ClosePolls = 6
  ConnectWait = 7
SPECIFICATION Spec
INVARIANTS TypeOK SentAsWritten PassBounded
