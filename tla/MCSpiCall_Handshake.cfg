CONSTANTS
  Commands = {availData, getDataBuf}
  Default = Default
  NoCall = NoCall
  MaxCalls = 5
  MaxRestarts = 2
SPECIFICATION FairSpec
INVARIANTS TypeOK Answered
PROPERTIES ImplementsRadioCall CallEnds
\* After the last call the driver is at rest.
CHECK_DEADLOCK FALSE
