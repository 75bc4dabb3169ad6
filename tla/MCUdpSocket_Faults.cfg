CONSTANTS
  NTP_PACKET_SIZE = 2
  WIFI_SOCKET_BUFFER_SIZE = 3
  MaxRequests = 3
  MaxQueue = 2
SPECIFICATION FairSpec
INVARIANTS TypeOK ClockFromTimeStamp
PROPERTIES RequestEnds AnswerTaken
\* After the last request the device is at rest.
CHECK_DEADLOCK FALSE
