CONSTANTS
  Sockets = {s1, s2}
  NoSock = NoSock
  NTP_RESPONSE_WAIT_TIME = 1
  BE_RESPONSE_WAIT_TIME = 1
  WIFI_CONNECTION_TIMEOUT = 1
  DEFAULT_REMOTE_SYNC_INTERVAL = 2
  DEFAULT_TIME_SYNC_INTERVAL = 9
  TIME_SYNC_RETRY_INTERVAL = 5
  WIFI_CHECK_STAT_INTERVAL = 2
  WIFI_RECONNECT_INTERVAL = 7
  MaxPass = 2
  MaxChunks = 0
  Lossy = TRUE
SPECIFICATION Spec
SYMMETRY SocketSymmetry
INVARIANTS
  TypeOK OneConversation SocketHasOwner WaitHasSocket OneBuffer ReconnectArmed InStep 
PROPERTIES ImplementsSession NoSecondRequest 
