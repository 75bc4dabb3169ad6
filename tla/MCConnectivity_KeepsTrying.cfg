CONSTANTS
  Sockets = {s1}
  NoSock = NoSock
  NTP_RESPONSE_WAIT_TIME = 1
  BE_RESPONSE_WAIT_TIME = 1
  WIFI_CONNECTION_TIMEOUT = 1
  DEFAULT_REMOTE_SYNC_INTERVAL = 2
  DEFAULT_TIME_SYNC_INTERVAL = 4
  TIME_SYNC_RETRY_INTERVAL = 3
  WIFI_CHECK_STAT_INTERVAL = 2
  WIFI_RECONNECT_INTERVAL = 3
  MaxPass = 1
  MaxChunks = 0
  Lossy = FALSE
SPECIFICATION FairSpec
PROPERTY KeepsTrying
