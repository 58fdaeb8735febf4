SPECIFICATION Spec
CONSTANTS
  Settings <- MCSettings
  MaxCred = 2
  MaxChanges = 1
  Greetings <- MCGreetings
  Credentials <- MCCredentials
  Asks <- MCAsks
  Payload <- MCPayload
  LocalAddrs <- MCLocalAddrs
  RelayPort <- MCRelayPort
  Peers <- MCPeers
  Senders <- MCSenders
  Origins <- MCOrigins
  Datagrams <- MCDatagrams
  Data <- MCData
  Nothing = Nothing
INVARIANTS Authorized Understood Told 
CHECK_DEADLOCK FALSE
