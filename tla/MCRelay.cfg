SPECIFICATION MCSpec
CONSTANTS
  PortsSize = 8
  CounterSize = 1000
  Start = 3
  End = 6
  MaxHigh = 11
  peer1 = peer1
  peer2 = peer2
  x1 = x1
  x2 = x2
  Peer = {peer1, peer2, denied}
  Denied = {denied}
  TcId = {1, 2}
  DataSocket = {x1, x2}
  None = None
  MAX_UNSENT_BUFFER_SIZE = 1
  MaxTc = 3
  MaxSent = 2
  Ip = {peer1, peer2, denied, other}
  PeerPort = {1, 2}
  ChNum = {16384, 16385}
  DeniedIp = {denied}
  NoRelay = {other}
  NoIp = none
  PermissionLifetime = 1
  ChannelLifetime = 2
  MaxAddresses = 2
  Threads = {x1, x2}
  Ports = {2, 3, 4, 5}
  Tokens = {11, 12, 13}
  Timeout = 1
  MaxTokenDel = 1
  MaxTry = 2
  Foreign = TRUE
  User = {x1, x2}
  NoUser = "nobody"
  Realm = {"r"}
  Ticket = {1, 2, 3}
  Family = {4}
  UserQuota = 1
  TotalQuota = 2
  Bps = {2}
  BpsCapacity = 3
  MaxSession = 3
SYMMETRY RelaySymmetry
CONSTRAINT Explored
CHECK_DEADLOCK FALSE
INVARIANTS
  
  PortsOwned
  TcpConnectionsSound
  
PROPERTIES
  
  SearchIsComplete
  PeersRight
