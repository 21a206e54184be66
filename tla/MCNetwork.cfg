SPECIFICATION MCSpec
CONSTANTS
  Client = {"c1", "c2"}
  Options <- Runs
  MaxSocket = 4
  MaxReopen = 1
  Connections <- Streams
  MaxMessage = 3
  Wrap = 64
  BufferSize = 40
  HttpAsChannel = 32
  MaxCycle = 2
  STUN_BUFFER_SIZE = 1
  BUFFEREVENT_HIGH_WATERMARK = 2
  BUFFEREVENT_MAX_TCP_TO_TCP_WRITE = 3
  Talking = {"client_s", "peer_s"}
  MaxSent = 5
CHECK_DEADLOCK FALSE
INVARIANTS
  MessageReadAsBuilt
  StreamsKept
  PipeKept
  ListenerSound
  
