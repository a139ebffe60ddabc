SPECIFICATION FairSpec
CONSTANTS
  MAX_SOCKET_AMOUNT = 2
  OUT_MESSAGE_STACK_SIZE = 1
  MaxPackets = 1
  PacketSize = 1
  ConnectOptions <- Plain
  UnitMod = 3
  MaxLost = 0
INVARIANTS OneWriteAtATime SocketsAreOpen
PROPERTIES EverySocketIsServed
