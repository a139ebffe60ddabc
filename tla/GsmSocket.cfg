SPECIFICATION Spec
CONSTANTS
  MAX_SOCKET_AMOUNT = 1
  OUT_MESSAGE_STACK_SIZE = 2
  MaxPackets = 2
  PacketSize = 2
  ConnectOptions <- Both
  UnitMod = 7
  MaxLost = 1
INVARIANTS UnitsInOrder ConnectingGoesOn SocketsAreOpen
