SPECIFICATION Spec
CONSTANTS
  a = a
  b = b
  addrA = addrA
  addrB = addrB
  X = X
  Y = Y
  MAGIC_SHORT = MAGIC_SHORT
  MAGIC_FRAGMENT = MAGIC_FRAGMENT
  Zero = Zero
  NotUtf8 = NotUtf8
  NoChannel = NoChannel
  NoPacket = NoPacket
  Senders = {a}
  Addr <- MCOneAddr
  Workloads <- MCThreeFragments
  Channels <- MCChannels
  Strays = {}
  NoMessage = NoMessage
  Idle = Idle
  Down = Down
  fragment_mtu = 11
  U16 = 2
  U32 = 16
  Timeout = 0
  MaxMessageSize = 9
  MayDuplicate = {}
  MayCrash = {}
  MaxTicks = 0
INVARIANT DeliveredIntact
CHECK_DEADLOCK FALSE
