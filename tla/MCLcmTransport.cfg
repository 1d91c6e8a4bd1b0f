SPECIFICATION FairSpec
CONSTANTS
  a = a
  b = b
  addrA = addrA
  addrB = addrB
  X = X
  Y = Y
  MAGIC_SHORT = MAGIC_SHORT
  MAGIC_FRAGMENT = MAGIC_FRAGMENT
  Zero = Zero
  NotUtf8 = NotUtf8
  NoChannel = NoChannel
  NoPacket = NoPacket
  Senders = {a, b}
  Addr <- MCDistinctAddr
  Workloads <- MCWorkloads
  Channels <- MCChannels
  Strays <- MCStrays
  NoMessage = NoMessage
  Idle = Idle
  Down = Down
  fragment_mtu = 11
  U16 = 4
  U32 = 10
  Timeout = 0
  MaxMessageSize = 9
  MayDuplicate = {a}
  MayCrash = {a}
  MaxTicks = 1
INVARIANTS TypeOK FragmentsCoverPayload
PROPERTIES ImplementsChannel EventuallyDelivered
CHECK_DEADLOCK FALSE
