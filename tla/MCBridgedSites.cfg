SPECIFICATION MCSpec
CONSTANTS
  lcm = lcm
  r = r
  x = x
  y = y
  star = star
  d1 = d1
  d2 = d2
  d3 = d3
  d4 = d4
  Reserved = {star}
  EmptyChunk = EmptyChunk
  NoKey = NoKey
  NoChannel = NoChannel
  PrefixA <- MCPrefixA
  PrefixB <- MCPrefixB
  Channels <- MCChannels
  Allow <- MCAllow
  Deny <- MCDeny
  Bodies = {d1, d2, d3, d4}
  Scripts <- MCScripts
  SelfA = SelfA
  SelfB = SelfB
  App = App
  NoMessage = NoMessage
  SeqMod = 3
  PruneAt = 1
  Window = 0
  SubscriberCap = 2
  SocketCap = 2
INVARIANTS HeardWasPosted NeverMultiplied
PROPERTIES ImplementsRelay EventuallyRelayed
CHECK_DEADLOCK FALSE
