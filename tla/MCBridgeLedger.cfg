SPECIFICATION LedgerFairSpec
CONSTANTS
  app = app
  ok = ok
  denied = denied
  data = data
  Self = Self
  Apps = {app}
  Channels = {ok, denied}
  Unmappable = {}
  NoChannel = NoChannel
  Allow = {}
  Deny = {{denied}}
  Bodies = {data}
  NoMessage = NoMessage
  SeqMod = 3
  PruneAt = 2
  Window = 1
  SubscriberCap = 1
  SocketCap = 2
INVARIANTS TypeOK AccountsBalance SentSetBounded OnRecordWhileTimely NoEchoWhileTimely
PROPERTIES PruneSparesRecent RecordsDrain QueuesDrain
