SPECIFICATION Spec
CONSTANTS
  app = app
  ok = ok
  data = data
  Self = Self
  Apps = {app}
  Channels = {ok}
  Unmappable = {}
  NoChannel = NoChannel
  Allow = {}
  Deny = {}
  Bodies = {data}
  NoMessage = NoMessage
  SeqMod = 5
  PruneAt = 2
  Window = 1
  SubscriberCap = 1
  SocketCap = 2
INVARIANT NoEcho
