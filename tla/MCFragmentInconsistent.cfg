SPECIFICATION Spec
CONSTANTS
  x = x
  y = y
  chan1 = chan1
  chan2 = chan2
  byte = byte
  Zero = Zero
  Addresses = {x, y}
  SeqNumbers = {0}
  Channels = {chan1, chan2}
  NoChannel = NoChannel
  Bytes = {Zero, byte}
  Fragments <- MCWellFormed
  NoMessage = NoMessage
  Timeout = 1
  MaxMessageSize = 2
PROPERTY InconsistentDropped
