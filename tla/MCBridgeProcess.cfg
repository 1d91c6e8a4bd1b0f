SPECIFICATION FairSpec
CONSTANTS
  c1 = c1
  c2 = c2
  p1 = p1
  g1 = g1
  i1 = i1
  h1 = h1
  eth0 = eth0
  port = port
  pre1 = pre1
  pre2 = pre2
  client = client
  ep = ep
  Channels = {c1, c2}
  Regexes = {{}, {c1}, {c2}, {c1, c2}}
  Urls <- MCAllUrls
  Prefixes = {lcm, pre1, pre2}
  InterfaceNames = {i1, h1, eth0}
  DEFAULT_LCM_URL <- MCDefaultUrl
  DEFAULT_KEY_PREFIX = lcm
  DEFAULT_MAX_MESSAGE_SIZE = 4
  DEFAULT_WORK_THREAD_NUM = 2
  DEFAULT_MAX_BLOCK_THREAD_NUM = 50
  None = None
  Invalid = Invalid
  Err = Err
  Paths = {p1}
  MulticastGroups = {g1}
  Addresses = {g1, h1, i1}
  Interfaces = {i1}
  UNSPECIFIED = UNSPECIFIED
  Files <- MCFiles
  DefaultFile <- MCDefaultFile
  CommandLines <- MCCommandLines
  Starts = {1, 2, 3}
  Poisoned = Poisoned
INVARIANTS TypeOK ConfiguredAsAsked RuntimeAsFirstAsked NoOrphans
PROPERTIES StopReleases StartSettles
CHECK_DEADLOCK FALSE
