SPECIFICATION Spec
CONSTANTS
  server = server
  command = command
  player = player
  loader = loader
  h1 = h1
  Procs = {server, command}
  Server = server
  Files <- TheFiles
  Players = {player}
  Loaders = {loader}
  Handlers = {h1}
  Home <- TheHomes
  NSeed = 2
  NLive = 1
  KindOf <- TheKinds
  MaxFaults = 1
  MaxRuns = 2
  MaxUsers = 2
  MaxRequests = 1
INVARIANTS TypeOK SchemaWhole OneFeed LiveCloses
CHECK_DEADLOCK FALSE
PROPERTY ServerComesUp
