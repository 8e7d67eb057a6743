SPECIFICATION Spec
CONSTANTS
  Parts = {"responder", "prompt", "load", "forks", "pipes", "tree", "persistent", "once", "server", "one_thread", "dispatch"}
  Clients = {c1, c2}
  Sizes = {1, 3}
  MAX_DATA_SIZE = 2
  MaxAsked = 3
  MaxPending = 2
  Loaders = {"bidder", "loader"}
  Order <- SmallOrder
  Sources <- SmallSources
  Resting <- Files
  Unique = {"geo"}
  Request = 1
  MaxForks = 4
  NValues = 6
  N = 3
  MaxSteps = 4
  Kinds <- SmallKinds
  MaxRequests = 2
  MaxPieces = 2
  BufferSize = 40
  Threads = {t1, t2}
  OneThread = {t1}
  Conns = {c1, c2}
  Methods = {"GET", "POST", "PURGE"}
  Matchers = 3
  Uris <- SmallUris
  Registered <- SmallRegistered
  MaxDispatched = 1
INVARIANTS RepliesToTheAsker DoneExactlyOnce ServesLiveConnections
PROPERTY OwedInTheEnd
CHECK_DEADLOCK FALSE
