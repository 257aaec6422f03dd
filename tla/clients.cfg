SPECIFICATION FairClientsSpec
CONSTANTS
  Keys <- ClientKeys
  Values <- ClientValues
  Sessions <- ClientSessions
  Threads <- ClientThreads
  Clients <- AllClients
  NumOps = 2
  NoValue = NoValue
  NoThread = NoThread
  NoTx = NoTx
  Selectors <- AllSelectors
  K = 2
  TotalReads = 3
  MaxTx = 13
CHECK_DEADLOCK FALSE
INVARIANT
  TestsPass
PROPERTIES
  ImplementsLevel
  ClientsEnd
