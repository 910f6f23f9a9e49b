SPECIFICATION FairSpec
CONSTANTS
  Wrap = 32
  NulByte = "NUL"
  Chunk = 2
  MaxReserve = 8
  Segment = 1
  Endpoints <- MCEndpoints
  Responses <- MCResponses
  StaticEndpoints <- MCStaticEndpoints
  StaticIndexes <- MCStaticIndexes
  Files <- MCFiles
  Mime <- MCMime
  Jobs <- MCJobs
  Strangers <- MCStrangers
  Servers <- MCServers
INVARIANTS
  HttpIInv
  ResultIsAnswer
  CleanExchange
PROPERTIES
  ImplementsRequest
  ExchangeEnds
CHECK_DEADLOCK FALSE
