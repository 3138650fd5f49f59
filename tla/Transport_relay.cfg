SPECIFICATION FairSpec
CONSTANTS
  HEADER = 2
  RequestSizes = {2, 6}
  ReplySizes = {1, 4}
  BUF_SIZE = 3
  MAXBUF = 6
  Room = 2
  MaxExchanges = 3
INVARIANTS TypeOK ReadsReply InStep
PROPERTIES RequestsCarried ExchangeEnds
CHECK_DEADLOCK FALSE
