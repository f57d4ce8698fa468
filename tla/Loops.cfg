SPECIFICATION FairSpec
CONSTANTS
  Text <- MC_Text
  Lens = {0, 1, 2, 3}
  ExhaustiveLens = {7}
  FileLen = 3
  FILE_CHUNK_SIZE = 2
  Retries = {1, 2, 3}
  MaxTries = 6
  Families = {"AF_INET", "AF_INET6"}
  AF_UNSPEC = "AF_UNSPEC"
  Datagram = TRUE
  ShortWrites = FALSE
INVARIANTS
  SentIsReported
  ReadsExact
PROPERTIES
  CallReturns
