SPECIFICATION FeedSpec
CONSTANTS
  t1 = t1
  t2 = t2
  t3 = t3
  tmp = tmp
  plain = plain
  hidden = hidden
  Threads = {t1, t2, t3}
  Processes = {"A", "B"}
  ProcessOf <- TwoAndOne
  Fds = {3}
  Paths = {tmp, plain, hidden}
  Kind <- KindOf
  Elements = {1, 2}
  NoEntry = NoEntry
  Failed = 1
  Ports = {443}
  Ignored = {}
  Noisy = {}
  Size <- RingSizes
  Capacity <- ChannelSizes
  MaxCalls = 2
INVARIANTS FeedTypeOK PathsOfOwnProcess
PROPERTY ReaderUnblocked
CHECK_DEADLOCK FALSE
