CONSTANTS
  Requests <- AllRequests
  Window = 2
  Faults = {"in", "out", "kill", "query", "read", "write", "short", "slow", "crash",
            "reset", "silent"}
SPECIFICATION Spec
INVARIANTS TypeOK OkIsTrue DownloadIsTrue RepliesAreShown
PROPERTIES ExchangeEnds
CHECK_DEADLOCK FALSE
