CONSTANTS
  Handler = {h1, h2}
  User = {u1}
  Nobody = nobody
  NULL = NULL
  Name = {n1}
  Ops = {"LIST_COMPANIES", "DOWNLOAD", "UPLOAD", "NEW_COMPANY", "REMOVE_COMPANY", "REMOVE_DOCUMENT"}
  Sizes = {2}
  Faults = {"unlink", "peer", "restart"}
  MaxCompany = 1
  MaxPage = 1
SPECIFICATION FairSpec
INVARIANT AckedUploadStored
PROPERTIES ConnectionEnds AckedIsIndexed
CHECK_DEADLOCK FALSE
