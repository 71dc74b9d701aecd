CONSTANTS
  Handler = {h1, h2}
  User = {u1}
  Nobody = nobody
  NULL = NULL
  Name = {n1}
  Ops = {"UPLOAD", "NEW_COMPANY"}
  Sizes = {1}
  Faults = {"short"}
  MaxCompany = 1
  MaxPage = 1
SPECIFICATION Spec
INVARIANT AckedUploadStored
CHECK_DEADLOCK FALSE
