CONSTANTS
  Handler = {h1, h2}
  User = {u1, u2}
  Nobody = nobody
  NULL = NULL
  Name = {n1}
  Ops = {"SEARCH", "DOWNLOAD", "UPLOAD", "NEW_COMPANY", "REMOVE_COMPANY", "REMOVE_DOCUMENT"}
  Sizes = {1}
  Faults = {"write", "unlink", "proc", "crash"}
  MaxCompany = 2
  MaxPage = 1
SPECIFICATION Spec
INVARIANTS CompanyOfOwner OnlyOwnData
PROPERTIES OnlyOwnerChanges ImplementsPromise
SYMMETRY Alike
CHECK_DEADLOCK FALSE
