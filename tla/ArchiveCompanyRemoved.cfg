CONSTANTS
  Handler = {h1, h2}
  User = {u1}
  Nobody = nobody
  NULL = NULL
  Name = {n1}
  Ops = {"SEARCH", "UPLOAD", "NEW_COMPANY", "REMOVE_COMPANY"}
  Sizes = {1}
  Faults = {}
  MaxCompany = 1
  MaxPage = 1
SPECIFICATION Spec
INVARIANT StoredIsFound
CHECK_DEADLOCK FALSE
