CONSTANTS
  Handler = {h1, h2}
  User = {u1}
  Nobody = nobody
  NULL = NULL
  Name = {n1}
  Ops = {"DOWNLOAD", "UPLOAD", "NEW_COMPANY", "REMOVE_DOCUMENT"}
  Sizes = {2}
  Faults = {"query", "open", "read", "write", "unlink", "proc", "crash"}
  MaxCompany = 1
  MaxPage = 2
SPECIFICATION Spec
INVARIANTS TypeOK FileOfOneUpload AckedUploadStored RemovedStaysRemoved OrphanOnlyByRemoval IndexMatchesFile LateDownloadWhole
SYMMETRY Alike
CHECK_DEADLOCK FALSE
