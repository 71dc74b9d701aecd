CONSTANTS
  Byte <- SmallBytes
  MaxSent = 2
  cacheSize = 2
  Layout <- SmallLayout
  Keywords <- SmallKeywords
  MaxKeyword = 1
  Uploads <- SmallUploads
SPECIFICATION Spec
INVARIANT CursorValid
CHECK_DEADLOCK FALSE
