CONSTANTS
  Byte <- SmallBytes
  MaxSent = 7
  cacheSize = 3
  Layout <- SmallLayout
  Keywords <- SmallKeywords
  MaxKeyword = 1
  Uploads <- SmallUploads
SPECIFICATION Spec
INVARIANTS TypeOK ParsedAsSent StoredIsBody ValueBounded ReadingBounded
PROPERTIES Settles
CHECK_DEADLOCK FALSE
