\* Requests are lost, repeated and delivered twice; the device refuses data in
\* every way that the client handles, and may be restarted at any time.
CONSTANTS
  A = A
  B = B
  Files <- MCFiles
  Size <- MCSize
  Ids = {1, 257}
  Tags = {t1}
  Mower = TRUE
  Refusals = {"SIZE_TOO_BIG", "CHUNK_SIZE_IS_TOO_BIG", "CHUNK_SIZE_IS_TOO_SMALL",
              "BLOCKED_BY_APPLICATION"}
  NoId = NoId
  NoUpload = NoUpload
  NoTag = NoTag
  NoImage = NoImage
  NoReply = NoReply
  NoFile = NoFile
  MaxInFlight = 2
  Duplication = TRUE
  ChunkSizes = {2}
  MAX_TRIES = 1
  max_retries = 1
  FLASH_RETRIES = 1
SPECIFICATION FairSpec
INVARIANTS TypeOK SafeInv FlashedOwnFile ResumableHoldsPrefix
PROPERTIES UploadEnds ImplementsStore
