\* A device that finds a chunk too big.
CONSTANTS
  A = A
  B = B
  Files <- MCFiles
  Size <- MCSize
  Ids = {1, 257}
  Tags = {t1}
  Mower = TRUE
  Refusals = {"CHUNK_SIZE_IS_TOO_BIG"}
  NoId = NoId
  NoUpload = NoUpload
  NoTag = NoTag
  NoImage = NoImage
  NoReply = NoReply
  NoFile = NoFile
  MaxInFlight = 2
  Duplication = FALSE
  ChunkSizes = {2}
  MAX_TRIES = 2
  max_retries = 2
  FLASH_RETRIES = 2
SPECIFICATION Spec
INVARIANT UploadedIsComplete
