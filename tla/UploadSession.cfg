\* Both ports of the device, each with its listener thread, and one upload.py
\* after the other.
CONSTANTS
  A = A
  B = B
  Files <- MCFiles
  Size <- MCSize
  Sessions <- MCSessions
  t1 = t1
  t2 = t2
  Ids = {1, 257}
  Tags = {t1, t2}
  Mower = TRUE
  Refusals = {}
  NoId = NoId
  NoUpload = NoUpload
  NoTag = NoTag
  NoImage = NoImage
  NoReply = NoReply
  NoFile = NoFile
  NoSession = NoSession
  NoValue = NoValue
  Waiting = Waiting
  MaxInFlight = 2
  MaxValuesInFlight = 2
  Duplication = FALSE
  ChunkSizes = {1}
  MAX_TRIES = 2
  max_retries = 1
  FLASH_RETRIES = 2
SPECIFICATION SessionSpec
INVARIANTS SessionTypeOK TaggedAsUploaded UploadedIsComplete FlashedOwnFile ResumableHoldsPrefix
PROPERTY SessionImplementsStore
