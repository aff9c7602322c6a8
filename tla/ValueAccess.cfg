\* At most two requests are under way, and a loop of upload.py counts to two.
CONSTANTS
  None = None
  NaN = NaN
  Raised = Raised
  RADIO_MODE = "RADIO_MODE"
  NoReply = NoReply
  One = 40
  Quantum = 4
  MaxInFlight = 2
  Duplication = TRUE
  MAX_TRIES = 2
  Descriptions <- MCDescriptions
  Initially <- MCInitially
  Inputs <- MCInputs

SPECIFICATION Spec

INVARIANTS
  TypeOK
  WithinDescription
  ReadsWhatWasMeant
  TakesEncrypted
  IdenticalSchedules
  ConfirmedIsStored
