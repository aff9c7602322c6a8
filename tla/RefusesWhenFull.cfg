\* register_partner against its warning.
CONSTANTS
  A = A
  B = B
  X = X
  Addresses = {A, B, X}
  Devices = {A, B}
  PartnerMax = 3
  Clients = {c}
  MaxInFlight = 2
  NoPartner = NoPartner
  NoAddress = NoAddress
  NoReply = NoReply
  NoDevice = NoDevice
SPECIFICATION Spec
INVARIANT RefusesWhenFull
