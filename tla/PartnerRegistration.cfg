\* One client; A, B or a third device may be registered already.
CONSTANTS
  A = A
  B = B
  X = X
  Addresses = {A, B, X}
  Devices = {A, B}
  PartnerMax = 3
  Clients = {c}
  MaxInFlight = 3
  NoPartner = NoPartner
  NoAddress = NoAddress
  NoReply = NoReply
  NoDevice = NoDevice
SPECIFICATION Spec
INVARIANTS TypeOK OneIdPerAddress
PROPERTIES AddressesStay WakesOwnDevice
