\* One process that calls everything, whatever the two directories hold.
CONSTANTS
  Names = {n1, n2}
  Addresses = {a1, a2}
  InclusionMessages = {m1, m2}
  Processes = {p}
  NoMessage = NoMessage
  NoAddress = NoAddress
  NoDirectory = NoDirectory
  NoFile = NoFile
  NoGateway = NoGateway
SPECIFICATION Spec
INVARIANTS TypeOK MessagePersisted
PROPERTY ImplementsStore
