\* One user and one service; a datagram that does not parse.
CONSTANTS
  A = A
  B = B
  Services = {A}
  Threads = {t1, t2}
  Users = {u}
  HandlerStops <- NoStops
  Datagrams = {"valid", "unparsable"}
  Contended = {}
  NoService = NoService
  NoThread = NoThread
  NoEntry = NoEntry
SPECIFICATION Spec
INVARIANT ListedIsRunning
