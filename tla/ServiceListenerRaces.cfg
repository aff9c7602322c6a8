\* Two users that start and stop at the same time, and handlers that stop listeners.
CONSTANTS
  A = A
  B = B
  Services = {A}
  Threads = {t1, t2, t3, t4}
  Users = {u, v}
  HandlerStops <- OwnStops
  Datagrams = {"valid"}
  Contended = {}
  NoService = NoService
  NoThread = NoThread
  NoEntry = NoEntry
SPECIFICATION FairSpec
PROPERTY OrphansEnd
