\* One user, handlers that may stop their own service, and datagrams of all kinds.
CONSTANTS
  A = A
  B = B
  Services = {A, B}
  Threads = {t1, t2, t3}
  Users = {u}
  HandlerStops <- OwnStops
  Datagrams = {"valid", "wrong_format", "unparsable"}
  Contended = {B}
  NoService = NoService
  NoThread = NoThread
  NoEntry = NoEntry
SPECIFICATION FairSpec
INVARIANTS TypeOK OneListener
PROPERTY CallsReturn
